------------------------------- MODULE CvePolicy -------------------------------
(***************************************************************************)
(* How a finding of a scanned image is judged: cve/policy.py's trust       *)
(* ladder over what the scanner reports (cve/scanner.py), the project's    *)
(* posture, its hardening penalty (cve/hardening.py), its runtimes         *)
(* (cve/relevance.py), and whether the CVE is on the KEV catalog or        *)
(* suppressed.  Severities are their ranks, vendors their place in the     *)
(* order the scanner asks them: the distributions first.                   *)
(***************************************************************************)
EXTENDS Integers, FiniteSets

CONSTANTS Vendors,   \* the sources that rate a CVE: 1 .. Vendors
          Distros,   \* of which 1 .. Distros are distributions, in _DISTRO_SOURCES' order
          Runtimes   \* language runtimes a package or a project may belong to

ASSUME CvePolicyAssumption ==
    /\ Vendors \in Nat /\ Distros \in 0 .. Vendors
    /\ "system" \notin Runtimes

Unknown == 0
Medium == 2
High == 3
Critical == 4
Severities == Unknown .. Critical

Statuses == {"affected", "fixed", "under_investigation", "will_not_fix", "fix_deferred",
             "end_of_life", "not_affected", "unknown"}

\* `runtime` is the language runtime whose OS package this is, "system" for
\* any other package; a rating a vendor does not give is Unknown.
Findings == [severity : Severities, ratings : [1 .. Vendors -> Severities],
             status : Statuses, network : BOOLEAN, runtime : Runtimes \cup {"system"},
             fix : BOOLEAN]

Postures == {"relaxed", "balanced", "strict", "paranoid"}

Threshold == [relaxed |-> Critical, balanced |-> High, strict |-> Medium, paranoid |-> Medium]

(***************************************************************************)
(* The hardening penalty of a project's services.                          *)
(***************************************************************************)

\* A service as compose.yml and the manifest have it: profile `off` takes the
\* overlay away; `overlayNnp` and `overlayCaps` are what resolve_security
\* leaves or adds.
Services == [declared : BOOLEAN, off : BOOLEAN, readOnly : {"true", "false", "unset"},
             nnp : BOOLEAN, caps : BOOLEAN, privileged : BOOLEAN,
             overlayNnp : BOOLEAN, overlayCaps : BOOLEAN]

\* The weakest service decides.  The rule of 0.10.1 takes every service not
\* on profile off as hardened; the one of 0.12 looks at the overlay it gets.
LegacyProfile(services) ==
    [readOnly |-> \A s \in services : IF s.off THEN s.readOnly = "true" ELSE s.readOnly # "false",
     nnp |-> \A s \in services : ~s.off \/ s.nnp,
     caps |-> \E s \in services : s.caps,
     privileged |-> \E s \in services : s.privileged]

StrictProfile(services) ==
    [readOnly |-> \A s \in services : IF s.declared /\ ~s.off THEN s.readOnly # "false"
                                                              ELSE s.readOnly = "true",
     nnp |-> \A s \in services : s.overlayNnp \/ s.nnp,
     caps |-> \E s \in services : s.caps \/ s.overlayCaps,
     privileged |-> \E s \in services : s.privileged]

MaxPenalty == 2

Smaller(a, b) == IF a <= b THEN a ELSE b
Steps(b) == IF b THEN 1 ELSE 0

Penalty(profile) ==
    IF profile.privileged THEN MaxPenalty
    ELSE Smaller(Steps(~profile.readOnly) + Steps(~profile.nnp) + Steps(profile.caps), MaxPenalty)

\* Until the stricter rule is enforced, the penalty applied is the legacy one;
\* the strict one rides along where it is higher.
Applied(services) == Penalty(LegacyProfile(services))
Upcoming(services) ==
    IF Penalty(StrictProfile(services)) > Applied(services) THEN Penalty(StrictProfile(services))
    ELSE Applied(services)

(***************************************************************************)
(* Severities.                                                             *)
(***************************************************************************)

Elevate(severity, penalty) ==
    IF severity = Unknown THEN Unknown ELSE Smaller(severity + penalty, Critical)

\* The first distribution that has an opinion; Unknown: none has.
DistroSeverity(f) ==
    LET rated == {v \in 1 .. Distros : f.ratings[v] # Unknown}
    IN IF rated = {} THEN Unknown
       ELSE f.ratings[CHOOSE v \in rated : \A w \in rated : v <= w]

\* The highest any source reports, Trivy's own included.
HighestSeverity(f) ==
    LET all == {f.severity} \cup {f.ratings[v] : v \in 1 .. Vendors}
    IN CHOOSE s \in all : \A t \in all : t <= s

Base(f, posture) == IF posture = "paranoid" THEN HighestSeverity(f) ELSE f.severity

(***************************************************************************)
(* The trust ladder.                                                       *)
(***************************************************************************)

Deprioritized == {"will_not_fix", "fix_deferred", "not_affected", "under_investigation"}

Irrelevant(f, runtimes) == f.runtime # "system" /\ f.runtime \notin runtimes

\* What a finding is compared with: paranoid trusts no distribution, relaxed
\* compares nothing, the others only what a distribution calls a network risk
\* of a runtime the project uses.
Compared(f, posture, runtimes) ==
    CASE posture = "paranoid" -> HighestSeverity(f)
      [] posture = "relaxed" -> Unknown
      [] OTHER -> IF \/ Irrelevant(f, runtimes)
                     \/ f.status \in Deprioritized
                     \/ ~f.network
                  THEN Unknown ELSE DistroSeverity(f)

OverThreshold(f, posture, penalty, runtimes) ==
    /\ Base(f, posture) # Unknown
    /\ Compared(f, posture, runtimes) # Unknown
    /\ Elevate(Compared(f, posture, runtimes), penalty) >= Threshold[posture]

Judged(over, danger) ==
    CASE ~over -> "informational"
      [] over /\ danger -> "still_running_at_risk"
      [] OTHER -> "quarantine"

\* A policy in force: [posture, danger, services, runtimes].
Policies == [posture : Postures, danger : BOOLEAN, services : SUBSET Services,
             runtimes : SUBSET Runtimes]

Dispose(f, p, penalty, listed, accepted) ==
    CASE listed -> (CASE p.danger -> "still_running_at_risk"
                   [] ~p.danger /\ f.fix /\ p.posture = "relaxed" -> "ignored_fixed"
                   [] OTHER -> "quarantine")
      [] ~listed /\ f.fix -> "ignored_fixed"
      [] ~listed /\ ~f.fix /\ accepted -> "suppressed"
      [] OTHER -> Judged(OverThreshold(f, p.posture, penalty, p.runtimes), p.danger)

Disposition(f, p, listed, accepted) == Dispose(f, p, Applied(p.services), listed, accepted)

\* A fix that is not running yet: what the finding would be without it.
FixWouldQuarantine(f, p, listed, accepted) ==
    /\ ~listed /\ f.fix
    /\ Disposition([f EXCEPT !.fix = FALSE], p, listed, accepted)
         \in {"quarantine", "still_running_at_risk"}

\* A warning today, a quarantine under the stricter rule.
HardeningWouldQuarantine(f, p, listed, accepted) ==
    /\ Disposition(f, p, listed, accepted) # "quarantine"
    /\ Dispose(f, p, Upcoming(p.services), listed, accepted) = "quarantine"
=============================================================================
