---------------------------- MODULE CveFleetProofs -----------------------------
(***************************************************************************)
(* What is proved of the trust ladder, for every number of vendors and     *)
(* runtimes, every finding, every policy and every set of services: a      *)
(* stricter posture, a service more and the stricter hardening rule can    *)
(* only add quarantines, and a finding that is let go for one reason is    *)
(* not let go for a worse one.  The argument is one of order: penalties    *)
(* and severities are ranks, the elevation keeps their order, and no       *)
(* distribution rates a CVE above the highest of all its ratings.          *)
(*                                                                         *)
(* And of the fleet scan, for any number of projects, CVEs and concurrent  *)
(* scans, any policies and any changes and faults: the types, and that a   *)
(* scan never stops more than the breaker lets through.  BlastRadius is    *)
(* not inductive: a scan could still be about to stop what takes it over   *)
(* the limit.  WithinLimit bounds what it stopped together with what it    *)
(* may still stop, and Settled says it has stopped nothing before it       *)
(* weighs its candidates.  And, where scans come one at a time and miss no *)
(* image, that what is held stays held: HoldInv says that the hold is on   *)
(* file, and what each scan knows of the holds it may lift.                *)
(***************************************************************************)
EXTENDS CveFleet, WellFoundedInduction, FiniteSetTheorems, TLAPS

\* The postures from the mildest to the strictest.
Rank == [relaxed |-> 0, balanced |-> 1, strict |-> 2, paranoid |-> 3]

-----------------------------------------------------------------------------
(* Ranks. *)

\* A set of naturals has a least element: the first of a scan's projects, and
\* the first distribution that has an opinion (policy.py: _distro_severity).
LEMMA LeastExists ==
    ASSUME NEW S \in SUBSET Nat, S # {}
    PROVE  \E m \in S : \A n \in S : m <= n
<1>1. PICK m \in S : \A n \in S : ~ (<<n, m>> \in OpToRel(<, Nat))
  BY NatLessThanWellFounded, WFMin
<1>2. \A n \in S : ~ (n < m)
  BY <1>1, S \subseteq Nat DEF OpToRel
<1>3. QED
  BY <1>2

\* So has a set of severities a greatest one (policy.py: _highest_severity).
LEMMA GreatestSeverityExists ==
    ASSUME NEW S \in SUBSET Severities, S # {}
    PROVE  \E m \in S : \A n \in S : n <= m
<1> USE DEF Severities, Unknown, Critical
<1>1. CASE 4 \in S  BY <1>1
<1>2. CASE 4 \notin S /\ 3 \in S  BY <1>2
<1>3. CASE 4 \notin S /\ 3 \notin S /\ 2 \in S  BY <1>3
<1>4. CASE 4 \notin S /\ 3 \notin S /\ 2 \notin S /\ 1 \in S  BY <1>4
<1>5. CASE 4 \notin S /\ 3 \notin S /\ 2 \notin S /\ 1 \notin S
  <2>1. PICK m \in S : TRUE
    OBVIOUS
  <2>2. \A n \in S : n <= m
    BY <1>5
  <2>3. QED
    BY <2>2
<1>6. QED
  BY <1>1, <1>2, <1>3, <1>4, <1>5

\* A penalty is 0, 1 or 2 steps (hardening.py: penalty_for).
LEMMA PenaltyType == \A profile : Penalty(profile) \in 0 .. MaxPenalty
  BY DEF Penalty, MaxPenalty, Smaller, Steps

\* A profile with more to fear has no smaller penalty (hardening.py).
LEMMA PenaltyMonotone ==
    ASSUME NEW p, NEW q,
           q.readOnly => p.readOnly, q.nnp => p.nnp,
           p.caps => q.caps, p.privileged => q.privileged
    PROVE  Penalty(p) <= Penalty(q)
  BY DEF Penalty, MaxPenalty, Smaller, Steps

\* The penalty applied and the upcoming one (hardening_upcoming.py).
LEMMA PenaltiesType ==
    ASSUME NEW services
    PROVE  /\ Applied(services) \in 0 .. MaxPenalty
           /\ Upcoming(services) \in 0 .. MaxPenalty
           /\ Applied(services) <= Upcoming(services)
  BY PenaltyType DEF Applied, Upcoming, MaxPenalty

\* Elevation stays within the severities and keeps their order
\* (policy_types.py: elevate).
LEMMA ElevateMonotone ==
    ASSUME NEW s \in Severities, NEW t \in Severities, s <= t,
           NEW a \in 0 .. MaxPenalty, NEW b \in 0 .. MaxPenalty, a <= b
    PROVE  /\ Elevate(s, a) \in Severities
           /\ Elevate(s, a) <= Elevate(t, b)
           /\ Elevate(s, a) = Unknown <=> s = Unknown
  BY DEF Elevate, Smaller, Severities, Unknown, Critical, MaxPenalty

\* What the distributions say is a severity, and no more than the highest
\* rating; a CVE Trivy rates has one (policy.py).
LEMMA RatingsOrdered ==
    ASSUME NEW f \in Findings
    PROVE  /\ f.severity \in Severities
           /\ DistroSeverity(f) \in Severities
           /\ HighestSeverity(f) \in Severities
           /\ DistroSeverity(f) <= HighestSeverity(f)
           /\ f.severity <= HighestSeverity(f)
<1> DEFINE rated == {v \in 1 .. Distros : f.ratings[v] # Unknown}
           all == {f.severity} \cup {f.ratings[v] : v \in 1 .. Vendors}
<1>1. /\ f.severity \in Severities
      /\ f.ratings \in [1 .. Vendors -> Severities]
  BY DEF Findings
<1>2. /\ all \subseteq Severities /\ all # {}
  BY <1>1
<1>3. /\ HighestSeverity(f) \in all
      /\ \A t \in all : t <= HighestSeverity(f)
  <2> HIDE DEF all
  <2>1. \E s \in all : \A t \in all : t <= s
    BY <1>2, GreatestSeverityExists
  <2>2. HighestSeverity(f) = CHOOSE s \in all : \A t \in all : t <= s
    BY DEF HighestSeverity, all
  <2>3. QED
    BY <2>1, <2>2
<1>4. DistroSeverity(f) \in all \cup {Unknown}
  <2>1. CASE rated = {}
    BY <2>1 DEF DistroSeverity
  <2>2. CASE rated # {}
    <3>1. rated \subseteq Nat
      BY CvePolicyAssumption
    <3>2. \E v \in rated : \A w \in rated : v <= w
      BY <2>2, <3>1, LeastExists
    <3>3. DistroSeverity(f) = f.ratings[CHOOSE v \in rated : \A w \in rated : v <= w]
      BY <2>2 DEF DistroSeverity
    <3>4. (CHOOSE v \in rated : \A w \in rated : v <= w) \in 1 .. Vendors
      BY <3>2, CvePolicyAssumption
    <3>5. QED
      BY <3>3, <3>4
  <2>3. QED
    BY <2>1, <2>2
<1>5. HighestSeverity(f) \in Severities
  BY <1>2, <1>3
<1>6. DistroSeverity(f) \in Severities
  BY <1>2, <1>4 DEF Severities, Unknown, Critical
<1>7. DistroSeverity(f) <= HighestSeverity(f)
  <2>1. CASE DistroSeverity(f) \in all
    BY <2>1, <1>3
  <2>2. CASE DistroSeverity(f) = Unknown
    BY <2>2, <1>5 DEF Severities, Unknown, Critical
  <2>3. QED
    BY <2>1, <2>2, <1>4
<1>8. f.severity <= HighestSeverity(f)
  BY <1>3
<1>9. QED
  BY <1>1, <1>5, <1>6, <1>7, <1>8

-----------------------------------------------------------------------------
(* The ladder. *)

\* Without a KEV listing, a fix or a suppression, only the comparison with the
\* posture's threshold decides (policy.py: evaluate_finding).
LEMMA QuarantineByThreshold ==
    ASSUME NEW f, NEW p, NEW penalty, NEW listed \in BOOLEAN, NEW accepted \in BOOLEAN,
           f.fix \in BOOLEAN, p.danger \in BOOLEAN, ~listed
    PROVE  Dispose(f, p, penalty, listed, accepted) = "quarantine" <=>
               /\ ~f.fix /\ ~accepted /\ ~p.danger
               /\ OverThreshold(f, p.posture, penalty, p.runtimes)
  BY DEF Dispose, Judged

\* A listed finding is never suppressed and never informational; what it
\* becomes does not depend on the penalty.
LEMMA QuarantineListed ==
    ASSUME NEW f, NEW p, NEW penalty, NEW accepted, f.fix \in BOOLEAN, p.danger \in BOOLEAN
    PROVE  Dispose(f, p, penalty, TRUE, accepted) = "quarantine" <=>
               ~p.danger /\ ~(f.fix /\ p.posture = "relaxed")
  BY DEF Dispose

\* More penalty only takes a finding further over the threshold.
LEMMA OverThresholdMonotone ==
    ASSUME NEW f \in Findings, NEW posture \in Postures, NEW runtimes,
           NEW a \in 0 .. MaxPenalty, NEW b \in 0 .. MaxPenalty, a <= b,
           OverThreshold(f, posture, a, runtimes)
    PROVE  OverThreshold(f, posture, b, runtimes)
<1> DEFINE s == Compared(f, posture, runtimes)
<1>1. s \in Severities
  BY RatingsOrdered DEF Compared, Severities, Unknown, Critical
<1>2. /\ Elevate(s, a) \in Severities /\ Elevate(s, b) \in Severities
      /\ Elevate(s, a) <= Elevate(s, b)
  <2> HIDE DEF s
  <2>1. s <= s
    BY <1>1 DEF Severities, Unknown, Critical
  <2>2. b <= b
    BY DEF MaxPenalty
  <2>3. QED
    BY <1>1, <2>1, <2>2, ElevateMonotone
<1>3. Threshold[posture] \in Severities
  BY DEF Threshold, Postures, Severities, Unknown, Medium, High, Critical
<1>4. QED
  BY <1>2, <1>3 DEF OverThreshold, Severities, Unknown, Critical

\* A stricter posture compares no less with a threshold that is no higher.
LEMMA OverThresholdStricter ==
    ASSUME NEW f \in Findings, NEW runtimes, NEW penalty \in 0 .. MaxPenalty,
           NEW mild \in Postures, NEW strict \in Postures, Rank[mild] <= Rank[strict],
           OverThreshold(f, mild, penalty, runtimes)
    PROVE  OverThreshold(f, strict, penalty, runtimes)
<1> DEFINE s == Compared(f, mild, runtimes)
           t == Compared(f, strict, runtimes)
<1>1. CASE mild = "relaxed"
  BY <1>1 DEF OverThreshold, Compared
<1>2. CASE strict = mild
  BY <1>2
<1>3. CASE mild = "balanced" /\ strict = "strict"
  <2>1. s = t /\ Base(f, mild) = Base(f, strict)
    BY <1>3 DEF Compared, Base
  <2>2. Elevate(s, penalty) \in Severities
    <3>1. s \in Severities
      BY RatingsOrdered DEF Compared, Severities, Unknown, Critical
    <3> HIDE DEF s
    <3>2. s <= s /\ penalty <= penalty
      BY <3>1 DEF Severities, Unknown, Critical, MaxPenalty
    <3>3. QED
      BY <3>1, <3>2, ElevateMonotone
  <2>3. Threshold[strict] <= Threshold[mild]
    BY <1>3 DEF Threshold, Medium, High
  <2>4. QED
    BY <2>1, <2>2, <2>3, <1>3 DEF OverThreshold, Threshold, Medium, High, Severities, Unknown, Critical
<1>4. CASE mild \in {"balanced", "strict"} /\ strict = "paranoid"
  <2>1. s \in Severities /\ t \in Severities /\ s <= t /\ s # Unknown
    <3>1. t = HighestSeverity(f)
      BY <1>4 DEF Compared
    <3>2. s = DistroSeverity(f)
      BY <1>4 DEF OverThreshold, Compared
    <3>3. s # Unknown
      BY DEF OverThreshold
    <3>4. QED
      BY <3>1, <3>2, <3>3, RatingsOrdered
  <2>2. Base(f, strict) # Unknown /\ t # Unknown
    BY <2>1, <1>4, RatingsOrdered DEF Base, Compared, Severities, Unknown, Critical
  <2>3. /\ Elevate(s, penalty) \in Severities /\ Elevate(t, penalty) \in Severities
        /\ Elevate(s, penalty) <= Elevate(t, penalty)
    <3> HIDE DEF s, t
    <3>1. t <= t /\ penalty <= penalty
      BY <2>1 DEF Severities, Unknown, Critical, MaxPenalty
    <3>2. QED
      BY <2>1, <3>1, ElevateMonotone
  <2>4. Threshold[strict] <= Threshold[mild] /\ Threshold[mild] \in Nat /\ Threshold[strict] \in Nat
    BY <1>4 DEF Threshold, Medium, High
  <2>5. Elevate(s, penalty) >= Threshold[mild]
    BY DEF OverThreshold
  <2>6. Elevate(t, penalty) >= Threshold[strict]
    BY <2>3, <2>4, <2>5 DEF Severities, Unknown, Critical
  <2>7. QED
    BY <2>2, <2>6 DEF OverThreshold
<1>5. QED
  BY <1>1, <1>2, <1>3, <1>4 DEF Rank, Postures

\* What Dispose makes of a quarantine when the posture gets stricter and the
\* penalty higher: one again.
LEMMA DisposeMonotone ==
    ASSUME NEW f \in Findings, NEW p \in Policies, NEW q \in Policies,
           NEW listed \in BOOLEAN, NEW accepted \in BOOLEAN,
           NEW a \in 0 .. MaxPenalty, NEW b \in 0 .. MaxPenalty, a <= b,
           p.danger = q.danger, p.runtimes = q.runtimes,
           Rank[p.posture] <= Rank[q.posture],
           Dispose(f, p, a, listed, accepted) = "quarantine"
    PROVE  Dispose(f, q, b, listed, accepted) = "quarantine"
<1>1. /\ f.fix \in BOOLEAN /\ p.danger \in BOOLEAN /\ q.danger \in BOOLEAN
      /\ p.posture \in Postures /\ q.posture \in Postures
  BY DEF Findings, Policies
<1>2. CASE listed
  <2>1. ~p.danger /\ ~(f.fix /\ p.posture = "relaxed")
    BY <1>1, <1>2, QuarantineListed
  <2>2. ~q.danger /\ ~(f.fix /\ q.posture = "relaxed")
    BY <2>1, <1>1 DEF Rank, Postures
  <2>3. QED
    BY <2>2, <1>1, <1>2, QuarantineListed
<1>3. CASE ~listed
  <2>1. /\ ~f.fix /\ ~accepted /\ ~p.danger
        /\ OverThreshold(f, p.posture, a, p.runtimes)
    BY <1>1, <1>3, QuarantineByThreshold
  <2>2. OverThreshold(f, p.posture, b, p.runtimes)
    BY <2>1, <1>1, OverThresholdMonotone
  <2>3. OverThreshold(f, q.posture, b, q.runtimes)
    BY <2>2, <1>1, OverThresholdStricter
  <2>4. QED
    BY <2>1, <2>3, <1>1, <1>3, QuarantineByThreshold
<1>4. QED
  BY <1>2, <1>3

-----------------------------------------------------------------------------
(* The theorems. *)

\* What quarantines a project under one posture quarantines it under every
\* stricter one, distributions' ratings, triage and runtimes notwithstanding
\* (policy.py: evaluate_finding; CVE_POLICY.md's table of postures).
THEOREM StricterNeverMilder ==
    ASSUME NEW f \in Findings, NEW p \in Policies, NEW posture \in Postures,
           NEW listed \in BOOLEAN, NEW accepted \in BOOLEAN,
           Rank[p.posture] <= Rank[posture],
           Disposition(f, p, listed, accepted) = "quarantine"
    PROVE  Disposition(f, [p EXCEPT !.posture = posture], listed, accepted) = "quarantine"
<1> DEFINE q == [p EXCEPT !.posture = posture]
           a == Applied(p.services)
<1>1. /\ q \in Policies /\ q.posture = posture
      /\ q.danger = p.danger /\ q.runtimes = p.runtimes /\ q.services = p.services
  BY DEF Policies
<1>2. a \in 0 .. MaxPenalty /\ a <= a
  <2> HIDE DEF a
  <2>1. a \in 0 .. MaxPenalty
    BY PenaltiesType DEF a
  <2>2. QED
    BY <2>1 DEF MaxPenalty
<1>3. Dispose(f, p, a, listed, accepted) = "quarantine"
  BY DEF Disposition
<1>4. Dispose(f, q, a, listed, accepted) = "quarantine"
  <2> HIDE DEF q, a
  <2>1. QED
    BY <1>1, <1>2, <1>3, DisposeMonotone
<1>5. QED
  BY <1>1, <1>4 DEF Disposition

\* The weakest service decides: what quarantines a project quarantines it
\* with any service more (hardening.py: the profile is joined over the
\* services).
THEOREM AddedServiceNeverMilder ==
    ASSUME NEW f \in Findings, NEW p \in Policies, NEW more \in SUBSET Services,
           NEW listed \in BOOLEAN, NEW accepted \in BOOLEAN,
           Disposition(f, p, listed, accepted) = "quarantine"
    PROVE  Disposition(f, [p EXCEPT !.services = @ \cup more], listed, accepted) = "quarantine"
<1> DEFINE q == [p EXCEPT !.services = @ \cup more]
           a == Applied(p.services)
           b == Applied(q.services)
<1>1. /\ q \in Policies /\ q.services = p.services \cup more
      /\ q.danger = p.danger /\ q.runtimes = p.runtimes /\ q.posture = p.posture
  BY DEF Policies
<1>2. a \in 0 .. MaxPenalty /\ b \in 0 .. MaxPenalty
  BY PenaltiesType
<1>3. a <= b
  <2> DEFINE P == LegacyProfile(p.services)
             Q == LegacyProfile(p.services \cup more)
  <2>1. Q.readOnly => P.readOnly
    BY DEF LegacyProfile
  <2>2. Q.nnp => P.nnp
    BY DEF LegacyProfile
  <2>3. P.caps => Q.caps
    BY DEF LegacyProfile
  <2>4. P.privileged => Q.privileged
    BY DEF LegacyProfile
  <2>5. Penalty(P) <= Penalty(Q)
    <3> HIDE DEF P, Q
    <3>1. QED
      BY <2>1, <2>2, <2>3, <2>4, PenaltyMonotone
  <2>6. QED
    BY <2>5, <1>1 DEF Applied
<1>4. p.posture \in Postures /\ Rank[p.posture] <= Rank[q.posture]
  BY <1>1 DEF Policies, Postures, Rank
<1>5. Dispose(f, p, a, listed, accepted) = "quarantine"
  BY DEF Disposition
<1>6. Dispose(f, q, b, listed, accepted) = "quarantine"
  <2> HIDE DEF q, a, b
  <2>1. QED
    BY <1>1, <1>2, <1>3, <1>4, <1>5, DisposeMonotone
<1>7. QED
  BY <1>6 DEF Disposition

\* The stricter hardening rule only adds quarantines, and the warning ahead
\* of it names a finding that is informational today and that nothing but
\* its own project's penalty keeps so (policy.py:
\* hardening_would_quarantine; hardening_upcoming.py).
THEOREM UpcomingRuleOnlyAdds ==
    ASSUME NEW f \in Findings, NEW p \in Policies,
           NEW listed \in BOOLEAN, NEW accepted \in BOOLEAN
    PROVE  /\ Disposition(f, p, listed, accepted) = "quarantine"
                => Dispose(f, p, Upcoming(p.services), listed, accepted) = "quarantine"
           /\ HardeningWouldQuarantine(f, p, listed, accepted)
                => /\ Disposition(f, p, listed, accepted) = "informational"
                   /\ Applied(p.services) < Upcoming(p.services)
                   /\ p.posture # "relaxed"
<1> DEFINE a == Applied(p.services)
           b == Upcoming(p.services)
<1>1. a \in 0 .. MaxPenalty /\ b \in 0 .. MaxPenalty /\ a <= b
  BY PenaltiesType
<1>2. /\ f.fix \in BOOLEAN /\ p.danger \in BOOLEAN
      /\ p.posture \in Postures /\ Rank[p.posture] <= Rank[p.posture]
  BY DEF Findings, Policies, Postures, Rank
<1>3. Dispose(f, p, a, listed, accepted) = "quarantine"
        => Dispose(f, p, b, listed, accepted) = "quarantine"
  <2> HIDE DEF a, b
  <2>1. QED
    BY <1>1, <1>2, DisposeMonotone
<1>4. ASSUME Dispose(f, p, a, listed, accepted) # "quarantine",
             Dispose(f, p, b, listed, accepted) = "quarantine"
      PROVE  /\ Dispose(f, p, a, listed, accepted) = "informational"
             /\ a < b
             /\ p.posture # "relaxed"
  <2> HIDE DEF a, b
  <2>1. ~listed
    BY <1>2, <1>4, QuarantineListed
  <2>2. /\ ~f.fix /\ ~accepted /\ ~p.danger
        /\ OverThreshold(f, p.posture, b, p.runtimes)
    BY <2>1, <1>2, <1>4, QuarantineByThreshold
  <2>3. ~OverThreshold(f, p.posture, a, p.runtimes)
    BY <2>1, <2>2, <1>2, <1>4, QuarantineByThreshold
  <2>4. Dispose(f, p, a, listed, accepted) = "informational"
    BY <2>1, <2>2, <2>3 DEF Dispose, Judged
  <2>5. a < b
    BY <2>2, <2>3, <1>1 DEF MaxPenalty
  <2>6. p.posture # "relaxed"
    BY <2>2 DEF OverThreshold, Compared
  <2>7. QED
    BY <2>4, <2>5, <2>6
<1>5. QED
  BY <1>3, <1>4 DEF Disposition, HardeningWouldQuarantine

\* danger_accept_unpatched_cves keeps a project up and its findings in view:
\* nothing quarantines it, and what would have is reported as running at
\* risk, a KEV listing included (policy.py: evaluate_finding).
THEOREM DangerKeepsInView ==
    ASSUME NEW f \in Findings, NEW p \in Policies, ~p.danger,
           NEW listed \in BOOLEAN, NEW accepted \in BOOLEAN
    PROVE  LET careless == Disposition(f, [p EXCEPT !.danger = TRUE], listed, accepted)
           IN /\ careless # "quarantine"
              /\ Disposition(f, p, listed, accepted) = "quarantine" \/ listed
                   <=> careless = "still_running_at_risk"
<1> DEFINE q == [p EXCEPT !.danger = TRUE]
<1>1. /\ q \in Policies /\ q.danger = TRUE
      /\ q.runtimes = p.runtimes /\ q.posture = p.posture /\ q.services = p.services
      /\ f.fix \in BOOLEAN
  BY DEF Policies, Findings
<1>2. Applied(q.services) = Applied(p.services)
  BY <1>1
<1>3. CASE listed
  <2>1. Disposition(f, q, listed, accepted) = "still_running_at_risk"
    BY <1>1, <1>3 DEF Disposition, Dispose
  <2>2. QED
    BY <2>1, <1>3
<1>4. CASE ~listed
  <2>1. Disposition(f, p, listed, accepted) = "quarantine" <=>
          /\ ~f.fix /\ ~accepted
          /\ OverThreshold(f, p.posture, Applied(p.services), p.runtimes)
    BY <1>1, <1>4, QuarantineByThreshold DEF Disposition, Policies
  <2>2. Disposition(f, q, listed, accepted) = "still_running_at_risk" <=>
          /\ ~f.fix /\ ~accepted
          /\ OverThreshold(f, p.posture, Applied(p.services), p.runtimes)
    BY <1>1, <1>2, <1>4 DEF Disposition, Dispose, Judged
  <2>3. Disposition(f, q, listed, accepted) # "quarantine"
    BY <1>1, <1>4 DEF Disposition, Dispose, Judged
  <2>4. QED
    BY <2>1, <2>2, <2>3, <1>4
<1>5. QED
  BY <1>3, <1>4

-----------------------------------------------------------------------------
(* The fleet scan.                                                         *)

\* What a scan has stopped or may still stop without a KEV finding.
AtStake(r) == {p \in r.stopped \cup r.apply : ~IsKev(r.scans[p].cves, r.listed)}

Limit(r) == TripThreshold(Cardinality({p \in Projects : r.scans[p].seen}))

Below(S, r) ==
    /\ Cardinality(S) < Limit(r)
    /\ \A c \in Cves : Cardinality({p \in S : c \in r.scans[p].cves}) < Limit(r)

WithinLimit(r) == Below(AtStake(r), r)

\* Nothing is stopped before the candidates are weighed, nor with a KEV
\* finding among what is counted.
Settled(r) ==
    /\ r.pc \in {"idle", "scan", "held"} => r.apply = {} /\ r.stopped = {}
    /\ \A p \in r.stopped : ~IsKev(r.scans[p].cves, r.listed)

\* The inductive invariant behind BlastRadius.
ScanInv == \A j \in Jobs : WithinLimit(job[j]) /\ Settled(job[j])

-----------------------------------------------------------------------------
(* Finite sets of projects. *)

LEMMA ProjectsFinite ==
    /\ IsFiniteSet(Projects) /\ Projects \subseteq Nat
    /\ \A S \in SUBSET Projects : IsFiniteSet(S) /\ Cardinality(S) \in Nat
<1>1. NProjects \in Int /\ 1 \in Int
  BY CveFleetAssumption
<1>2. IsFiniteSet(Projects)
  BY <1>1, FS_Interval DEF Projects
<1>3. \A S \in SUBSET Projects : IsFiniteSet(S) /\ Cardinality(S) \in Nat
  BY <1>2, FS_Subset, FS_CardinalityType
<1>4. QED
  BY <1>2, <1>3, CveFleetAssumption DEF Projects

\* The project a scan turns to is one of those left (security_scan_core.py).
LEMMA FirstIsOne ==
    ASSUME NEW S \in SUBSET Projects, S # {}
    PROVE  First(S) \in S
<1>1. \E m \in S : \A n \in S : m <= n
  BY ProjectsFinite, LeastExists
<1>2. QED
  BY <1>1 DEF First

\* The threshold is at least two (breaker.py: max(2, ...)).
LEMMA ThresholdType ==
    ASSUME NEW n \in Nat
    PROVE  TripThreshold(n) \in Nat /\ TripThreshold(n) >= 2
  BY DEF TripThreshold

LEMMA LimitType ==
    ASSUME NEW r
    PROVE  Limit(r) \in Nat /\ Limit(r) >= 2
<1>1. Cardinality({p \in Projects : r.scans[p].seen}) \in Nat
  BY ProjectsFinite
<1>2. QED
  BY <1>1, ThresholdType DEF Limit

\* Fewer projects stay below.
LEMMA BelowSubset ==
    ASSUME NEW r, NEW S \in SUBSET Projects, NEW T \in SUBSET S, Below(S, r)
    PROVE  Below(T, r)
<1>1. Cardinality(T) <= Cardinality(S) /\ Cardinality(T) \in Nat /\ Cardinality(S) \in Nat
  BY ProjectsFinite, FS_Subset
<1>2. ASSUME NEW c \in Cves
      PROVE  Cardinality({p \in T : c \in r.scans[p].cves}) < Limit(r)
  <2> DEFINE A == {p \in T : c \in r.scans[p].cves}
             B == {p \in S : c \in r.scans[p].cves}
  <2>1. A \in SUBSET B /\ B \in SUBSET Projects
    OBVIOUS
  <2>2. Cardinality(A) <= Cardinality(B) /\ Cardinality(A) \in Nat /\ Cardinality(B) \in Nat
    <3> HIDE DEF A, B
    <3>1. QED
      BY <2>1, ProjectsFinite, FS_Subset
  <2>3. Cardinality(B) < Limit(r)
    BY DEF Below
  <2>4. QED
    BY <2>2, <2>3, LimitType
<1>3. QED
  BY <1>1, <1>2, LimitType DEF Below

LEMMA NoneBelow ==
    ASSUME NEW r
    PROVE  Below({}, r)
<1>1. Cardinality({}) = 0
  BY FS_EmptySet
<1>2. \A c \in Cves : {p \in {} : c \in r.scans[p].cves} = {}
  OBVIOUS
<1>3. QED
  BY <1>1, <1>2, LimitType DEF Below

-----------------------------------------------------------------------------
(* Types. *)

LEMMA IdleType == Idle \in JobStates
  BY DEF Idle, JobStates, NoHold, Unscanned, Scans

LEMMA TypeInit == Init => TypeOK
<1>1. NoHold \in [Projects -> SUBSET Cves]
  BY DEF NoHold
<1>2. Idle \in JobStates => [j \in Jobs |-> Idle] \in [Jobs -> JobStates]
  OBVIOUS
<1>3. Init => /\ pending \in BOOLEAN /\ grace \in {"unset", "active", "over"}
              /\ job \in [Jobs -> JobStates]
  BY <1>2, IdleType DEF Init
<1>4. Init => kev \subseteq Cves /\ quar \subseteq Projects /\ changes \in Nat /\ faults \in Nat
  BY DEF Init
<1>5. QED
  BY <1>1, <1>3, <1>4, Zenon DEF Init, TypeOK

LEMMA GoType ==
    ASSUME job \in [Jobs -> JobStates], NEW j \in Jobs, NEW new \in JobStates, Go(j, new)
    PROVE  job' \in [Jobs -> JobStates]
  BY DEF Go

LEMMA FaultType ==
    ASSUME faults \in Nat, NEW b, Fault(b)
    PROVE  faults' \in Nat
  BY DEF Fault, MayFault

LEMMA ChangeType ==
    ASSUME changes \in Nat, Change
    PROVE  changes' \in Nat
  BY DEF Change

LEMMA StartType ==
    ASSUME TypeOK, NEW j \in Jobs, NEW targets \in SUBSET Projects, Start(j, targets)
    PROVE  TypeOK'
<1>1. PICK new \in SUBSET (Cves \ kev) :
         /\ IF new = {} THEN UNCHANGED changes ELSE Change
         /\ kev' = kev \cup new
         /\ Go(j, [Idle EXCEPT !.pc = "scan", !.todo = targets, !.listed = kev',
                               !.inGrace = grace # "over"])
  BY DEF Start
<1>2. kev' \subseteq Cves /\ changes' \in Nat
  BY <1>1, ChangeType DEF TypeOK
<1>3. [Idle EXCEPT !.pc = "scan", !.todo = targets, !.listed = kev',
                   !.inGrace = grace # "over"] \in JobStates
  BY <1>2, IdleType DEF JobStates
<1>4. job' \in [Jobs -> JobStates]
  BY <1>1, <1>3, GoType DEF TypeOK
<1>5. QED
  BY <1>2, <1>4 DEF TypeOK, Start

LEMMA ScanProjectType ==
    ASSUME TypeOK, NEW j \in Jobs, ScanProject(j)
    PROVE  TypeOK'
<1> DEFINE p == First(job[j].todo)
           all == QuarantineLevel(p, carries[p], job[j].listed)
<1>1. job[j] \in JobStates /\ job[j].todo \in SUBSET Projects /\ job[j].todo # {}
  BY DEF TypeOK, JobStates, ScanProject
<1>2. p \in Projects
  BY <1>1, FirstIsOne
<1>3. PICK found \in SUBSET all, written \in BOOLEAN :
        /\ Fault(found # all \/ ~written)
        /\ recorded' = IF written THEN [recorded EXCEPT ![p] = found] ELSE recorded
        /\ Go(j, [job[j] EXCEPT !.todo = @ \ {p},
                                !.scans[p] = [seen |-> TRUE, cves |-> found]])
        /\ onHold' = IF OnlyOnHold(p, all, job[j].listed) THEN onHold
                     ELSE [onHold EXCEPT ![p] = {}]
  BY DEF ScanProject
<1>4. found \in SUBSET Cves
  BY <1>2 DEF QuarantineLevel, TypeOK
<1>5. [job[j] EXCEPT !.todo = @ \ {p}, !.scans[p] = [seen |-> TRUE, cves |-> found]] \in JobStates
  <2> HIDE DEF p
  <2>1. QED
    BY <1>1, <1>2, <1>4 DEF JobStates, Scans
<1>6. job' \in [Jobs -> JobStates]
  BY <1>3, <1>5, GoType DEF TypeOK
<1>7. faults' \in Nat
  BY <1>3, FaultType DEF TypeOK
<1>8. recorded' \in [Projects -> SUBSET Cves] /\ onHold' \in [Projects -> SUBSET Cves]
  BY <1>2, <1>3, <1>4 DEF TypeOK
<1>9. UNCHANGED <<carries, suppressed, held, kev, grace, quar, pending, changes>>
  BY DEF ScanProject, fleet
<1>10. QED
  BY <1>6, <1>7, <1>8, <1>9 DEF TypeOK

LEMMA SkipProjectType ==
    ASSUME TypeOK, NEW j \in Jobs, SkipProject(j)
    PROVE  TypeOK'
<1> DEFINE p == First(job[j].todo)
<1>1. [job[j] EXCEPT !.todo = @ \ {First(@)}] \in JobStates
  <2>1. job[j] \in JobStates
    BY DEF TypeOK
  <2>2. [job[j] EXCEPT !.todo = @ \ {First(@)}] = [job[j] EXCEPT !.todo = @ \ {p}]
    OBVIOUS
  <2> HIDE DEF p
  <2>3. QED
    BY <2>1, <2>2 DEF JobStates
<1> HIDE DEF p
<1>2. job' \in [Jobs -> JobStates]
  BY <1>1, GoType DEF TypeOK, SkipProject
<1>3. QED
  BY <1>2 DEF TypeOK, SkipProject, MayFault, fleet, file

\* What decide returns names projects only (breaker.py: decide).
LEMMA DecideType ==
    ASSUME NEW cands, NEW listed, NEW already, NEW n
    PROVE  LET v == Decide(cands, listed, already, n)
           IN v.apply \subseteq Projects /\ v.held \subseteq Projects /\ v.newly \subseteq Projects
  BY DEF Decide, Kevs, Fresh, StillHeld

LEMMA WeighType ==
    ASSUME TypeOK, NEW j \in Jobs, Weigh(j)
    PROVE  TypeOK'
<1> DEFINE v == Decide(Candidates(j), job[j].listed, held, Cardinality(Scanned(j)))
           new == [job[j] EXCEPT !.pc = "apply", !.apply = v.apply,
                                 !.next = NextHeld(j, v), !.newly = v.newly,
                                 !.pending = pending]
<1>1. Go(j, IF job[j].inGrace THEN Idle ELSE new)
  BY DEF Weigh
<1>2. v.apply \subseteq Projects /\ v.held \subseteq Projects /\ v.newly \subseteq Projects
  BY DecideType
<1>3. job[j] \in JobStates
  BY DEF TypeOK
<1>4. NextHeld(j, v) \in [Projects -> SUBSET Cves]
  <2> HIDE DEF v
  <2>1. QED
    BY <1>3 DEF NextHeld, TypeOK, JobStates, Scans
<1>5. new \in JobStates
  <2> HIDE DEF v
  <2>1. QED
    BY <1>2, <1>3, <1>4 DEF TypeOK, JobStates
<1>6. job' \in [Jobs -> JobStates]
  <2> HIDE DEF new
  <2>1. (IF job[j].inGrace THEN Idle ELSE new) \in JobStates
    BY <1>5, IdleType
  <2>2. QED
    BY <2>1, <1>1, GoType DEF TypeOK
<1>7. QED
  BY <1>6 DEF TypeOK, Weigh, fleet, file

LEMMA ApplyOneType ==
    ASSUME TypeOK, NEW j \in Jobs, ApplyOne(j)
    PROVE  TypeOK'
<1> DEFINE p == First(job[j].apply)
<1>1. job[j] \in JobStates /\ job[j].apply \in SUBSET Projects /\ job[j].apply # {}
  BY DEF TypeOK, JobStates, ApplyOne
<1>2. p \in Projects
  BY <1>1, FirstIsOne
<1>3. PICK done \in BOOLEAN, failed \in BOOLEAN :
        /\ Fault(failed)
        /\ quar' = IF done THEN quar \cup {p} ELSE quar
        /\ onHold' = IF done THEN [onHold EXCEPT ![p] = {}] ELSE onHold
        /\ Go(j, [job[j] EXCEPT !.apply = @ \ {p},
                    !.stopped = IF done /\ p \notin quar
                                   /\ ~IsKev(job[j].scans[p].cves, job[j].listed)
                                THEN @ \cup {p} ELSE @])
  BY DEF ApplyOne
<1> HIDE DEF p
<1>4. [job[j] EXCEPT !.apply = @ \ {p},
                     !.stopped = IF done /\ p \notin quar
                                    /\ ~IsKev(job[j].scans[p].cves, job[j].listed)
                                 THEN @ \cup {p} ELSE @] \in JobStates
  BY <1>1, <1>2 DEF JobStates
<1>5. job' \in [Jobs -> JobStates]
  BY <1>3, <1>4, GoType DEF TypeOK
<1>6. /\ faults' \in Nat /\ quar' \subseteq Projects
      /\ onHold' \in [Projects -> SUBSET Cves]
  BY <1>2, <1>3, FaultType DEF TypeOK
<1>7. QED
  BY <1>5, <1>6 DEF TypeOK, ApplyOne, fleet

LEMMA AlertHoldType ==
    ASSUME TypeOK, NEW j \in Jobs, AlertHold(j)
    PROVE  TypeOK'
<1> DEFINE due == job[j].next # NoHold /\ (job[j].newly # {} \/ job[j].pending)
<1>1. PICK delivered \in BOOLEAN :
        /\ Fault(~delivered)
        /\ Go(j, [job[j] EXCEPT !.pc = "write", !.pending = IF due THEN ~delivered ELSE @])
  BY DEF AlertHold
<1>2. [job[j] EXCEPT !.pc = "write", !.pending = IF due THEN ~delivered ELSE @] \in JobStates
  <2> DEFINE still == IF due THEN ~delivered ELSE job[j].pending
  <2>1. job[j] \in JobStates
    BY DEF TypeOK
  <2>2. still \in BOOLEAN
    BY <2>1 DEF JobStates
  <2> HIDE DEF due, still
  <2>3. [job[j] EXCEPT !.pc = "write", !.pending = still] \in JobStates
    BY <2>1, <2>2 DEF JobStates
  <2>4. QED
    BY <2>3 DEF still
<1>3. job' \in [Jobs -> JobStates]
  BY <1>1, <1>2, GoType DEF TypeOK
<1>4. faults' \in Nat
  BY <1>1, FaultType DEF TypeOK
<1>5. QED
  BY <1>3, <1>4 DEF TypeOK, AlertHold, fleet, file

LEMMA WriteHeldType ==
    ASSUME TypeOK, NEW j \in Jobs, WriteHeld(j)
    PROVE  TypeOK'
<1>1. job[j].next \in [Projects -> SUBSET Cves] /\ job[j].pending \in BOOLEAN
  BY DEF TypeOK, JobStates
<1>2. job' \in [Jobs -> JobStates]
  BY IdleType, GoType DEF TypeOK, WriteHeld
<1>3. onHold' \in [Projects -> SUBSET Cves]
  BY <1>1 DEF WriteHeld, TypeOK
<1>4. QED
  BY <1>1, <1>2, <1>3 DEF TypeOK, WriteHeld, fleet

LEMMA StartApplyHeldType ==
    ASSUME TypeOK, NEW j \in Jobs, StartApplyHeld(j)
    PROVE  TypeOK'
<1>1. [Idle EXCEPT !.pc = "held", !.todo = {p \in Projects : held[p] # {}}, !.next = held]
        \in JobStates
  BY IdleType DEF TypeOK, JobStates
<1>2. job' \in [Jobs -> JobStates]
  BY <1>1, GoType DEF TypeOK, StartApplyHeld
<1>3. QED
  BY <1>2 DEF TypeOK, StartApplyHeld, fleet, file

LEMMA ApplyHeldOneType ==
    ASSUME TypeOK, NEW j \in Jobs, ApplyHeldOne(j)
    PROVE  TypeOK'
<1> DEFINE p == First(job[j].todo)
<1>1. job[j] \in JobStates /\ job[j].todo \in SUBSET Projects /\ job[j].todo # {}
  BY DEF TypeOK, JobStates, ApplyHeldOne
<1>2. p \in Projects
  BY <1>1, FirstIsOne
<1>3. PICK done \in BOOLEAN, failed \in BOOLEAN :
        /\ Fault(failed)
        /\ quar' = IF done /\ recorded[p] # {} THEN quar \cup {p} ELSE quar
        /\ Go(j, [job[j] EXCEPT !.todo = @ \ {p}, !.next[p] = IF failed THEN @ ELSE {}])
        /\ onHold' = IF done THEN [onHold EXCEPT ![p] = {}] ELSE onHold
  BY DEF ApplyHeldOne
<1> HIDE DEF p
<1>4. [job[j] EXCEPT !.todo = @ \ {p}, !.next[p] = IF failed THEN @ ELSE {}] \in JobStates
  BY <1>1, <1>2 DEF JobStates
<1>5. job' \in [Jobs -> JobStates]
  BY <1>3, <1>4, GoType DEF TypeOK
<1>6. /\ faults' \in Nat /\ quar' \subseteq Projects
      /\ onHold' \in [Projects -> SUBSET Cves]
  BY <1>2, <1>3, FaultType DEF TypeOK
<1>7. QED
  BY <1>5, <1>6 DEF TypeOK, ApplyHeldOne, fleet

LEMMA ApplyHeldDoneType ==
    ASSUME TypeOK, NEW j \in Jobs, ApplyHeldDone(j)
    PROVE  TypeOK'
<1>1. job[j].next \in [Projects -> SUBSET Cves]
  BY DEF TypeOK, JobStates
<1>2. job' \in [Jobs -> JobStates]
  BY IdleType, GoType DEF TypeOK, ApplyHeldDone
<1>3. QED
  BY <1>1, <1>2 DEF TypeOK, ApplyHeldDone, fleet

LEMMA KillType ==
    ASSUME TypeOK, NEW j \in Jobs, Kill(j)
    PROVE  TypeOK'
<1>1. job' \in [Jobs -> JobStates]
  BY IdleType, GoType DEF TypeOK, Kill
<1>2. QED
  BY <1>1 DEF TypeOK, Kill, MayFault, fleet, file

LEMMA WorldType ==
    ASSUME TypeOK, World
    PROVE  TypeOK'
<1>1. ASSUME NEW p \in Projects, Deploy(p)
      PROVE  TypeOK'
  <2>1. PICK cves \in SUBSET Cves, lifted \in BOOLEAN :
          /\ Fault(~lifted)
          /\ carries' = [carries EXCEPT ![p] = cves]
          /\ quar' = IF lifted THEN quar \ {p} ELSE quar
    BY <1>1 DEF Deploy
  <2>2. faults' \in Nat /\ changes' \in Nat
    BY <2>1, <1>1, FaultType, ChangeType DEF TypeOK, Deploy
  <2>3. QED
    BY <2>1, <2>2, <1>1 DEF TypeOK, Deploy, file
<1>2. ASSUME NEW p \in Projects, SecurityResume(p)
      PROVE  TypeOK'
  BY <1>2 DEF TypeOK, SecurityResume, fleet, file
<1>3. ASSUME NEW c \in Cves, Publish(c)
      PROVE  TypeOK'
  <2>1. PICK ps \in SUBSET Projects :
          carries' = [p \in Projects |-> IF p \in ps THEN carries[p] \cup {c} ELSE carries[p]]
    BY <1>3 DEF Publish
  <2>2. carries' \in [Projects -> SUBSET Cves]
    BY <2>1 DEF TypeOK
  <2>3. QED
    BY <2>2, <1>3, ChangeType DEF TypeOK, Publish, file
<1>4. ASSUME NEW c \in Cves, Suppress(c)
      PROVE  TypeOK'
  <2>1. PICK ps \in SUBSET Projects :
          suppressed' = [p \in Projects |-> IF p \in ps THEN suppressed[p] \cup {c}
                                            ELSE suppressed[p]]
    BY <1>4 DEF Suppress
  <2>2. suppressed' \in [Projects -> SUBSET Cves]
    BY <2>1 DEF TypeOK
  <2>3. QED
    BY <2>2, <1>4, ChangeType DEF TypeOK, Suppress, file
<1>5. ASSUME NEW c \in Cves, Expire(c)
      PROVE  TypeOK'
  <2>1. suppressed' \in [Projects -> SUBSET Cves]
    BY <1>5 DEF TypeOK, Expire
  <2>2. QED
    BY <2>1, <1>5, ChangeType DEF TypeOK, Expire, file
<1>6. CASE GraceEnds
  BY <1>6 DEF TypeOK, GraceEnds, file
<1>7. QED
  BY <1>1, <1>2, <1>3, <1>4, <1>5, <1>6 DEF World

LEMMA TypeStep == TypeOK /\ [Next]_vars => TypeOK'
<1> SUFFICES ASSUME TypeOK, [Next]_vars
             PROVE  TypeOK'
  OBVIOUS
<1>1. ASSUME NEW j \in Jobs, Start(j, Projects) \/ \E p \in Projects : Start(j, {p})
      PROVE  TypeOK'
  BY <1>1, StartType
<1>2. ASSUME NEW j \in Jobs, ScanStep(j)
      PROVE  TypeOK'
  BY <1>2, ScanProjectType, WeighType, ApplyOneType, AlertHoldType, WriteHeldType,
     ApplyHeldOneType, ApplyHeldDoneType DEF ScanStep
<1>3. ASSUME NEW j \in Jobs, StartApplyHeld(j) \/ SkipProject(j) \/ Kill(j)
      PROVE  TypeOK'
  BY <1>3, StartApplyHeldType, SkipProjectType, KillType
<1>4. CASE World
  BY <1>4, WorldType
<1>5. CASE UNCHANGED vars
  BY <1>5 DEF TypeOK, vars
<1>6. QED
  BY <1>1, <1>2, <1>3, <1>4, <1>5 DEF Next

\* The files and the scans' locals keep their types for every fleet, every
\* set of CVEs and every number of scans side by side (cve/breaker.py,
\* commands/security_actions.py).
THEOREM TypeCorrect == Spec => []TypeOK
  BY TypeInit, TypeStep, PTL DEF Spec

-----------------------------------------------------------------------------
(* The blast radius. *)

LEMMA GoInv ==
    ASSUME job \in [Jobs -> JobStates], ScanInv, NEW j \in Jobs, NEW new, Go(j, new),
           WithinLimit(new), Settled(new)
    PROVE  ScanInv'
  BY DEF ScanInv, Go

\* A scan that has stopped nothing and is about to stop nothing.
LEMMA HarmlessInv ==
    ASSUME NEW r, r.apply = {}, r.stopped = {}
    PROVE  WithinLimit(r) /\ Settled(r)
<1>1. AtStake(r) = {}
  BY DEF AtStake
<1>2. QED
  BY <1>1, NoneBelow DEF WithinLimit, Settled

LEMMA IdleInv == WithinLimit(Idle) /\ Settled(Idle)
  BY HarmlessInv DEF Idle

\* A scan that goes on with no more at stake.
LEMMA LessAtStake ==
    ASSUME NEW r \in JobStates, NEW s \in JobStates, WithinLimit(r),
           s.stopped \cup s.apply \subseteq r.stopped \cup r.apply,
           s.scans = r.scans, s.listed = r.listed
    PROVE  WithinLimit(s)
<1>1. AtStake(s) \in SUBSET AtStake(r) /\ AtStake(r) \in SUBSET Projects
  BY DEF AtStake, JobStates
<1>2. Below(AtStake(s), r)
  BY <1>1, BelowSubset DEF WithinLimit
<1>3. QED
  BY <1>2 DEF Below, Limit, WithinLimit

LEMMA StartInv ==
    ASSUME TypeOK, ScanInv, NEW j \in Jobs, NEW targets, Start(j, targets)
    PROVE  ScanInv'
<1> DEFINE new == [Idle EXCEPT !.pc = "scan", !.todo = targets, !.listed = kev',
                               !.inGrace = grace # "over"]
<1>1. new.apply = {} /\ new.stopped = {}
  BY DEF Idle
<1>2. Go(j, new)
  BY DEF Start
<1>3. WithinLimit(new) /\ Settled(new)
  <2> HIDE DEF new
  <2>1. QED
    BY <1>1, HarmlessInv
<1>4. QED
  BY <1>2, <1>3, GoInv DEF TypeOK

\* Until the candidates are weighed a scan's steps are harmless.
LEMMA ScanningInv ==
    ASSUME TypeOK, ScanInv, NEW j \in Jobs, ScanProject(j) \/ SkipProject(j)
    PROVE  ScanInv'
<1>1. job[j] \in JobStates /\ job[j].pc = "scan"
  BY DEF TypeOK, ScanProject, SkipProject, At
<1>2. job[j].apply = {} /\ job[j].stopped = {}
  BY <1>1 DEF ScanInv, Settled
<1>3. ASSUME NEW todo, NEW scans,
             Go(j, [job[j] EXCEPT !.todo = todo, !.scans = scans])
      PROVE  ScanInv'
  <2> DEFINE new == [job[j] EXCEPT !.todo = todo, !.scans = scans]
  <2>1. new.apply = {} /\ new.stopped = {}
    BY <1>1, <1>2 DEF JobStates
  <2>2. Go(j, new)
    BY <1>3
  <2>3. WithinLimit(new) /\ Settled(new)
    <3> HIDE DEF new
    <3>1. QED
      BY <2>1, HarmlessInv
  <2>4. QED
    BY <2>2, <2>3, GoInv DEF TypeOK
<1>4. CASE ScanProject(j)
  <2> DEFINE p == First(job[j].todo)
  <2>1. PICK found : Go(j, [job[j] EXCEPT !.todo = @ \ {p},
                                          !.scans[p] = [seen |-> TRUE, cves |-> found]])
    BY <1>4 DEF ScanProject
  <2> DEFINE todo == job[j].todo \ {p}
             scans == [job[j].scans EXCEPT ![p] = [seen |-> TRUE, cves |-> found]]
  <2>2. Go(j, [job[j] EXCEPT !.todo = todo, !.scans = scans])
    BY <2>1
  <2> HIDE DEF p, todo, scans
  <2>3. QED
    BY <2>2, <1>3
<1>5. CASE SkipProject(j)
  <2> DEFINE todo == job[j].todo \ {First(job[j].todo)}
             scans == job[j].scans
  <2>1. [job[j] EXCEPT !.todo = @ \ {First(@)}] = [job[j] EXCEPT !.todo = todo, !.scans = scans]
    BY <1>1 DEF JobStates
  <2>2. Go(j, [job[j] EXCEPT !.todo = todo, !.scans = scans])
    BY <2>1, <1>5 DEF SkipProject
  <2> HIDE DEF todo, scans
  <2>3. QED
    BY <2>2, <1>3
<1>6. QED
  BY <1>4, <1>5

\* The verdict: either the run trips and only KEV findings are acted on, or
\* what is fresh stays below the threshold, by count and for every CVE.
LEMMA VerdictBelow ==
    ASSUME NEW cands, NEW listed, NEW already, NEW n \in Nat
    PROVE  LET v == Decide(cands, listed, already, n)
               atStake == {p \in v.apply : ~IsKev(cands[p], listed)}
           IN \/ atStake = {}
              \/ /\ Cardinality(atStake) < TripThreshold(n)
                 /\ \A c \in Cves : Cardinality({p \in atStake : c \in cands[p]}) < TripThreshold(n)
<1> DEFINE fresh == Fresh(cands, listed, already)
           v == Decide(cands, listed, already, n)
           atStake == {p \in v.apply : ~IsKev(cands[p], listed)}
<1>1. \A p \in Kevs(cands, listed) : IsKev(cands[p], listed)
  BY DEF Kevs
<1>2. \A p \in fresh : ~IsKev(cands[p], listed)
  BY DEF Fresh
<1>3. CASE Tripped(fresh, cands, n) \/ fresh = {}
  <2>1. v.apply = Kevs(cands, listed)
    BY <1>3 DEF Decide
  <2>2. QED
    BY <1>1, <2>1
<1>4. CASE ~Tripped(fresh, cands, n) /\ fresh # {}
  <2>1. v.apply = Kevs(cands, listed) \cup fresh
    BY <1>4 DEF Decide
  <2>2. atStake = fresh
    <3> HIDE DEF fresh, v
    <3>1. QED
      BY <1>1, <1>2, <2>1
  <2>3. /\ ~(Cardinality(fresh) >= TripThreshold(n))
        /\ \A c \in Cves : ~(Cardinality(Carrying(fresh, cands, c)) >= TripThreshold(n))
    BY <1>4 DEF Tripped
  <2>4. /\ Cardinality(atStake) < TripThreshold(n)
        /\ \A c \in Cves : Cardinality({p \in atStake : c \in cands[p]}) < TripThreshold(n)
    <3>1. fresh \in SUBSET Projects /\ \A c \in Cves : Carrying(fresh, cands, c) \in SUBSET Projects
      BY DEF Fresh, Carrying
    <3> HIDE DEF fresh, atStake
    <3>2. TripThreshold(n) \in Nat
      BY ThresholdType
    <3>3. Cardinality(fresh) \in Nat /\ \A c \in Cves : Cardinality(Carrying(fresh, cands, c)) \in Nat
      BY <3>1, ProjectsFinite
    <3>4. /\ Cardinality(fresh) < TripThreshold(n)
          /\ \A c \in Cves : Cardinality(Carrying(fresh, cands, c)) < TripThreshold(n)
      BY <2>3, <3>2, <3>3
    <3>5. QED
      BY <2>2, <3>4 DEF Carrying
  <2>5. QED
    BY <2>4
<1>5. QED
  BY <1>3, <1>4

LEMMA WeighInv ==
    ASSUME TypeOK, ScanInv, NEW j \in Jobs, Weigh(j)
    PROVE  ScanInv'
<1> DEFINE r == job[j]
           n == Cardinality(Scanned(j))
           cands == Candidates(j)
           v == Decide(cands, r.listed, held, n)
           new == [r EXCEPT !.pc = "apply", !.apply = v.apply,
                            !.next = NextHeld(j, v), !.newly = v.newly, !.pending = pending]
           atStake == {p \in v.apply : ~IsKev(cands[p], r.listed)}
<1>1. Go(j, IF r.inGrace THEN Idle ELSE new)
  BY DEF Weigh
<1>2. r \in JobStates /\ r.stopped = {}
  BY DEF TypeOK, ScanInv, Settled, Weigh, At
<1>3. /\ new.apply = v.apply /\ new.stopped = {} /\ new.pc = "apply"
      /\ new.scans = r.scans /\ new.listed = r.listed
  <2> HIDE DEF v
  <2>1. QED
    BY <1>2 DEF JobStates
<1>4. \A p \in v.apply : p \in Projects /\ cands[p] = r.scans[p].cves
  <2>1. \A p \in v.apply : p \in Projects /\ cands[p] # {}
    BY DEF Decide, Kevs, Fresh
  <2> HIDE DEF v
  <2>2. QED
    BY <2>1 DEF Candidates
<1>5. AtStake(new) = atStake
  <2> HIDE DEF new, v, cands
  <2>1. QED
    BY <1>3, <1>4 DEF AtStake
<1>6. n \in Nat /\ Limit(new) = TripThreshold(n)
  <2> HIDE DEF new
  <2>1. n \in Nat
    BY ProjectsFinite DEF Scanned
  <2>2. QED
    BY <2>1, <1>3 DEF Limit, Scanned
<1>7. WithinLimit(new)
  <2>1. CASE atStake = {}
    <3> HIDE DEF new, atStake
    <3>1. QED
      BY <2>1, <1>5, NoneBelow DEF WithinLimit
  <2>2. CASE /\ Cardinality(atStake) < TripThreshold(n)
             /\ \A c \in Cves : Cardinality({p \in atStake : c \in cands[p]}) < TripThreshold(n)
    <3>1. ASSUME NEW c \in Cves
          PROVE  {p \in atStake : c \in cands[p]} = {p \in atStake : c \in r.scans[p].cves}
      <4> HIDE DEF v, cands
      <4>1. QED
        BY <1>4
    <3> HIDE DEF new, atStake, v, cands, n
    <3>2. QED
      BY <2>2, <3>1, <1>3, <1>5, <1>6 DEF WithinLimit, Below
  <2>3. QED
    <3> HIDE DEF n
    <3>1. QED
      BY <2>1, <2>2, <1>6, VerdictBelow
<1>8. Settled(new)
  <2> HIDE DEF new
  <2>1. QED
    BY <1>3 DEF Settled
<1>9. QED
  <2> HIDE DEF new
  <2>1. CASE r.inGrace
    BY <2>1, <1>1, IdleInv, GoInv DEF TypeOK
  <2>2. CASE ~r.inGrace
    BY <2>2, <1>1, <1>7, <1>8, GoInv DEF TypeOK
  <2>3. QED
    BY <2>1, <2>2

LEMMA ApplyOneInv ==
    ASSUME TypeOK, TypeOK', ScanInv, NEW j \in Jobs, ApplyOne(j)
    PROVE  ScanInv'
<1> DEFINE r == job[j]
           p == First(r.apply)
<1>1. r \in JobStates /\ r.apply \in SUBSET Projects /\ r.apply # {} /\ r.pc = "apply"
  BY DEF TypeOK, JobStates, ApplyOne, At
<1>2. p \in r.apply
  BY <1>1, FirstIsOne
<1>3. PICK done \in BOOLEAN :
        Go(j, [r EXCEPT !.apply = @ \ {p},
                        !.stopped = IF done /\ p \notin quar /\ ~IsKev(r.scans[p].cves, r.listed)
                                    THEN @ \cup {p} ELSE @])
  BY DEF ApplyOne
<1> DEFINE new == job'[j]
<1> HIDE DEF p
<1>4. /\ new.apply = r.apply \ {p}
      /\ new.stopped \subseteq r.stopped \cup {p}
      /\ p \in new.stopped => p \in r.stopped \/ ~IsKev(r.scans[p].cves, r.listed)
      /\ new.scans = r.scans /\ new.listed = r.listed /\ new.pc = r.pc
  BY <1>1, <1>3 DEF Go, TypeOK, JobStates
<1>5. new \in JobStates
  BY DEF TypeOK
<1>6. WithinLimit(r) /\ Settled(r)
  BY DEF ScanInv
<1>7. Go(j, new)
  BY <1>3 DEF Go, TypeOK
<1> HIDE DEF r, new
<1>8. WithinLimit(new)
  BY <1>1, <1>2, <1>4, <1>5, <1>6, LessAtStake
<1>9. Settled(new)
  BY <1>1, <1>4, <1>6 DEF Settled
<1>10. QED
  BY <1>7, <1>8, <1>9, GoInv DEF TypeOK

LEMMA AlertHoldInv ==
    ASSUME TypeOK, TypeOK', ScanInv, NEW j \in Jobs, AlertHold(j)
    PROVE  ScanInv'
<1> DEFINE r == job[j]
           new == job'[j]
<1>1. r \in JobStates /\ new \in JobStates
  BY DEF TypeOK
<1>2. PICK pend : Go(j, [r EXCEPT !.pc = "write", !.pending = pend])
  BY DEF AlertHold
<1>3. /\ new.apply = r.apply /\ new.stopped = r.stopped /\ new.pc = "write"
      /\ new.scans = r.scans /\ new.listed = r.listed
  BY <1>1, <1>2 DEF Go, TypeOK, JobStates
<1>4. WithinLimit(r) /\ Settled(r)
  BY DEF ScanInv
<1>5. Go(j, new)
  BY <1>2 DEF Go, TypeOK
<1> HIDE DEF r, new
<1>6. WithinLimit(new)
  BY <1>1, <1>3, <1>4, LessAtStake
<1>7. Settled(new)
  BY <1>3, <1>4 DEF Settled
<1>8. QED
  BY <1>5, <1>6, <1>7, GoInv DEF TypeOK

\* --apply-held is the operator's answer: the breaker does not count it.
LEMMA HeldInv ==
    ASSUME TypeOK, TypeOK', ScanInv, NEW j \in Jobs, StartApplyHeld(j) \/ ApplyHeldOne(j)
    PROVE  ScanInv'
<1> DEFINE new == job'[j]
<1>1. CASE StartApplyHeld(j)
  <2>1. new.apply = {} /\ new.stopped = {}
    BY <1>1 DEF StartApplyHeld, Go, Idle, TypeOK
  <2>2. Go(j, new)
    BY <1>1 DEF StartApplyHeld, Go, TypeOK
  <2>3. QED
    BY <2>1, <2>2, HarmlessInv, GoInv DEF TypeOK
<1>2. CASE ApplyHeldOne(j)
  <2>1. job[j].apply = {} /\ job[j].stopped = {}
    BY <1>2 DEF ApplyHeldOne, At, ScanInv, Settled
  <2>2. PICK todo, next : Go(j, [job[j] EXCEPT !.todo = todo, !.next = next])
    BY <1>2 DEF ApplyHeldOne
  <2>3. new.apply = {} /\ new.stopped = {} /\ Go(j, new)
    BY <2>1, <2>2 DEF Go, TypeOK, JobStates
  <2>4. QED
    BY <2>3, HarmlessInv, GoInv DEF TypeOK
<1>3. QED
  BY <1>1, <1>2

LEMMA DoneInv ==
    ASSUME TypeOK, ScanInv, NEW j \in Jobs, WriteHeld(j) \/ ApplyHeldDone(j) \/ Kill(j)
    PROVE  ScanInv'
  BY IdleInv, GoInv DEF TypeOK, WriteHeld, ApplyHeldDone, Kill

LEMMA ScanInvInit == Init => ScanInv
  BY IdleInv DEF Init, ScanInv

LEMMA ScanInvStep == TypeOK /\ TypeOK' /\ ScanInv /\ [Next]_vars => ScanInv'
<1> SUFFICES ASSUME TypeOK, TypeOK', ScanInv, [Next]_vars
             PROVE  ScanInv'
  OBVIOUS
<1>1. ASSUME NEW j \in Jobs, Start(j, Projects) \/ \E p \in Projects : Start(j, {p})
      PROVE  ScanInv'
  BY <1>1, StartInv
<1>2. ASSUME NEW j \in Jobs, ScanStep(j)
      PROVE  ScanInv'
  BY <1>2, ScanningInv, WeighInv, ApplyOneInv, AlertHoldInv, HeldInv, DoneInv DEF ScanStep
<1>3. ASSUME NEW j \in Jobs, StartApplyHeld(j) \/ SkipProject(j) \/ Kill(j)
      PROVE  ScanInv'
  BY <1>3, HeldInv, ScanningInv, DoneInv
<1>4. CASE World \/ UNCHANGED vars
  <2>1. UNCHANGED job
    BY <1>4 DEF World, Deploy, SecurityResume, Publish, Suppress, Expire, GraceEnds, vars
  <2>2. QED
    BY <2>1 DEF ScanInv
<1>5. QED
  BY <1>1, <1>2, <1>3, <1>4 DEF Next

\* What it stopped is part of what was at stake.
LEMMA ScanInvBounds == TypeOK /\ ScanInv => BlastRadius
<1> SUFFICES ASSUME TypeOK, ScanInv, NEW j \in Jobs
             PROVE  Below(job[j].stopped, job[j])
  BY DEF BlastRadius, Below, Limit, Scanned
<1> DEFINE r == job[j]
<1>1. r \in JobStates /\ WithinLimit(r) /\ Settled(r)
  BY DEF TypeOK, ScanInv
<1> HIDE DEF r
<1>2. AtStake(r) \in SUBSET Projects /\ r.stopped \in SUBSET AtStake(r)
  BY <1>1 DEF AtStake, Settled, JobStates
<1>3. Below(r.stopped, r)
  BY <1>1, <1>2, BelowSubset DEF WithinLimit
<1>4. QED
  BY <1>3 DEF r

\* However many projects are scanned, however many scans run at once,
\* whatever fails or is killed: a scan stops fewer projects without a KEV
\* finding than the breaker's threshold, in all and for every single CVE
\* (cve/breaker.py: decide; security_fleet_enforce.py applies only what it
\* let through).
THEOREM BlastRadiusHolds == Spec => []BlastRadius
<1>1. Init => TypeOK /\ ScanInv
  BY TypeInit, ScanInvInit
<1>2. TypeOK /\ ScanInv /\ [Next]_vars => TypeOK' /\ ScanInv'
  BY TypeStep, ScanInvStep
<1>3. TypeOK /\ ScanInv => BlastRadius
  BY ScanInvBounds
<1>4. QED
  BY <1>1, <1>2, <1>3, PTL DEF Spec
-----------------------------------------------------------------------------
(* What is held stays held.                                                *)

\* What a scan knows of the holds it may lift: of a project it has scanned, that
\* it found nothing but what is held, or that nothing is; of one it will stop or
\* drop from the held set, that nothing is held.
Sound(r, holds) ==
    /\ r.pc = "scan" =>
         \A p \in Projects :
           IF r.scans[p].seen
             THEN holds[p] # {} => /\ r.scans[p].cves # {} /\ r.scans[p].cves \subseteq holds[p]
                                   /\ ~IsKev(r.scans[p].cves, r.listed)
             ELSE r.scans[p].cves = {}
    /\ r.pc = "apply" => \A p \in r.apply : r.scans[p].cves # {} /\ holds[p] = {}
    /\ r.pc \in {"apply", "write"} => \A p \in Projects : r.next[p] = {} => holds[p] = {}
    /\ r.pc = "held" => \A p \in Projects : holds[p] \subseteq r.next[p]

OneScan == \A i, k \in Jobs : ~At(i, "idle") /\ ~At(k, "idle") => i = k

\* What a hold protects is in the breaker's file, and of no project that is
\* quarantined.
OnFile ==
    /\ \A p \in Projects : onHold[p] \subseteq held[p]
    /\ \A p \in quar : onHold[p] = {}

\* The inductive invariant behind HoldStands.
HoldInv == OneScan /\ OnFile /\ \A j \in Jobs : Sound(job[j], onHold)

LEMMA IdleSound == ASSUME NEW holds PROVE Sound(Idle, holds)
  BY DEF Sound, Idle

\* With the holds as they were, but for those a step has lifted.
LEMMA LiftedSound ==
    ASSUME NEW r, NEW holds, NEW lifted, Sound(r, holds),
           \A p \in Projects : lifted[p] = holds[p] \/ lifted[p] = {},
           r.apply \subseteq Projects
    PROVE  Sound(r, lifted)
  BY DEF Sound

\* A scan's step leaves the others idle.
LEMMA OneGoes ==
    ASSUME TypeOK, HoldInv, NEW j \in Jobs, NEW new \in JobStates, Go(j, new),
           ~At(j, "idle") \/ \A i \in Jobs : At(i, "idle"),
           OnFile', Sound(new, onHold')
    PROVE  HoldInv'
<1>1. /\ job' \in [Jobs -> JobStates] /\ job'[j] = new
      /\ \A i \in Jobs \ {j} : job'[i] = job[i] /\ job[i].pc = "idle"
  BY DEF TypeOK, Go, HoldInv, OneScan, At
<1>2. OneScan'
  BY <1>1 DEF OneScan, At
<1>3. ASSUME NEW i \in Jobs PROVE Sound(job'[i], onHold')
  <2>1. CASE i = j
    BY <1>1, <2>1
  <2>2. CASE i # j
    BY <1>1, <2>2 DEF Sound
  <2>3. QED
    BY <2>1, <2>2
<1>4. QED
  BY <1>2, <1>3 DEF HoldInv

\* A step that leaves the scans alone.
LEMMA NoneGoes ==
    ASSUME HoldInv, UNCHANGED <<job, onHold>>, OnFile'
    PROVE  HoldInv'
  BY DEF HoldInv, OneScan, At, Sound

LEMMA StartHold ==
    ASSUME TypeOK, ~Overlap, HoldInv, NEW j \in Jobs, NEW targets \in SUBSET Projects,
           Start(j, targets)
    PROVE  HoldInv'
<1> DEFINE new == [Idle EXCEPT !.pc = "scan", !.todo = targets, !.listed = kev',
                               !.inGrace = grace # "over"]
<1>1. Go(j, new) /\ \A i \in Jobs : At(i, "idle")
  BY DEF Start, MayStart
<1>2. new \in JobStates
  <2>1. kev' \subseteq Cves
    BY DEF Start, TypeOK
  <2>2. QED
    BY <2>1, IdleType DEF JobStates
<1>3. new.pc = "scan" /\ \A p \in Projects : new.scans[p] = Unscanned
  BY DEF Idle
<1> HIDE DEF new
<1>4. Sound(new, onHold')
  BY <1>3 DEF Sound, Unscanned
<1>5. OnFile'
  BY DEF Start, OnFile, HoldInv
<1>6. QED
  BY <1>1, <1>2, <1>4, <1>5, OneGoes

LEMMA ScanProjectHold ==
    ASSUME TypeOK, ~Incomplete, HoldInv, NEW j \in Jobs, ScanProject(j)
    PROVE  HoldInv'
<1> DEFINE r == job[j]
           p == First(r.todo)
           all == QuarantineLevel(p, carries[p], r.listed)
           new == [r EXCEPT !.todo = @ \ {p}, !.scans[p] = [seen |-> TRUE, cves |-> all]]
<1>1. /\ r \in JobStates /\ r.todo \in SUBSET Projects /\ r.todo # {} /\ r.pc = "scan"
      /\ ~At(j, "idle")
  BY DEF TypeOK, JobStates, ScanProject, At
<1>2. p \in Projects
  BY <1>1, FirstIsOne
<1>3. /\ Go(j, new)
      /\ onHold' = IF OnlyOnHold(p, all, r.listed) THEN onHold ELSE [onHold EXCEPT ![p] = {}]
      /\ UNCHANGED <<quar, held>>
  BY DEF ScanProject
<1>4. all \in SUBSET Cves
  BY <1>2 DEF QuarantineLevel, TypeOK
<1> HIDE DEF p, all
<1>5. /\ new \in JobStates /\ new.pc = "scan" /\ new.listed = r.listed
      /\ new.scans[p] = [seen |-> TRUE, cves |-> all]
      /\ \A q \in Projects \ {p} : new.scans[q] = r.scans[q]
  <2>1. [seen |-> TRUE, cves |-> all] \in Scans
    BY <1>4 DEF Scans
  <2>2. QED
    BY <1>1, <1>2, <2>1 DEF JobStates
<1> HIDE DEF new
<1>6. /\ \A q \in Projects \ {p} : onHold'[q] = onHold[q]
      /\ onHold'[p] # {} => onHold'[p] = onHold[p] /\ OnlyOnHold(p, all, r.listed)
  BY <1>2, <1>3 DEF TypeOK
<1>7. Sound(new, onHold')
  <2>1. Sound(r, onHold)
    BY DEF HoldInv
  <2>2. ASSUME NEW q \in Projects
        PROVE  IF new.scans[q].seen
               THEN onHold'[q] # {} => /\ new.scans[q].cves # {} /\ new.scans[q].cves \subseteq onHold'[q]
                                       /\ ~IsKev(new.scans[q].cves, new.listed)
               ELSE new.scans[q].cves = {}
    <3>1. CASE q = p
      BY <1>5, <1>6, <3>1 DEF OnlyOnHold
    <3>2. CASE q # p
      BY <1>1, <1>5, <1>6, <2>1, <3>2 DEF Sound
    <3>3. QED
      BY <3>1, <3>2
  <2>3. QED
    BY <1>5, <2>2 DEF Sound
<1>8. OnFile'
  <2>1. quar \subseteq Projects
    BY DEF TypeOK
  <2>2. QED
    BY <1>3, <1>6, <2>1 DEF OnFile, HoldInv
<1>9. QED
  BY <1>1, <1>3, <1>5, <1>7, <1>8, OneGoes

LEMMA SkipProjectHold ==
    ASSUME TypeOK, HoldInv, NEW j \in Jobs, SkipProject(j)
    PROVE  HoldInv'
<1> DEFINE r == job[j]
           rest == r.todo \ {First(r.todo)}
           new == [r EXCEPT !.todo = rest]
<1>1. r \in JobStates /\ r.pc = "scan" /\ ~At(j, "idle") /\ rest \subseteq Projects
  BY DEF TypeOK, JobStates, SkipProject, At
<1>2. Go(j, new) /\ UNCHANGED <<quar, held, onHold>>
  BY DEF SkipProject, file
<1> HIDE DEF rest
<1>3. /\ new \in JobStates /\ new.pc = r.pc /\ new.scans = r.scans /\ new.listed = r.listed
  BY <1>1 DEF JobStates
<1> HIDE DEF new
<1>4. Sound(new, onHold')
  BY <1>1, <1>2, <1>3 DEF Sound, HoldInv
<1>5. OnFile'
  BY <1>2 DEF OnFile, HoldInv
<1>6. QED
  BY <1>1, <1>2, <1>3, <1>4, <1>5, OneGoes

\* breaker.py's decide: what it lets be stopped without a KEV finding is not all
\* held, and what it drops from the held set it lets be stopped.
LEMMA Verdict ==
    ASSUME NEW cands, NEW listed, NEW already, NEW n, NEW p \in Projects, cands[p] # {}
    PROVE  LET v == Decide(cands, listed, already, n)
           IN p \notin v.held \/ p \in v.apply
              => \/ IsKev(cands[p], listed)
                 \/ ~(cands[p] \subseteq already[p])
<1>1. already[p] \subseteq AllHeld(already)
  BY DEF AllHeld
<1>2. p \in StillHeld(cands, listed, already) \/ p \in Fresh(cands, listed, already)
      \/ IsKev(cands[p], listed)
  BY DEF StillHeld, Fresh
<1>3. p \in Fresh(cands, listed, already) => ~(cands[p] \subseteq already[p])
  BY <1>1 DEF Fresh
<1>4. /\ p \in StillHeld(cands, listed, already)
         => p \notin Fresh(cands, listed, already) /\ p \notin Kevs(cands, listed)
  BY DEF StillHeld, Fresh, Kevs
<1>5. QED
  BY <1>2, <1>3, <1>4 DEF Decide

LEMMA WeighHold ==
    ASSUME TypeOK, HoldInv, NEW j \in Jobs, Weigh(j)
    PROVE  HoldInv'
<1> DEFINE r == job[j]
           cands == Candidates(j)
           v == Decide(cands, r.listed, held, Cardinality(Scanned(j)))
           new == [r EXCEPT !.pc = "apply", !.apply = v.apply, !.next = NextHeld(j, v),
                            !.newly = v.newly, !.pending = pending]
<1>1. Go(j, IF r.inGrace THEN Idle ELSE new) /\ UNCHANGED <<quar, held, onHold>>
  BY DEF Weigh, file
<1>2. r \in JobStates /\ r.pc = "scan" /\ ~At(j, "idle")
  BY DEF TypeOK, Weigh, At
<1>3. v.apply \subseteq Projects /\ v.held \subseteq Projects /\ v.newly \subseteq Projects
  BY DecideType
<1>4. NextHeld(j, v) \in [Projects -> SUBSET Cves]
  <2> HIDE DEF v
  <2>1. QED
    BY <1>2 DEF NextHeld, TypeOK, JobStates, Scans
<1>5. \A p \in Projects : cands[p] = IF p \in quar THEN {} ELSE r.scans[p].cves
  BY DEF Candidates
<1>6. \A p \in v.apply \cup v.held : cands[p] # {}
  BY DEF Decide, Kevs, Fresh, StillHeld
<1>7. \A p \in Projects : cands[p] # {} /\ (p \notin v.held \/ p \in v.apply)
        => IsKev(cands[p], r.listed) \/ ~(cands[p] \subseteq held[p])
  <2> HIDE DEF cands
  <2>1. QED
    BY Verdict
<1>8. \A p \in Projects : NextHeld(j, v)[p] = IF p \in v.held THEN r.scans[p].cves
                                             ELSE IF r.scans[p].seen THEN {} ELSE held[p]
  <2> HIDE DEF v
  <2>1. QED
    BY DEF NextHeld
<1> HIDE DEF v, cands
<1>9. /\ new \in JobStates /\ new.pc = "apply" /\ new.apply = v.apply
      /\ new.scans = r.scans /\ new.next = NextHeld(j, v)
  BY <1>2, <1>3, <1>4 DEF JobStates, TypeOK
<1> HIDE DEF new
<1>10. /\ Sound(r, onHold) /\ \A p \in quar : onHold[p] = {}
       /\ \A p \in Projects : onHold[p] \subseteq held[p]
  BY DEF HoldInv, OnFile
\* A candidate that is dropped or stopped protected nothing any more.
<1>11. ASSUME NEW p \in Projects, p \notin v.held \/ p \in v.apply, r.scans[p].seen \/ p \in v.apply
       PROVE  onHold[p] = {}
  <2>1. CASE p \in quar
    BY <1>10, <2>1
  <2>2. CASE p \notin quar /\ cands[p] = {}
    BY <1>2, <1>5, <1>6, <1>10, <1>11, <2>2 DEF Sound
  <2>3. CASE p \notin quar /\ cands[p] # {}
    <3>1. IsKev(r.scans[p].cves, r.listed) \/ ~(r.scans[p].cves \subseteq onHold[p])
      BY <1>5, <1>7, <1>10, <1>11, <2>3
    <3>2. r.scans[p].seen
      BY <1>2, <1>5, <1>10, <2>3 DEF Sound
    <3>3. QED
      BY <1>2, <1>10, <3>1, <3>2 DEF Sound
  <2>4. QED
    BY <2>1, <2>2, <2>3
<1>12. ASSUME NEW p \in v.apply PROVE new.scans[p].cves # {} /\ onHold[p] = {}
  <2>1. cands[p] # {} /\ p \in Projects
    BY <1>3, <1>6
  <2>2. QED
    BY <1>5, <1>9, <1>11, <2>1
<1>13. ASSUME NEW p \in Projects, new.next[p] = {} PROVE onHold[p] = {}
  <2>1. CASE p \in v.held
    <3>1. r.scans[p].cves = {}
      BY <1>8, <1>9, <1>13, <2>1
    <3>2. QED
      BY <1>5, <1>6, <2>1, <3>1
  <2>2. CASE p \notin v.held /\ r.scans[p].seen
    BY <1>11, <2>2
  <2>3. CASE p \notin v.held /\ ~r.scans[p].seen
    BY <1>8, <1>9, <1>10, <1>13, <2>3
  <2>4. QED
    BY <2>1, <2>2, <2>3
<1>14. Sound(new, onHold')
  BY <1>1, <1>9, <1>12, <1>13 DEF Sound
<1>15. OnFile'
  BY <1>1 DEF OnFile, HoldInv
<1>16. QED
  <2>1. (IF r.inGrace THEN Idle ELSE new) \in JobStates
        /\ Sound(IF r.inGrace THEN Idle ELSE new, onHold')
    BY <1>9, <1>14, IdleType, IdleSound
  <2>2. QED
    BY <1>1, <1>2, <1>15, <2>1, OneGoes

\* A project is stopped, quarantined already or not: nothing holds it any more.
LEMMA ApplyOneHold ==
    ASSUME TypeOK, HoldInv, NEW j \in Jobs, ApplyOne(j)
    PROVE  HoldInv'
<1> DEFINE r == job[j]
           p == First(r.apply)
<1>1. /\ r \in JobStates /\ r.apply \in SUBSET Projects /\ r.apply # {} /\ r.pc = "apply"
      /\ ~At(j, "idle")
  BY DEF TypeOK, JobStates, ApplyOne, At
<1>2. p \in r.apply
  BY <1>1, FirstIsOne
<1>3. PICK done \in BOOLEAN :
        /\ quar' = IF done THEN quar \cup {p} ELSE quar
        /\ onHold' = IF done THEN [onHold EXCEPT ![p] = {}] ELSE onHold
        /\ Go(j, [r EXCEPT !.apply = @ \ {p},
                           !.stopped = IF done /\ p \notin quar /\ ~IsKev(r.scans[p].cves, r.listed)
                                       THEN @ \cup {p} ELSE @])
        /\ UNCHANGED held
  BY DEF ApplyOne
<1> HIDE DEF p
<1> DEFINE stopped == IF done /\ p \notin quar /\ ~IsKev(r.scans[p].cves, r.listed)
                      THEN r.stopped \cup {p} ELSE r.stopped
           new == [r EXCEPT !.apply = @ \ {p}, !.stopped = stopped]
<1>4. Go(j, new)
  BY <1>3
<1>5. stopped \subseteq Projects
  BY <1>1, <1>2 DEF JobStates
<1> HIDE DEF stopped
<1>6. /\ new \in JobStates /\ new.pc = "apply" /\ new.apply = r.apply \ {p}
      /\ new.scans = r.scans /\ new.next = r.next
  BY <1>1, <1>5 DEF JobStates
<1> HIDE DEF new
<1>7. \A q \in Projects : onHold'[q] = onHold[q] \/ onHold'[q] = {}
  BY <1>3 DEF TypeOK
<1>8. Sound(new, onHold')
  <2>1. Sound(new, onHold)
    BY <1>1, <1>6 DEF Sound, HoldInv
  <2>2. QED
    BY <1>1, <1>6, <1>7, <2>1, LiftedSound
<1>9. OnFile'
  <2>1. \A q \in Projects : onHold'[q] \subseteq held'[q]
    BY <1>3, <1>7 DEF OnFile, HoldInv
  <2>2. onHold[p] = {} /\ p \in Projects
    BY <1>1, <1>2 DEF HoldInv, Sound
  <2>3. ASSUME NEW q \in quar' PROVE onHold'[q] = {}
    <3>1. CASE q \in quar
      BY <1>7, <3>1 DEF TypeOK, OnFile, HoldInv
    <3>2. CASE q = p
      BY <1>7, <2>2, <3>2
    <3>3. QED
      BY <1>3, <3>1, <3>2
  <2>4. QED
    BY <2>1, <2>3 DEF OnFile
<1>10. QED
  BY <1>1, <1>4, <1>6, <1>8, <1>9, OneGoes

LEMMA AlertHoldHold ==
    ASSUME TypeOK, HoldInv, NEW j \in Jobs, AlertHold(j)
    PROVE  HoldInv'
<1> DEFINE r == job[j]
           new == job'[j]
<1>1. r \in JobStates /\ r.pc = "apply" /\ ~At(j, "idle")
  BY DEF TypeOK, AlertHold, At
<1>2. PICK late : Go(j, [r EXCEPT !.pc = "write", !.pending = late])
  BY DEF AlertHold
<1>3. new \in JobStates
  <2>1. TypeOK'
    BY AlertHoldType
  <2>2. QED
    BY <2>1 DEF TypeOK
<1>4. new.pc = "write" /\ new.next = r.next /\ Go(j, new)
  BY <1>1, <1>2 DEF Go, TypeOK, JobStates
<1>5. UNCHANGED <<quar, held, onHold>>
  BY DEF AlertHold, file
<1> HIDE DEF new
<1>6. Sound(new, onHold')
  BY <1>1, <1>4, <1>5 DEF Sound, HoldInv
<1>7. OnFile'
  BY <1>5 DEF OnFile, HoldInv
<1>8. QED
  BY <1>1, <1>3, <1>4, <1>6, <1>7, OneGoes

\* The held set is written as it was weighed: what was dropped from it held
\* nothing.
LEMMA WriteHeldHold ==
    ASSUME TypeOK, HoldInv, NEW j \in Jobs, WriteHeld(j)
    PROVE  HoldInv'
<1>1. /\ job[j].pc = "write" /\ ~At(j, "idle") /\ Go(j, Idle)
      /\ held' = job[j].next /\ UNCHANGED quar
      /\ onHold' = [p \in Projects |-> IF p \in quar \/ job[j].next[p] = {} THEN onHold[p]
                                       ELSE job[j].next[p]]
  BY DEF WriteHeld, At
<1>2. \A p \in Projects : job[j].next[p] = {} => onHold[p] = {}
  BY <1>1 DEF HoldInv, Sound
<1>3. OnFile'
  <2>1. \A p \in quar : onHold[p] = {}
    BY DEF HoldInv, OnFile
  <2>2. \A p \in Projects : onHold'[p] \subseteq held'[p]
    BY <1>1, <1>2, <2>1
  <2>3. \A p \in quar : onHold'[p] = {}
    BY <1>1, <2>1 DEF TypeOK
  <2>4. QED
    BY <1>1, <2>2, <2>3 DEF OnFile
<1>4. QED
  BY <1>1, <1>3, IdleType, IdleSound, OneGoes

LEMMA StartApplyHeldHold ==
    ASSUME TypeOK, ~Overlap, HoldInv, NEW j \in Jobs, StartApplyHeld(j)
    PROVE  HoldInv'
<1> DEFINE todo == {p \in Projects : held[p] # {}}
           new == [Idle EXCEPT !.pc = "held", !.todo = todo, !.next = held]
<1>1. /\ Go(j, new) /\ (\A i \in Jobs : At(i, "idle"))
      /\ UNCHANGED <<quar, held, onHold>>
  BY DEF StartApplyHeld, MayStart, file
<1>2. todo \subseteq Projects
  OBVIOUS
<1> HIDE DEF todo
<1>3. new \in JobStates /\ new.pc = "held" /\ new.next = held
  BY <1>2, IdleType DEF JobStates, TypeOK, Idle
<1> HIDE DEF new
<1>4. OnFile' /\ Sound(new, onHold')
  BY <1>1, <1>3 DEF OnFile, Sound, HoldInv
<1>5. QED
  BY <1>1, <1>3, <1>4, OneGoes

\* What the operator's --apply-held lets go, or stops, it no longer holds.
LEMMA ApplyHeldOneHold ==
    ASSUME TypeOK, HoldInv, NEW j \in Jobs, ApplyHeldOne(j)
    PROVE  HoldInv'
<1> DEFINE r == job[j]
           p == First(r.todo)
<1>1. /\ r \in JobStates /\ r.todo \in SUBSET Projects /\ r.todo # {} /\ r.pc = "held"
      /\ ~At(j, "idle")
  BY DEF TypeOK, JobStates, ApplyHeldOne, At
<1>2. p \in Projects
  BY <1>1, FirstIsOne
<1>3. PICK done \in BOOLEAN, failed \in BOOLEAN :
        /\ done \/ failed
        /\ quar' = IF done /\ recorded[p] # {} THEN quar \cup {p} ELSE quar
        /\ Go(j, [r EXCEPT !.todo = @ \ {p}, !.next[p] = IF failed THEN @ ELSE {}])
        /\ onHold' = IF done THEN [onHold EXCEPT ![p] = {}] ELSE onHold
        /\ UNCHANGED held
  BY DEF ApplyHeldOne
<1> HIDE DEF p
<1> DEFINE new == [r EXCEPT !.todo = @ \ {p}, !.next[p] = IF failed THEN @ ELSE {}]
<1>4. /\ new \in JobStates /\ new.pc = "held"
      /\ new.next[p] = IF failed THEN r.next[p] ELSE {}
      /\ \A q \in Projects \ {p} : new.next[q] = r.next[q]
  BY <1>1, <1>2 DEF JobStates
<1>5. Go(j, new)
  BY <1>3
<1> HIDE DEF new
<1>6. /\ \A q \in Projects : onHold'[q] = onHold[q] \/ onHold'[q] = {}
      /\ done => onHold'[p] = {}
  BY <1>2, <1>3 DEF TypeOK
<1>7. \A q \in Projects : onHold[q] \subseteq r.next[q]
  BY <1>1 DEF HoldInv, Sound
<1>8. Sound(new, onHold')
  BY <1>2, <1>3, <1>4, <1>6, <1>7 DEF Sound
<1>9. OnFile'
  <2>1. \A q \in Projects : onHold'[q] \subseteq held'[q]
    BY <1>3, <1>6 DEF OnFile, HoldInv
  <2>2. \A q \in quar : q \in Projects /\ onHold[q] = {}
    BY DEF HoldInv, OnFile, TypeOK
  <2>3. \A q \in quar' : onHold'[q] = {}
    BY <1>3, <1>6, <2>2
  <2>4. QED
    BY <2>1, <2>3 DEF OnFile
<1>10. QED
  BY <1>1, <1>4, <1>5, <1>8, <1>9, OneGoes

LEMMA ApplyHeldDoneHold ==
    ASSUME TypeOK, HoldInv, NEW j \in Jobs, ApplyHeldDone(j)
    PROVE  HoldInv'
<1>1. /\ job[j].pc = "held" /\ ~At(j, "idle") /\ Go(j, Idle)
      /\ held' = job[j].next /\ UNCHANGED <<quar, onHold>>
  BY DEF ApplyHeldDone, At
<1>2. OnFile'
  BY <1>1 DEF OnFile, HoldInv, Sound
<1>3. QED
  BY <1>1, <1>2, IdleType, IdleSound, OneGoes

\* A killed scan leaves the file as the last one wrote it.
LEMMA KillHold ==
    ASSUME TypeOK, HoldInv, NEW j \in Jobs, Kill(j)
    PROVE  HoldInv'
<1>1. ~At(j, "idle") /\ Go(j, Idle) /\ UNCHANGED <<quar, held, onHold>>
  BY DEF Kill, file
<1>2. OnFile'
  BY <1>1 DEF OnFile, HoldInv
<1>3. QED
  BY <1>1, <1>2, IdleType, IdleSound, OneGoes

LEMMA WorldHold ==
    ASSUME HoldInv, World \/ UNCHANGED vars
    PROVE  HoldInv'
<1>1. UNCHANGED <<job, onHold, held>> /\ quar' \subseteq quar
  BY DEF World, Deploy, SecurityResume, Publish, Suppress, Expire, GraceEnds, vars, file
<1>2. OnFile'
  BY <1>1 DEF OnFile, HoldInv
<1>3. QED
  BY <1>1, <1>2, NoneGoes

LEMMA HoldInvInit == Init => HoldInv
<1> SUFFICES ASSUME Init PROVE HoldInv
  OBVIOUS
<1>1. /\ \A j \in Jobs : job[j] = Idle
      /\ quar = {} /\ \A p \in Projects : onHold[p] = {}
  BY DEF Init, NoHold
<1>2. OneScan
  BY <1>1 DEF OneScan, At, Idle
<1>3. OnFile
  BY <1>1 DEF OnFile
<1>4. \A j \in Jobs : Sound(job[j], onHold)
  BY <1>1, IdleSound
<1>5. QED
  BY <1>2, <1>3, <1>4 DEF HoldInv

LEMMA HoldInvStep ==
    ASSUME ~Overlap, ~Incomplete, TypeOK, HoldInv, [Next]_vars
    PROVE  HoldInv'
<1>1. ASSUME NEW j \in Jobs, Start(j, Projects) \/ \E p \in Projects : Start(j, {p})
      PROVE  HoldInv'
  BY <1>1, StartHold
<1>2. ASSUME NEW j \in Jobs, ScanStep(j)
      PROVE  HoldInv'
  BY <1>2, ScanProjectHold, WeighHold, ApplyOneHold, AlertHoldHold, WriteHeldHold,
     ApplyHeldOneHold, ApplyHeldDoneHold DEF ScanStep
<1>3. ASSUME NEW j \in Jobs, StartApplyHeld(j) \/ SkipProject(j) \/ Kill(j)
      PROVE  HoldInv'
  BY <1>3, StartApplyHeldHold, SkipProjectHold, KillHold
<1>4. CASE World \/ UNCHANGED vars
  BY <1>4, WorldHold
<1>5. QED
  BY <1>1, <1>2, <1>3, <1>4 DEF Next

\* Only ApplyOne stops a project.
LEMMA OnlyApplyStops ==
    ASSUME TypeOK, [Next]_vars, NEW j \in Jobs, NEW p \in job'[j].stopped \ job[j].stopped
    PROVE  ApplyOne(j) /\ p \in job[j].apply
<1>1. ASSUME NEW i \in Jobs, NEW new, Go(i, new), new.stopped \subseteq job[i].stopped
      PROVE  FALSE
  BY <1>1 DEF Go, TypeOK
<1>2. \A i \in Jobs : job[i] \in JobStates /\ {} \subseteq job[i].stopped
  BY DEF TypeOK
<1>3. \A i \in Jobs : ~Go(i, Idle)
  <2>1. Idle.stopped = {}
    BY DEF Idle
  <2>2. QED
    BY <1>1, <2>1
<1>4. \A i \in Jobs, targets \in SUBSET Projects : ~Start(i, targets)
  <2>1. ASSUME NEW i \in Jobs, NEW targets, Start(i, targets) PROVE FALSE
    <3> DEFINE new == [Idle EXCEPT !.pc = "scan", !.todo = targets, !.listed = kev',
                                   !.inGrace = grace # "over"]
    <3>1. Go(i, new) /\ new.stopped = {}
      BY <2>1 DEF Start, Idle
    <3> HIDE DEF new
    <3>2. QED
      BY <1>1, <3>1
  <2>2. QED
    BY <2>1
<1>5. \A i \in Jobs : ~ScanProject(i) /\ ~SkipProject(i)
  <2>1. ASSUME NEW i \in Jobs, NEW todo, NEW scans,
               Go(i, [job[i] EXCEPT !.todo = todo, !.scans = scans])
        PROVE  FALSE
    <3> DEFINE new == [job[i] EXCEPT !.todo = todo, !.scans = scans]
    <3>1. new.stopped = job[i].stopped
      BY <1>2 DEF JobStates
    <3> HIDE DEF new
    <3>2. QED
      BY <1>1, <2>1, <3>1 DEF new
  <2>2. ASSUME NEW i \in Jobs, ScanProject(i) PROVE FALSE
    <3> DEFINE q == First(job[i].todo)
    <3>1. PICK found : Go(i, [job[i] EXCEPT !.todo = @ \ {q},
                                            !.scans[q] = [seen |-> TRUE, cves |-> found]])
      BY <2>2 DEF ScanProject
    <3> DEFINE todo == job[i].todo \ {q}
               scans == [job[i].scans EXCEPT ![q] = [seen |-> TRUE, cves |-> found]]
    <3>2. Go(i, [job[i] EXCEPT !.todo = todo, !.scans = scans])
      BY <3>1
    <3> HIDE DEF q, todo, scans
    <3>3. QED
      BY <2>1, <3>2
  <2>3. ASSUME NEW i \in Jobs, SkipProject(i) PROVE FALSE
    <3> DEFINE todo == job[i].todo \ {First(job[i].todo)}
               scans == job[i].scans
    <3>1. [job[i] EXCEPT !.todo = @ \ {First(@)}] = [job[i] EXCEPT !.todo = todo, !.scans = scans]
      BY <1>2 DEF JobStates
    <3>2. Go(i, [job[i] EXCEPT !.todo = todo, !.scans = scans])
      BY <3>1, <2>3 DEF SkipProject
    <3> HIDE DEF todo, scans
    <3>3. QED
      BY <2>1, <3>2
  <2>4. QED
    BY <2>2, <2>3
<1>6. \A i \in Jobs : ~Weigh(i)
  <2>1. ASSUME NEW i \in Jobs, Weigh(i) PROVE FALSE
    <3>1. PICK a, n, w :
            Go(i, IF job[i].inGrace THEN Idle
                  ELSE [job[i] EXCEPT !.pc = "apply", !.apply = a, !.next = n, !.newly = w,
                                      !.pending = pending])
      BY <2>1 DEF Weigh
    <3> DEFINE new == [job[i] EXCEPT !.pc = "apply", !.apply = a, !.next = n, !.newly = w,
                                     !.pending = pending]
    <3>2. new.stopped = job[i].stopped
      BY <1>2 DEF JobStates
    <3>3. Go(i, Idle) \/ Go(i, new)
      BY <3>1
    <3> HIDE DEF new
    <3>4. QED
      BY <1>1, <1>3, <3>2, <3>3
  <2>2. QED
    BY <2>1
<1>7. \A i \in Jobs : ~AlertHold(i) /\ ~ApplyHeldOne(i) /\ ~StartApplyHeld(i)
  <2>1. ASSUME NEW i \in Jobs, AlertHold(i) PROVE FALSE
    <3>1. PICK late : Go(i, [job[i] EXCEPT !.pc = "write", !.pending = late])
      BY <2>1 DEF AlertHold
    <3>2. [job[i] EXCEPT !.pc = "write", !.pending = late].stopped = job[i].stopped
      BY <1>2 DEF JobStates
    <3>3. QED
      BY <1>1, <3>1, <3>2
  <2>2. ASSUME NEW i \in Jobs, ApplyHeldOne(i) PROVE FALSE
    <3>1. PICK todo, next : Go(i, [job[i] EXCEPT !.todo = todo, !.next = next])
      BY <2>2 DEF ApplyHeldOne
    <3>2. [job[i] EXCEPT !.todo = todo, !.next = next].stopped = job[i].stopped
      BY <1>2 DEF JobStates
    <3>3. QED
      BY <1>1, <3>1, <3>2
  <2>3. ASSUME NEW i \in Jobs, StartApplyHeld(i) PROVE FALSE
    <3> DEFINE todo == {q \in Projects : held[q] # {}}
               new == [Idle EXCEPT !.pc = "held", !.todo = todo, !.next = held]
    <3>1. Go(i, new)
      BY <2>3 DEF StartApplyHeld
    <3>2. new.stopped = {}
      BY DEF Idle
    <3> HIDE DEF new
    <3>3. QED
      BY <1>1, <3>1, <3>2
  <2>4. QED
    BY <2>1, <2>2, <2>3
<1>8. \A i \in Jobs : ~WriteHeld(i) /\ ~ApplyHeldDone(i) /\ ~Kill(i)
  BY <1>3 DEF WriteHeld, ApplyHeldDone, Kill
<1>9. ~World /\ ~UNCHANGED vars
  BY DEF World, Deploy, SecurityResume, Publish, Suppress, Expire, GraceEnds, vars
<1>10. PICK i \in Jobs : ApplyOne(i)
  BY <1>4, <1>5, <1>6, <1>7, <1>8, <1>9 DEF Next, ScanStep
<1> DEFINE q == First(job[i].apply)
<1>11. PICK stopped : /\ Go(i, [job[i] EXCEPT !.apply = @ \ {q}, !.stopped = stopped])
                      /\ stopped \subseteq job[i].stopped \cup {q}
  BY <1>10 DEF ApplyOne
<1>12. q \in job[i].apply
  BY <1>2, <1>10, FirstIsOne DEF ApplyOne, JobStates
<1> HIDE DEF q
<1>13. /\ job'[i].stopped \subseteq job[i].stopped \cup {q}
       /\ \A k \in Jobs \ {i} : job'[k] = job[k]
  BY <1>2, <1>11 DEF Go, TypeOK, JobStates
<1>14. QED
  BY <1>10, <1>12, <1>13

\* Where scans do not overlap and miss no image: a project that a hold protects is
\* not stopped for what it is held for, by any later scan, of the fleet or of the
\* project alone, whatever is killed, skipped, quarantined and lifted in between
\* (breaker.py: decide; security_fleet_enforce.py: apply_new_quarantines).
THEOREM HoldStandsHolds == ASSUME ~Overlap, ~Incomplete PROVE Spec => HoldStands
<1>1. Init => TypeOK /\ HoldInv
  BY TypeInit, HoldInvInit
<1>2. TypeOK /\ HoldInv /\ [Next]_vars => TypeOK' /\ HoldInv'
  BY TypeStep, HoldInvStep
<1>3. TypeOK /\ HoldInv /\ [Next]_vars
      => [\A j \in Jobs : \A p \in job'[j].stopped \ job[j].stopped :
             ~(job[j].scans[p].cves \subseteq onHold[p])]_vars
  <2> SUFFICES ASSUME TypeOK, HoldInv, [Next]_vars, NEW j \in Jobs,
                      NEW p \in job'[j].stopped \ job[j].stopped
               PROVE  ~(job[j].scans[p].cves \subseteq onHold[p])
    OBVIOUS
  <2>1. job[j].pc = "apply" /\ p \in job[j].apply
    BY OnlyApplyStops DEF ApplyOne, At
  <2>2. QED
    BY <2>1 DEF HoldInv, Sound
<1>4. QED
  BY <1>1, <1>2, <1>3, PTL DEF Spec, HoldStands
================================================================================
