------------------------------- MODULE CveFleet -------------------------------
(***************************************************************************)
(* `security scan` over the fleet (commands/security_actions.py): each     *)
(* project is scanned under its lock (security_scan_core.py), then the     *)
(* run's new quarantines are weighed together by the circuit breaker       *)
(* (cve/breaker.py) and applied one by one (security_fleet_enforce.py),    *)
(* while projects are deployed, CVEs are published, listed on KEV,         *)
(* suppressed and let go, and the operator applies what is held.           *)
(*                                                                         *)
(* How a quarantine stops a project is in Lifecycle: here it is on record  *)
(* or not.                                                                 *)
(***************************************************************************)
EXTENDS CvePolicy

CONSTANTS NProjects,   \* the registered projects are 1 .. NProjects
          Cves,
          Finding,     \* what the scanner reports of a CVE an image carries
          Policy,      \* a project's policy, from its manifest
          Jobs,        \* `security scan` processes
          Overlap,     \* may they run side by side?
          Incomplete,  \* may a scan miss an image?
          MaxChanges,  \* changes of the projects and of what is known of CVEs
          MaxFaults    \* kills, failed steps, locks held, alerts not delivered

Projects == 1 .. NProjects

ASSUME CveFleetAssumption ==
    /\ NProjects \in Nat \ {0}
    /\ IsFiniteSet(Cves)
    /\ Finding \in [Cves -> Findings]
    /\ Policy \in [Projects -> Policies]
    /\ MaxChanges \in Nat /\ MaxFaults \in Nat
    /\ {Overlap, Incomplete} \subseteq BOOLEAN

VARIABLES carries,   \* the CVEs in each project's running images
          kev,       \* the cached KEV catalog
          suppressed,\* per project, its own suppressions and the host's
          grace,     \* state/cve-grace.json: "unset", "active", "over"
          quar,      \* the projects with a quarantine on record
          recorded,  \* per project, the quarantine-level CVEs in its scan state
          held,      \* state/cve-breaker.json: per project, the CVEs it is held for
          pending,   \* its alert_pending
          job,       \* the scans under way
          onHold,    \* history: what a hold on record protected last
          changes, faults

vars == <<carries, kev, suppressed, grace, quar, recorded, held, pending, job, onHold,
          changes, faults>>

fleet == <<carries, suppressed, grace>>
file  == <<held, pending, onHold>>

\* Which CVEs, listed on KEV or not, suppressed or not, quarantine a project.
Quarantines ==
    {<<q.project, q.cve, q.listed, q.mine>> :
        q \in {r \in [project : Projects, cve : Cves, listed : BOOLEAN, mine : BOOLEAN] :
                Disposition(Finding[r.cve], Policy[r.project], r.listed, r.mine) = "quarantine"}}

\* Those of `cves` that quarantine a project, with the catalog `listed`.
QuarantineLevel(p, cves, listed) ==
    {c \in cves : <<p, c, c \in listed, c \in suppressed[p]>> \in Quarantines}

AllHeld(h) == UNION {h[p] : p \in Projects}

NoHold == [p \in Projects |-> {}]

(***************************************************************************)
(* The breaker.                                                            *)
(***************************************************************************)

\* max(2, ceil(0.34 n))
TripThreshold(n) == IF (34 * n + 99) \div 100 > 2 THEN (34 * n + 99) \div 100 ELSE 2

\* A run's candidates are given as the quarantine-level CVEs of each scanned
\* project and the catalog they were judged with; none: not a candidate.
IsKev(cves, listed) == cves \cap listed # {}

Kevs(cands, listed)  == {p \in Projects : cands[p] # {} /\ IsKev(cands[p], listed)}
StillHeld(cands, listed, already) ==
    {p \in Projects : /\ cands[p] # {} /\ ~IsKev(cands[p], listed)
                      /\ cands[p] \subseteq AllHeld(already)}
Fresh(cands, listed, already) ==
    {p \in Projects : /\ cands[p] # {} /\ ~IsKev(cands[p], listed)
                      /\ ~(cands[p] \subseteq AllHeld(already))}

Carrying(fresh, cands, c) == {p \in fresh : c \in cands[p]}

\* Mutant: the threshold itself may still be taken.
Tripped_Above(fresh, cands, n) ==
    /\ fresh # {}
    /\ \/ Cardinality(fresh) > TripThreshold(n)
       \/ \E c \in Cves : Cardinality(Carrying(fresh, cands, c)) > TripThreshold(n)

Tripped(fresh, cands, n) ==
    /\ fresh # {}
    /\ \/ Cardinality(fresh) >= TripThreshold(n)
       \/ \E c \in Cves : Cardinality(Carrying(fresh, cands, c)) >= TripThreshold(n)

\* Mutant: what is held stays held, listed on KEV since or not.
Decide_HeldFirst(cands, listed, already, n) ==
    LET still   == {p \in Projects : cands[p] # {} /\ cands[p] \subseteq AllHeld(already)}
        fresh   == Fresh(cands, listed, already)
        tripped == Tripped(fresh, cands, n)
    IN [apply |-> (Kevs(cands, listed) \ still) \cup (IF tripped THEN {} ELSE fresh),
        held  |-> still \cup (IF tripped THEN fresh ELSE {}),
        newly |-> IF tripped THEN fresh ELSE {}]

\* What decide returns: the projects to quarantine now, those held, those
\* held because this run tripped.
Decide(cands, listed, already, n) ==
    LET fresh   == Fresh(cands, listed, already)
        still   == StillHeld(cands, listed, already)
        tripped == Tripped(fresh, cands, n)
    IN [apply |-> Kevs(cands, listed) \cup (IF tripped THEN {} ELSE fresh),
        held  |-> still \cup (IF tripped THEN fresh ELSE {}),
        newly |-> IF tripped THEN fresh ELSE {}]

(***************************************************************************)
(* Scans.                                                                  *)
(***************************************************************************)

\* What a run knows of a project: not scanned, or its quarantine-level CVEs.
Unscanned == [seen |-> FALSE, cves |-> {}]
Scans == [seen : BOOLEAN, cves : SUBSET Cves]

\* `apply`: quarantines decided and not yet taken; `next`: the held set to
\* write; `stopped`: history, the projects without a KEV finding it stopped.
Idle == [pc |-> "idle", todo |-> {}, listed |-> {}, inGrace |-> FALSE,
         scans |-> [p \in Projects |-> Unscanned], apply |-> {}, next |-> NoHold,
         pending |-> FALSE, newly |-> {}, stopped |-> {}]

At(j, pc) == job[j].pc = pc
Go(j, new) == job' = [job EXCEPT ![j] = new]
Scanned(j) == {p \in Projects : job[j].scans[p].seen}

First(S) == CHOOSE p \in S : \A q \in S : p <= q

MayFault == faults < MaxFaults /\ faults' = faults + 1
Fault(failed) == IF failed THEN MayFault ELSE UNCHANGED faults

Change == changes < MaxChanges /\ changes' = changes + 1

MayStart == Overlap \/ \A j \in Jobs : At(j, "idle")

\* A fleet scan or one of a single project: the KEV catalog is refreshed (a
\* refresh that fails or is rejected brings nothing) and threaded through the
\* run, the grace window begins with the first scan.
Start(j, targets) ==
    /\ At(j, "idle") /\ MayStart
    /\ \E new \in SUBSET (Cves \ kev) :
         /\ IF new = {} THEN UNCHANGED changes ELSE Change
         /\ kev' = kev \cup new
         /\ Go(j, [Idle EXCEPT !.pc = "scan", !.todo = targets, !.listed = kev',
                               !.inGrace = grace # "over"])
    /\ grace' = IF grace = "unset" THEN "active" ELSE grace
    /\ UNCHANGED <<carries, suppressed, quar, recorded, held, pending, onHold, faults>>

\* History: a scan finds a project with nothing but what it is held for.
OnlyOnHold(p, cves, listed) ==
    /\ cves # {} /\ cves \subseteq onHold[p]
    /\ ~IsKev(cves, listed)

\* One project, under its lock: judged, recorded; a quarantine already on
\* record is asserted again, a new one is left to the breaker.  The result
\* may fail to be recorded; where images were missed it is judged by the rest.
ScanProject(j) ==
    /\ At(j, "scan") /\ job[j].todo # {}
    /\ LET p == First(job[j].todo)
           all == QuarantineLevel(p, carries[p], job[j].listed)
       IN \E found \in (IF Incomplete THEN SUBSET all ELSE {all}), written \in BOOLEAN :
            /\ Fault(found # all \/ ~written)
            /\ recorded' = IF written THEN [recorded EXCEPT ![p] = found] ELSE recorded
            /\ Go(j, [job[j] EXCEPT !.todo = @ \ {p},
                                    !.scans[p] = [seen |-> TRUE, cves |-> found]])
            /\ onHold' = IF OnlyOnHold(p, all, job[j].listed) THEN onHold
                         ELSE [onHold EXCEPT ![p] = {}]
    /\ UNCHANGED <<fleet, kev, quar, held, pending, changes>>

\* Another operation holds the project's lock, or its scan fails.
SkipProject(j) ==
    /\ At(j, "scan") /\ job[j].todo # {}
    /\ MayFault
    /\ Go(j, [job[j] EXCEPT !.todo = @ \ {First(@)}])
    /\ UNCHANGED <<fleet, kev, quar, recorded, file, changes>>

\* The fleet's new quarantines: weighed against the held set as it is read
\* here.  In grace none is taken and the file is left alone.
Candidates(j) ==
    [p \in Projects |-> IF p \in quar THEN {} ELSE job[j].scans[p].cves]

\* Mutant: the held set is what this run held.
NextHeld_OnlyThisRun(j, verdict) ==
    [p \in Projects |-> IF p \in verdict.held THEN job[j].scans[p].cves ELSE {}]

NextHeld(j, verdict) ==
    [p \in Projects |->
        IF p \in verdict.held THEN job[j].scans[p].cves
        ELSE IF job[j].scans[p].seen THEN {} ELSE held[p]]

Weigh(j) ==
    /\ At(j, "scan") /\ job[j].todo = {}
    /\ \E verdict \in {Decide(Candidates(j), job[j].listed, held, Cardinality(Scanned(j)))} :
         Go(j, IF job[j].inGrace THEN Idle
               ELSE [job[j] EXCEPT !.pc = "apply", !.apply = verdict.apply,
                                   !.next = NextHeld(j, verdict), !.newly = verdict.newly,
                                   !.pending = pending])
    /\ UNCHANGED <<fleet, kev, quar, recorded, file, changes, faults>>

\* Each quarantine under its project's lock: only whether it is quarantined
\* already is looked at again.  It may fail with its record written or not.
ApplyOne(j) ==
    /\ At(j, "apply") /\ job[j].apply # {}
    /\ LET p == First(job[j].apply)
       IN \E done, failed \in BOOLEAN :
            /\ done \/ failed
            /\ p \in quar => done
            /\ Fault(failed)
            /\ quar' = IF done THEN quar \cup {p} ELSE quar
            /\ onHold' = IF done THEN [onHold EXCEPT ![p] = {}] ELSE onHold
            /\ Go(j, [job[j] EXCEPT !.apply = @ \ {p},
                        !.stopped = IF done /\ p \notin quar
                                       /\ ~IsKev(job[j].scans[p].cves, job[j].listed)
                                    THEN @ \cup {p} ELSE @])
    /\ UNCHANGED <<fleet, kev, recorded, held, pending, changes>>

\* One alert for the whole hold, when the run tripped or an earlier alert
\* was not delivered.
AlertHold(j) ==
    /\ At(j, "apply") /\ job[j].apply = {}
    /\ LET due == job[j].next # NoHold /\ (job[j].newly # {} \/ job[j].pending)
       IN \E delivered \in BOOLEAN :
            /\ ~due => delivered
            /\ Fault(~delivered)
            /\ Go(j, [job[j] EXCEPT !.pc = "write", !.pending = IF due THEN ~delivered ELSE @])
    /\ UNCHANGED <<fleet, kev, quar, recorded, file, changes>>

WriteHeld(j) ==
    /\ At(j, "write")
    /\ held' = job[j].next
    /\ pending' = (job[j].pending /\ job[j].next # NoHold)
    /\ onHold' = [p \in Projects |-> IF p \in quar \/ job[j].next[p] = {} THEN onHold[p]
                                     ELSE job[j].next[p]]
    /\ Go(j, Idle)
    /\ UNCHANGED <<fleet, kev, quar, recorded, changes, faults>>

(***************************************************************************)
(* `security scan --apply-held`: what the scan states say, no re-scan.     *)
(***************************************************************************)

StartApplyHeld(j) ==
    /\ At(j, "idle") /\ MayStart
    /\ held # NoHold
    /\ Go(j, [Idle EXCEPT !.pc = "held", !.todo = {p \in Projects : held[p] # {}}, !.next = held])
    /\ UNCHANGED <<fleet, kev, quar, recorded, file, changes, faults>>

\* A project whose state no longer quarantines is let go without action.
ApplyHeldOne(j) ==
    /\ At(j, "held") /\ job[j].todo # {}
    /\ LET p == First(job[j].todo)
       IN \E done, failed \in BOOLEAN :
            /\ done \/ failed
            /\ Fault(failed)
            /\ quar' = IF done /\ recorded[p] # {} THEN quar \cup {p} ELSE quar
            /\ Go(j, [job[j] EXCEPT !.todo = @ \ {p}, !.next[p] = IF failed THEN @ ELSE {}])
            /\ onHold' = IF done THEN [onHold EXCEPT ![p] = {}] ELSE onHold
    /\ UNCHANGED <<fleet, kev, recorded, held, pending, changes>>

ApplyHeldDone(j) ==
    /\ At(j, "held") /\ job[j].todo = {}
    /\ held' = job[j].next /\ pending' = FALSE
    /\ Go(j, Idle)
    /\ UNCHANGED <<fleet, kev, quar, recorded, onHold, changes, faults>>

Kill(j) ==
    /\ ~At(j, "idle")
    /\ MayFault
    /\ Go(j, Idle)
    /\ UNCHANGED <<fleet, kev, quar, recorded, file, changes>>

(***************************************************************************)
(* The projects and the CVEs.                                              *)
(***************************************************************************)

\* A release with other images.  A quarantined project's is scanned before
\* it starts and refused if anything in it would quarantine; the quarantine
\* is lifted when it runs, and stays if it fails after the switch.
Deploy(p) ==
    /\ Change
    /\ \E cves \in SUBSET Cves, lifted \in BOOLEAN :
         /\ cves # carries[p]
         /\ p \in quar => QuarantineLevel(p, cves, kev) = {}
         /\ p \notin quar => lifted
         /\ Fault(~lifted)
         /\ carries' = [carries EXCEPT ![p] = cves]
         /\ quar' = IF lifted THEN quar \ {p} ELSE quar
    /\ UNCHANGED <<kev, suppressed, grace, recorded, file, job>>

\* A CVE becomes known in the base image of some projects.
Publish(c) ==
    /\ Change
    /\ \E ps \in SUBSET Projects :
         /\ ps # {}
         /\ carries' = [p \in Projects |-> IF p \in ps THEN carries[p] \cup {c} ELSE carries[p]]
    /\ UNCHANGED <<kev, suppressed, grace, quar, recorded, file, job, faults>>

\* For one project or, --host, for all; a listed CVE is refused.
Suppress(c) ==
    /\ c \notin kev
    /\ Change
    /\ \E ps \in {{p} : p \in Projects} \cup {Projects} :
         suppressed' = [p \in Projects |->
                            IF p \in ps THEN suppressed[p] \cup {c} ELSE suppressed[p]]
    /\ UNCHANGED <<carries, kev, grace, quar, recorded, file, job, faults>>

\* A suppression ends: expired, or removed.
Expire(c) ==
    /\ Change
    /\ \E p \in Projects : /\ c \in suppressed[p]
                           /\ suppressed' = [suppressed EXCEPT ![p] = @ \ {c}]
    /\ UNCHANGED <<carries, kev, grace, quar, recorded, file, job, faults>>

\* security resume: scanned again under the lock, and lifted only when
\* nothing would quarantine.
SecurityResume(p) ==
    /\ p \in quar /\ QuarantineLevel(p, carries[p], kev) = {}
    /\ quar' = quar \ {p}
    /\ UNCHANGED <<fleet, kev, recorded, file, job, changes, faults>>

GraceEnds ==
    /\ grace = "active" /\ grace' = "over"
    /\ UNCHANGED <<carries, suppressed, kev, quar, recorded, file, job, changes, faults>>

(***************************************************************************)
(* Specification.                                                          *)
(***************************************************************************)

Init ==
    /\ carries = NoHold /\ kev = {} /\ suppressed = NoHold
    /\ grace \in {"unset", "over"} /\ quar = {}
    /\ recorded = NoHold /\ held = NoHold /\ pending = FALSE
    /\ job = [j \in Jobs |-> Idle]
    /\ onHold = NoHold
    /\ changes = 0 /\ faults = 0

ScanStep(j) ==
    ScanProject(j) \/ Weigh(j) \/ ApplyOne(j) \/ AlertHold(j) \/ WriteHeld(j)
        \/ ApplyHeldOne(j) \/ ApplyHeldDone(j)

World ==
    \/ \E p \in Projects : Deploy(p) \/ SecurityResume(p)
    \/ \E c \in Cves : Publish(c) \/ Suppress(c) \/ Expire(c)
    \/ GraceEnds

Next ==
    \/ \E j \in Jobs : \/ Start(j, Projects) \/ \E p \in Projects : Start(j, {p})
                       \/ StartApplyHeld(j)
                       \/ ScanStep(j) \/ SkipProject(j) \/ Kill(j)
    \/ World

Spec == Init /\ [][Next]_vars

\* A scan that runs goes on; the timer starts a fleet scan every night; the
\* grace window ends.
Fairness ==
    /\ \A j \in Jobs : WF_vars(ScanStep(j)) /\ SF_vars(Start(j, Projects))
    /\ WF_vars(GraceEnds)

FairSpec == Spec /\ Fairness

(***************************************************************************)
(* Properties.                                                             *)
(***************************************************************************)

JobStates == [pc : {"idle", "scan", "apply", "write", "held"}, todo : SUBSET Projects,
              listed : SUBSET Cves, inGrace : BOOLEAN, scans : [Projects -> Scans],
              apply : SUBSET Projects, next : [Projects -> SUBSET Cves],
              pending : BOOLEAN, newly : SUBSET Projects, stopped : SUBSET Projects]

\* Every variable has its type (the JSON files and a scan's locals).
TypeOK ==
    /\ carries \in [Projects -> SUBSET Cves] /\ suppressed \in [Projects -> SUBSET Cves]
    /\ recorded \in [Projects -> SUBSET Cves]
    /\ held \in [Projects -> SUBSET Cves] /\ onHold \in [Projects -> SUBSET Cves]
    /\ kev \subseteq Cves
    /\ grace \in {"unset", "active", "over"}
    /\ quar \subseteq Projects
    /\ pending \in BOOLEAN
    /\ job \in [Jobs -> JobStates]
    /\ changes \in Nat /\ faults \in Nat

\* What a scan stops without a KEV finding stays below the blast radius, by
\* count and for every single CVE, whatever fails, is skipped, or was stopped
\* before it (cve/breaker.py: decide).
BlastRadius ==
    \A j \in Jobs :
        LET limit == TripThreshold(Cardinality(Scanned(j)))
        IN /\ Cardinality(job[j].stopped) < limit
           /\ \A c \in Cves : Cardinality({p \in job[j].stopped : c \in job[j].scans[p].cves}) < limit

\* A project held for its CVEs is not stopped for them by a later scan, a
\* scan of that project alone (N = 1) included, until an operator applies the
\* hold, a CVE of it is listed on KEV, or a scan finds something else
\* (cve/breaker.py: later scans "keep holding a project whose
\* quarantine-level CVEs are all held").
HoldStands ==
    [][\A j \in Jobs : \A p \in job'[j].stopped \ job[j].stopped :
            ~(job[j].scans[p].cves \subseteq onHold[p])]_vars

\* Exploited CVEs are never held: a project that carries one it would be
\* quarantined for is quarantined, or stops carrying it, whatever is held,
\* killed or skipped (cve/breaker.py: "KEV-triggered quarantines are never
\* held").
Exploited(p) == IsKev(QuarantineLevel(p, carries[p], kev), kev)
KevActs == \A p \in Projects : []<>(Exploited(p) => p \in quar)

\* The alert of a hold that was not delivered stays due while anything is
\* held (CVE_POLICY.md: "an undelivered one is retried by the next scan").
UndeliveredIsRetried ==
    [][(pending /\ ~pending') => \/ held' = NoHold
                                 \/ \E j \in Jobs : At(j, "write") /\ ~job[j].pending]_vars

\* What a scan stops without a KEV finding still carries, at that moment, a
\* CVE it would be quarantined for (security_fleet_enforce.py: "re-checking
\* state that may have changed since phase 1").
StopsOnlyAtRisk ==
    [][\A j \in Jobs : \A p \in job'[j].stopped \ job[j].stopped :
            QuarantineLevel(p, carries[p], kev) # {}]_vars
=============================================================================
