---------------------------- MODULE PlatformSpec -----------------------------
(***************************************************************************)
(* What the platform upgrade promises of the two releases it keeps,        *)
(* whatever is killed and whenever the power fails.  The standby is built  *)
(* and removed beside a live release that has proven itself; while one     *)
(* that has not is live, the release it replaced stands by untouched,      *)
(* until it is live again or the new one is accepted.                      *)
(***************************************************************************)
EXTENDS Naturals

CONSTANT Versions  \* the releases there are

VARIABLES live,    \* the release that runs, and whether it has proven itself
          standby, \* the other one (version 0: none)
          blind    \* a live probation has been taken for a stale one

avars == <<live, standby, blind>>

None == [ver |-> 0, proven |-> FALSE]
Unproven == [ver : Versions, proven : {FALSE}]

Init ==
    /\ live \in [ver : Versions, proven : {TRUE}]
    /\ standby = None
    /\ blind = FALSE

LoseSight == blind' = TRUE /\ UNCHANGED <<live, standby>>

\* The standby is removed, or built anew.
Rebuild ==
    /\ live.proven \/ blind'
    /\ standby' \in Unproven \cup {None}
    /\ blind' \in {blind, TRUE}
    /\ UNCHANGED live

\* An upgrade goes live, a rollback returns, or a power cut takes back a swap
\* that was not on disk: never from one unproven release to another.
Swap ==
    /\ standby.ver # 0
    /\ live.proven \/ standby.proven \/ blind
    /\ live' = standby /\ standby' = live
    /\ UNCHANGED blind

\* Probation passed, or the operator uses it; the release before it may go.
Accept ==
    /\ live' = [live EXCEPT !.proven = TRUE]
    /\ standby' \in {standby, None}
    /\ UNCHANGED blind

\* The operator uses a release while it is rolled back.
AcceptLate ==
    /\ live.proven \/ blind
    /\ standby' = [standby EXCEPT !.proven = TRUE]
    /\ UNCHANGED <<live, blind>>

Next == LoseSight \/ Rebuild \/ Swap \/ Accept \/ AcceptLate

Spec == Init /\ [][Next]_avars
=============================================================================
