---------------------------- MODULE PromotionSpec ----------------------------
(***************************************************************************)
(* What promote promises its operator, whatever is killed and run again:   *)
(* the promotion of a staged slot ends once, in production or not; only of *)
(* one that ended in production is anything said, and what was said stays  *)
(* true.                                                                   *)
(***************************************************************************)
EXTENDS Naturals

CONSTANT Slots  \* the slots ever staged

VARIABLES outcome,  \* of each slot's promotion: none yet, ok or failed
          told,     \* how often it was announced
          said      \* the slots whose promote returned 0

avars == <<outcome, told, said>>

Init ==
    /\ outcome = [i \in Slots |-> "none"]
    /\ told = [i \in Slots |-> 0]
    /\ said = {}

Conclude(i) ==
    /\ outcome[i] = "none"
    /\ \E rc \in {"ok", "failed"} : outcome' = [outcome EXCEPT ![i] = rc]
    /\ UNCHANGED <<told, said>>

\* Announced once at most: never, where it is cut short before it is sent.
Announce(i) ==
    /\ outcome[i] = "ok" /\ told[i] = 0
    /\ told' = [told EXCEPT ![i] = 1]
    /\ UNCHANGED <<outcome, said>>

Return(i) ==
    /\ outcome[i] = "ok"
    /\ said' = said \cup {i}
    /\ UNCHANGED <<outcome, told>>

Next == \E i \in Slots : Conclude(i) \/ Announce(i) \/ Return(i)

Spec == Init /\ [][Next]_avars
=============================================================================
