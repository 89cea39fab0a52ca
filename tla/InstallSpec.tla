---------------------------- MODULE InstallSpec ----------------------------
(***************************************************************************)
(* What an install promises, whatever crashes on the way: production's     *)
(* release and its rollback target change together, at one moment, when an *)
(* install that may have touched the data closes; an install that touched  *)
(* nothing leaves both as they were.                                       *)
(***************************************************************************)
EXTENDS Naturals

CONSTANTS Releases,   \* the whole releases there may be; gen orders them
          NoRelease

VARIABLES release,    \* the release in force
          target,     \* [tree, mark]: what a rollback returns to, and the
                      \* newest transaction its data snapshot holds
          pending     \* "none", "clean" or "dirty" (data may have changed)

avars == <<release, target, pending>>

NoTarget == [tree |-> NoRelease, mark |-> 0]

Init == release = NoRelease /\ target = NoTarget /\ pending = "none"

Begin == /\ pending = "none"
         /\ pending' \in {"clean", "dirty"}
         /\ UNCHANGED <<release, target>>

Touch == /\ pending = "clean"
         /\ pending' = "dirty"
         /\ UNCHANGED <<release, target>>

GiveUp == /\ pending = "clean"
          /\ pending' = "none"
          /\ UNCHANGED <<release, target>>

\* A rollback returns to the old target's release, a deploy brings its own; the
\* new target is one of the two releases this install had behind it, with a
\* snapshot no newer release wrote, or a rollback used it up.
Finish == /\ pending = "dirty"
          /\ pending' = "none"
          /\ release' \in Releases
          /\ \/ target' = NoTarget
             \/ /\ target'.tree \in {release, target.tree} \ {NoRelease}
                /\ target'.mark <= target'.tree.gen

Next == Begin \/ Touch \/ GiveUp \/ Finish

Spec == Init /\ [][Next]_avars
=============================================================================
