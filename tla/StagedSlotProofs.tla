--------------------------- MODULE StagedSlotProofs ---------------------------
(***************************************************************************)
(* Proofs about StagedSlot, for any number of stages and of faults: its    *)
(* types, that production is not switched twice for one slot, and that     *)
(* what promote announces and returns is what happened.                    *)
(*                                                                         *)
(* What holds from one command to the next is what the files say: a        *)
(* retired slot says how its switch ended, one whose switch was recorded   *)
(* and that is not retired is one nothing promotes, and a slot put aside   *)
(* as promoted was (SlotSound, ToldSound).  Within a command each step     *)
(* relies on what the ones before it have seen to (Doing).                 *)
(***************************************************************************)
EXTENDS StagedSlot, SequenceTheorems, TLAPS

------------------------------------------------------------------------------
(* The invariant.                                                          *)

\* What a command has left to do, from wherever it is: a stage before its
\* slot is built, before it is in place and after; the takedown of a slot; a
\* promote before its switch is recorded, and before its slot is dropped.
ToBuild == {Staging, <<"build", "unready", "down", "swapOut", "swapIn", "sweep", "site", "up",
                       "ready">>}
ToSwap == {<<"unready", "down", "swapOut", "swapIn", "sweep", "site", "up", "ready">>,
           <<"down", "swapOut", "swapIn", "sweep", "site", "up", "ready">>,
           <<"swapOut", "swapIn", "sweep", "site", "up", "ready">>,
           <<"swapIn", "sweep", "site", "up", "ready">>}
ToReady == {<<"sweep", "site", "up", "ready">>, <<"site", "up", "ready">>, <<"up", "ready">>,
            <<"ready">>}
ToTakeDown == {Takedown, <<"unsite", "drop", "discard">>, <<"drop", "discard">>, <<"discard">>}
ToRetire == {<<"open", "switch", "replace", "retire", "close">>,
             <<"switch", "replace", "retire", "close">>, <<"replace", "retire", "close">>,
             <<"retire", "close">>}
ToAnnounce == {Announcing, <<"unsite", "announce", "tell", "drop", "discard">>,
               <<"announce", "tell", "drop", "discard">>, <<"tell", "drop", "discard">>}

Ops == {Nobody}
       \cup [cmd : {"stage"}, todo : ToBuild \cup ToSwap \cup ToReady]
       \cup [cmd : {"cleanup", "unstage"},
             todo : {<<"sweep">>, <<"sweep", "down", "unsite", "drop", "discard">>} \cup ToTakeDown]
       \cup [cmd : {"failed"}, todo : {<<"close", "down", "unsite", "drop", "discard">>} \cup ToTakeDown]
       \cup [cmd : {"promote"},
             todo : {<<"finish">>, <<"sweep", "decide">>, <<"decide">>, <<"close">>,
                     <<"close", "down", "unsite", "announce", "tell", "drop", "discard">>}
                    \cup ToRetire \cup ToAnnounce \cup {<<"drop", "discard">>, <<"discard">>}]

\* The slot stands, not yet switched to, or was switched to, as it says.
Fresh == slot # NoSlot /\ slot.state # "retired" /\ slot.id \notin over
Retired == slot # NoSlot /\ slot.state = "retired"

\* What a command has seen to before each of its steps.
StageDoing ==
    /\ txn = Closed
    /\ Len(op.todo) >= 9 => built < MaxStages
    /\ Len(op.todo) \in 5 .. 8 => building # NoSlot
    /\ Len(op.todo) <= 4 => Fresh
PromoteDoing ==
    /\ Head(op.todo) \in {"sweep", "decide"} => slot # NoSlot
    /\ Head(op.todo) \in {"open", "switch", "replace", "retire"} => Fresh
    /\ Head(op.todo) = "retire" => result[slot.id] # "none"
    /\ Head(op.todo) = "close" => Retired /\ (Len(op.todo) > 1 => slot.rc = "ok")
    /\ Head(op.todo) \in {"down", "unsite", "announce", "tell", "drop"} => Retired /\ slot.rc = "ok"
    /\ Head(op.todo) = "tell" => slot.announced /\ told[slot.id] = 0
    /\ Head(op.todo) \in {"finish", "discard"} => debris.promoted # NoSlot
Doing == /\ op \in Ops
         /\ op.cmd = "stage" => StageDoing
         /\ op.cmd = "promote" => PromoteDoing
         /\ op.cmd = "failed" /\ Head(op.todo) = "close" => Retired /\ slot.rc # "ok"

\* What is being built is nobody's yet.
BuildingSound ==
    /\ slot.id <= built
    /\ building # NoSlot => /\ building.id \in 1 .. built
                            /\ building.id \notin over /\ building.id # slot.id

\* A retired slot says how its switch ended; one whose switch was recorded and
\* that is not retired is one that nothing promotes.
SlotSound ==
    /\ slot.state = "retired" => slot.id \in over /\ slot.rc = result[slot.id]
    /\ slot.id \in over => \/ slot.state = "retired"
                           \/ slot.state = "starting" /\ txn.id # slot.id

\* What was announced, and what is about to be returned as promoted.
ToldSound ==
    /\ over \subseteq 1 .. built
    /\ debris.promoted # NoSlot =>
         debris.promoted.id \in over /\ result[debris.promoted.id] = "ok"
    /\ \A i \in Slots : /\ told[i] <= 1
                        /\ told[i] > 0 \/ i \in said => i \in over /\ result[i] = "ok"
                        /\ told[i] > 0 /\ i = slot.id => slot.announced

SlotInv == Doing /\ BuildingSound /\ SlotSound /\ ToldSound

------------------------------------------------------------------------------
(* The steps of a command.                                                 *)

Steps == MayFail \cup {"sweep", "finish", "decide", "ready", "replace", "close", "announce", "tell"}

SlotTypes == [id : Slots, state : {"starting", "ready", "retired"},
              rc : {"none", "ok", "failed"}, announced : BOOLEAN] \cup {NoSlot}

\* The types of everything but the command.
Files ==
    /\ slot \in SlotTypes /\ building \in SlotTypes
    /\ debris \in [discarded : SlotTypes, promoted : SlotTypes]
    /\ building.state \in {"none", "starting"}
    /\ txn \in {Closed} \cup [id : 0 .. MaxStages, at : {"begun", "switching"}]
    /\ staging \in 0 .. MaxStages /\ site \in BOOLEAN
    /\ built \in 0 .. MaxStages /\ result \in [Slots -> {"none", "ok", "failed"}]
    /\ over \subseteq Slots /\ told \in [Slots -> Nat] /\ said \subseteq Slots
    /\ faults \in 0 .. MaxFaults

Safe == Files /\ SlotInv

\* The lists are lists of steps.
LEMMA RetireLists == ToRetire \subseteq Seq(Steps)
<1>1. /\ <<"open", "switch", "replace", "retire", "close">> \in Seq(Steps)
      /\ <<"switch", "replace", "retire", "close">> \in Seq(Steps)
      /\ <<"replace", "retire", "close">> \in Seq(Steps)
      /\ <<"retire", "close">> \in Seq(Steps)
  BY DEF Steps, MayFail
<1>2. QED
  BY <1>1 DEF ToRetire

LEMMA BuildLists == ToBuild \subseteq Seq(Steps)
<1>1. /\ Staging \in Seq(Steps)
      /\ <<"build", "unready", "down", "swapOut", "swapIn", "sweep", "site", "up", "ready">>
           \in Seq(Steps)
  BY DEF Steps, MayFail, Staging
<1>2. QED
  BY <1>1 DEF ToBuild

LEMMA SwapLists == ToSwap \subseteq Seq(Steps)
<1>1. /\ <<"unready", "down", "swapOut", "swapIn", "sweep", "site", "up", "ready">> \in Seq(Steps)
      /\ <<"down", "swapOut", "swapIn", "sweep", "site", "up", "ready">> \in Seq(Steps)
      /\ <<"swapOut", "swapIn", "sweep", "site", "up", "ready">> \in Seq(Steps)
      /\ <<"swapIn", "sweep", "site", "up", "ready">> \in Seq(Steps)
  BY DEF Steps, MayFail
<1>2. QED
  BY <1>1 DEF ToSwap

LEMMA ReadyLists == ToReady \subseteq Seq(Steps)
<1>1. /\ <<"sweep", "site", "up", "ready">> \in Seq(Steps)
      /\ <<"site", "up", "ready">> \in Seq(Steps)
      /\ <<"up", "ready">> \in Seq(Steps) /\ <<"ready">> \in Seq(Steps)
  BY DEF Steps, MayFail
<1>2. QED
  BY <1>1 DEF ToReady

LEMMA TakeDownLists == ToTakeDown \subseteq Seq(Steps)
<1>1. /\ Takedown \in Seq(Steps) /\ <<"unsite", "drop", "discard">> \in Seq(Steps)
      /\ <<"drop", "discard">> \in Seq(Steps) /\ <<"discard">> \in Seq(Steps)
  BY DEF Steps, MayFail, Takedown
<1>2. QED
  BY <1>1 DEF ToTakeDown

LEMMA AnnounceLists == ToAnnounce \subseteq Seq(Steps)
<1>1. /\ Announcing \in Seq(Steps)
      /\ <<"unsite", "announce", "tell", "drop", "discard">> \in Seq(Steps)
      /\ <<"announce", "tell", "drop", "discard">> \in Seq(Steps)
      /\ <<"tell", "drop", "discard">> \in Seq(Steps)
  BY DEF Steps, MayFail, Announcing
<1>2. QED
  BY <1>1 DEF ToAnnounce

\* What a command has left is a list of its steps.
LEMMA OpsTyped ==
    Ops \subseteq [cmd : {"idle", "stage", "cleanup", "promote", "failed", "unstage"},
                   todo : Seq(Steps)]
<1>1. /\ <<"sweep">> \in Seq(Steps)
      /\ <<"sweep", "down", "unsite", "drop", "discard">> \in Seq(Steps)
      /\ <<"close", "down", "unsite", "drop", "discard">> \in Seq(Steps)
      /\ <<"finish">> \in Seq(Steps) /\ <<"sweep", "decide">> \in Seq(Steps)
      /\ <<"decide">> \in Seq(Steps) /\ <<"close">> \in Seq(Steps)
  BY DEF Steps, MayFail
<1>2. /\ <<"close", "down", "unsite", "announce", "tell", "drop", "discard">> \in Seq(Steps)
      /\ <<"drop", "discard">> \in Seq(Steps) /\ <<"discard">> \in Seq(Steps)
  BY DEF Steps, MayFail
<1>3. Nobody \in [cmd : {"idle"}, todo : Seq(Steps)]
  BY DEF Nobody
<1>4. QED
  BY <1>1, <1>2, <1>3, BuildLists, SwapLists, ReadyLists, TakeDownLists, RetireLists, AnnounceLists
     DEF Ops

LEMMA SafeTyped == Safe => TypeOK
<1>1. Safe => op \in [cmd : {"idle", "stage", "cleanup", "promote", "failed", "unstage"},
                      todo : Seq(Steps)]
  BY OpsTyped DEF Safe, SlotInv, Doing
<1>2. QED
  BY <1>1 DEF Safe, Files, TypeOK, SlotTypes, Steps

\* At most steps only one command can be, and it has one thing left to do.
LEMMA Places ==
    ASSUME op \in Ops
    PROVE  /\ (At("build") => op.cmd = "stage" /\ op.todo =
                <<"build", "unready", "down", "swapOut", "swapIn", "sweep", "site", "up", "ready">>)
           /\ (At("unready") => op.cmd = "stage" /\ op.todo =
                <<"unready", "down", "swapOut", "swapIn", "sweep", "site", "up", "ready">>)
           /\ (At("swapOut") => op.cmd = "stage" /\ op.todo =
                <<"swapOut", "swapIn", "sweep", "site", "up", "ready">>)
           /\ (At("swapIn") => op.cmd = "stage" /\ op.todo =
                <<"swapIn", "sweep", "site", "up", "ready">>)
           /\ (At("site") => op.cmd = "stage" /\ op.todo =
                <<"site", "up", "ready">>)
           /\ (At("up") => op.cmd = "stage" /\ op.todo =
                <<"up", "ready">>)
           /\ (At("ready") => op.cmd = "stage" /\ op.todo =
                <<"ready">>)
           /\ (At("open") => op.cmd = "promote" /\ op.todo =
                <<"open", "switch", "replace", "retire", "close">>)
           /\ (At("switch") => op.cmd = "promote" /\ op.todo =
                <<"switch", "replace", "retire", "close">>)
           /\ (At("replace") => op.cmd = "promote" /\ op.todo =
                <<"replace", "retire", "close">>)
           /\ (At("retire") => op.cmd = "promote" /\ op.todo =
                <<"retire", "close">>)
           /\ (At("announce") => op.cmd = "promote" /\ op.todo =
                <<"announce", "tell", "drop", "discard">>)
           /\ (At("tell") => op.cmd = "promote" /\ op.todo =
                <<"tell", "drop", "discard">>)
           /\ (At("finish") => op.cmd = "promote" /\ op.todo =
                <<"finish">>)
           /\ (At("decide") => op.cmd = "promote" /\ op.todo =
                <<"decide">>)
<1> USE DEF At, Idle, Ops, ToBuild, Staging, ToSwap, ToReady, ToTakeDown, Takedown, ToRetire, ToAnnounce,
      Announcing, Nobody
<1>1. At("build") => op.cmd = "stage" /\ op.todo =
        <<"build", "unready", "down", "swapOut", "swapIn", "sweep", "site", "up", "ready">>
  OBVIOUS
<1>2. At("unready") => op.cmd = "stage" /\ op.todo =
        <<"unready", "down", "swapOut", "swapIn", "sweep", "site", "up", "ready">>
  OBVIOUS
<1>3. At("swapOut") => op.cmd = "stage" /\ op.todo =
        <<"swapOut", "swapIn", "sweep", "site", "up", "ready">>
  OBVIOUS
<1>4. At("swapIn") => op.cmd = "stage" /\ op.todo =
        <<"swapIn", "sweep", "site", "up", "ready">>
  OBVIOUS
<1>5. At("site") => op.cmd = "stage" /\ op.todo =
        <<"site", "up", "ready">>
  OBVIOUS
<1>6. At("up") => op.cmd = "stage" /\ op.todo =
        <<"up", "ready">>
  OBVIOUS
<1>7. At("ready") => op.cmd = "stage" /\ op.todo =
        <<"ready">>
  OBVIOUS
<1>8. At("open") => op.cmd = "promote" /\ op.todo =
        <<"open", "switch", "replace", "retire", "close">>
  OBVIOUS
<1>9. At("switch") => op.cmd = "promote" /\ op.todo =
        <<"switch", "replace", "retire", "close">>
  OBVIOUS
<1>10. At("replace") => op.cmd = "promote" /\ op.todo =
        <<"replace", "retire", "close">>
  OBVIOUS
<1>11. At("retire") => op.cmd = "promote" /\ op.todo =
        <<"retire", "close">>
  OBVIOUS
<1>12. At("announce") => op.cmd = "promote" /\ op.todo =
        <<"announce", "tell", "drop", "discard">>
  OBVIOUS
<1>13. At("tell") => op.cmd = "promote" /\ op.todo =
        <<"tell", "drop", "discard">>
  OBVIOUS
<1>14. At("finish") => op.cmd = "promote" /\ op.todo =
        <<"finish">>
  OBVIOUS
<1>15. At("decide") => op.cmd = "promote" /\ op.todo =
        <<"decide">>
  OBVIOUS
<1>16. QED
  BY <1>1, <1>2, <1>3, <1>4, <1>5, <1>6, <1>7, <1>8, <1>9, <1>10, <1>11, <1>12, <1>13, <1>14, <1>15

------------------------------------------------------------------------------
(* A step keeps the invariant.                                             *)

\* The lists a command puts together.
LEMMA Lists ==
    /\ <<"sweep">> \o Takedown = <<"sweep", "down", "unsite", "drop", "discard">>
    /\ <<"close">> \o Takedown = <<"close", "down", "unsite", "drop", "discard">>
    /\ <<"close">> \o Announcing =
         <<"close", "down", "unsite", "announce", "tell", "drop", "discard">>
    /\ <<>> \o Takedown = Takedown /\ <<>> \o Announcing = Announcing
    /\ SubSeq(<<"announce", "tell", "drop", "discard">>, 3, 4) = <<"drop", "discard">>
<1>1. /\ <<"sweep">> \in Seq(Steps) /\ <<"close">> \in Seq(Steps)
      /\ Takedown \in Seq(Steps) /\ Announcing \in Seq(Steps)
      /\ <<"sweep", "down", "unsite", "drop", "discard">> \in Seq(Steps)
      /\ <<"close", "down", "unsite", "drop", "discard">> \in Seq(Steps)
      /\ <<"close", "down", "unsite", "announce", "tell", "drop", "discard">> \in Seq(Steps)
      /\ <<"drop", "discard">> \in Seq(Steps)
  BY DEF Takedown, Announcing, Steps, MayFail
<1>2. <<"sweep">> \o Takedown = <<"sweep", "down", "unsite", "drop", "discard">>
  <2> DEFINE s == <<"sweep">> \o Takedown
             t == <<"sweep", "down", "unsite", "drop", "discard">>
  <2>1. s \in Seq(Steps) /\ t \in Seq(Steps)
    BY <1>1, ConcatProperties
  <2>2. Len(s) = 5 /\ Len(t) = 5 /\ \A i \in 1 .. 5 : s[i] = t[i]
    BY DEF Takedown
  <2>3. QED
    BY <2>1, <2>2, SeqEqual
<1>3. <<"close">> \o Takedown = <<"close", "down", "unsite", "drop", "discard">>
  <2> DEFINE s == <<"close">> \o Takedown
             t == <<"close", "down", "unsite", "drop", "discard">>
  <2>1. s \in Seq(Steps) /\ t \in Seq(Steps)
    BY <1>1, ConcatProperties
  <2>2. Len(s) = 5 /\ Len(t) = 5 /\ \A i \in 1 .. 5 : s[i] = t[i]
    BY DEF Takedown
  <2>3. QED
    BY <2>1, <2>2, SeqEqual
<1>4. <<"close">> \o Announcing =
        <<"close", "down", "unsite", "announce", "tell", "drop", "discard">>
  <2> DEFINE s == <<"close">> \o Announcing
             t == <<"close", "down", "unsite", "announce", "tell", "drop", "discard">>
  <2>1. s \in Seq(Steps) /\ t \in Seq(Steps)
    BY <1>1, ConcatProperties
  <2>2. Len(s) = 7 /\ Len(t) = 7 /\ \A i \in 1 .. 7 : s[i] = t[i]
    BY DEF Announcing
  <2>3. QED
    BY <2>1, <2>2, SeqEqual
<1>5. <<>> \o Takedown = Takedown /\ <<>> \o Announcing = Announcing
  BY <1>1, ConcatEmptySeq
<1>6. SubSeq(<<"announce", "tell", "drop", "discard">>, 3, 4) = <<"drop", "discard">>
  <2> DEFINE u == <<"announce", "tell", "drop", "discard">>
             s == SubSeq(u, 3, 4)
             t == <<"drop", "discard">>
  <2>1. /\ \A i \in 3 .. 4 : u[i] \in Steps
        /\ u[3] = "drop" /\ u[4] = "discard"
    BY DEF Steps, MayFail
  <2> HIDE DEF u
  <2>2. s \in Seq(Steps) /\ Len(s) = 2 /\ s[1] = u[3] /\ s[2] = u[4]
    <3>1. /\ s \in Seq(Steps) /\ Len(s) = 4 - 3 + 1
          /\ \A i \in 1 .. 4 - 3 + 1 : s[i] = u[3 + i - 1]
      BY <2>1, SubSeqProperties
    <3>2. QED
      BY <3>1
  <2> HIDE DEF s
  <2>3. Len(t) = 2 /\ t[1] = "drop" /\ t[2] = "discard"
    OBVIOUS
  <2>4. Len(s) = Len(t) /\ \A i \in 1 .. Len(s) : s[i] = t[i]
    BY <2>1, <2>2, <2>3
  <2>5. s = t
    BY <1>1, <2>2, <2>4, SeqEqual
  <2>6. QED
    BY <2>5 DEF s, u
<1>7. QED
  BY <1>2, <1>3, <1>4, <1>5, <1>6

\* A command that goes on has the rest of its list left.
LEMMA Rest ==
    ASSUME Done
    PROVE  op' = IF Tail(op.todo) = <<>> THEN Nobody ELSE [cmd |-> op.cmd, todo |-> Tail(op.todo)]
  BY DEF Done, Goes, Left

\* A command that ends, here or with an error, relies on nothing.
LEMMA Ended == op' = Nobody => Doing'
  BY DEF Nobody, Doing, Ops

\* Neither does a takedown.
LEMMA TakingDown ==
    ASSUME NEW cmd \in {"cleanup", "unstage", "failed"},
           NEW t \in ToTakeDown \cup {<<"sweep">>, <<"sweep", "down", "unsite", "drop", "discard">>},
           cmd = "failed" => t \in ToTakeDown,
           op' = [cmd |-> cmd, todo |-> t]
    PROVE  Doing'
<1>1. op' \in Ops
  BY DEF Ops
<1>2. t \in ToTakeDown => Head(t) # "close"
  BY DEF ToTakeDown, Takedown
<1>3. QED
  BY <1>1, <1>2 DEF Doing

LEMMA StageGoesOn ==
    ASSUME NEW t \in ToBuild \cup ToSwap \cup ToReady,
           op' = [cmd |-> "stage", todo |-> t], StageDoing'
    PROVE  Doing'
<1>1. op' \in Ops
  BY DEF Ops
<1>2. QED
  BY <1>1 DEF Doing

LEMMA PromoteGoesOn ==
    ASSUME NEW t \in {<<"finish">>, <<"sweep", "decide">>, <<"decide">>, <<"close">>,
                      <<"close", "down", "unsite", "announce", "tell", "drop", "discard">>}
                     \cup ToRetire \cup ToAnnounce \cup {<<"drop", "discard">>, <<"discard">>},
           op' = [cmd |-> "promote", todo |-> t], PromoteDoing'
    PROVE  Doing'
<1>1. op' \in Ops
  BY DEF Ops
<1>2. QED
  BY <1>1 DEF Doing

LEMMA StageStep == ASSUME Safe, Stage PROVE Safe'
<1>1. /\ op' = [cmd |-> "stage", todo |-> Staging] /\ txn = Closed /\ built < MaxStages
      /\ UNCHANGED <<slot, building, debris, outside, history, faults>>
  BY DEF Stage, Begin
<1>2. Files' /\ BuildingSound' /\ SlotSound' /\ ToldSound'
  BY <1>1 DEF Safe, SlotInv, Files, BuildingSound, SlotSound, ToldSound, outside, history
<1>3. StageDoing'
  <2>1. Len(Staging) = 10
    BY DEF Staging
  <2>2. txn' = txn /\ built' = built
    BY <1>1 DEF outside, history
  <2>3. Len(op'.todo) = 10
    BY <1>1, <2>1
  <2>4. txn' = Closed /\ built' < MaxStages
    BY <1>1, <2>2
  <2>5. QED
    BY <2>3, <2>4 DEF StageDoing, Fresh
<1>4. Staging \in ToBuild
  BY DEF ToBuild
<1>5. QED
  BY <1>1, <1>2, <1>3, <1>4, StageGoesOn DEF Safe, SlotInv

LEMMA PromoteStep == ASSUME Safe, Promote PROVE Safe'
<1>1. UNCHANGED <<slot, building, debris, outside, history, faults>>
  BY DEF Promote
<1>2. Files' /\ BuildingSound' /\ SlotSound' /\ ToldSound'
  BY <1>1 DEF Safe, SlotInv, Files, BuildingSound, SlotSound, ToldSound, outside, history
<1>3. CASE slot = NoSlot /\ debris.promoted # NoSlot
  <2>1. op' = [cmd |-> "promote", todo |-> <<"finish">>]
    BY <1>3 DEF Promote, Begin
  <2>2. PromoteDoing'
    BY <1>1, <1>3, <2>1 DEF PromoteDoing
  <2>3. Doing'
    BY <2>1, <2>2, PromoteGoesOn
  <2>4. QED
    BY <1>2, <2>3 DEF Safe, SlotInv
<1>4. CASE slot # NoSlot
  <2>1. op' = [cmd |-> "promote", todo |-> <<"sweep", "decide">>]
    BY <1>4 DEF Promote, Begin
  <2>2. PromoteDoing'
    BY <1>1, <1>4, <2>1 DEF PromoteDoing
  <2>3. Doing'
    BY <2>1, <2>2, PromoteGoesOn
  <2>4. QED
    BY <1>2, <2>3 DEF Safe, SlotInv
<1>5. QED
  BY <1>3, <1>4 DEF Promote

LEMMA UnstageStep == ASSUME Safe, Unstage PROVE Safe'
<1>1. UNCHANGED <<slot, building, debris, outside, history, faults>>
  BY DEF Unstage
<1>2. Files' /\ BuildingSound' /\ SlotSound' /\ ToldSound'
  BY <1>1 DEF Safe, SlotInv, Files, BuildingSound, SlotSound, ToldSound, outside, history
<1>3. <<"sweep">> \o Takedown = <<"sweep", "down", "unsite", "drop", "discard">>
  BY Lists
<1>4. \E t \in {<<"sweep">>, <<"sweep", "down", "unsite", "drop", "discard">>} :
         op' = [cmd |-> "unstage", todo |-> t]
  BY <1>3 DEF Unstage, Begin
<1>5. Doing'
  BY <1>4, TakingDown
<1>6. QED
  BY <1>2, <1>5 DEF Safe, SlotInv

LEMMA OtherInstallStep == ASSUME Safe, OtherInstall PROVE Safe'
<1>1. /\ op = Nobody /\ op' = Nobody
      /\ txn' \in {Closed} \cup [id : {0}, at : {"begun", "switching"}]
      /\ building' = NoSlot /\ debris' = [discarded |-> NoSlot, promoted |-> NoSlot]
      /\ UNCHANGED <<slot, staging, site, history, faults>>
  BY DEF OtherInstall, Idle
<1>2. Files'
  <2>1. txn' \in {Closed} \cup [id : 0 .. MaxStages, at : {"begun", "switching"}]
    BY <1>1, BoundsAssumption
  <2>2. QED
    BY <1>1, <2>1 DEF Safe, Files, SlotTypes, NoSlot, history
<1>3. BuildingSound'
  BY <1>1 DEF Safe, SlotInv, BuildingSound, history
<1>4. SlotSound'
  <2>1. txn'.id = 0
    BY <1>1 DEF Closed
  <2>2. slot.id \in over => slot.id # 0
    BY DEF Safe, Files, Slots
  <2>3. QED
    BY <1>1, <2>1, <2>2 DEF Safe, SlotInv, SlotSound, history
<1>5. ToldSound'
  BY <1>1 DEF Safe, SlotInv, ToldSound, history
<1>6. QED
  BY <1>1, <1>2, <1>3, <1>4, <1>5, Ended DEF Safe, SlotInv

LEMMA KillStep == ASSUME Safe, Kill PROVE Safe'
<1>1. /\ op' = Nobody /\ faults' = faults + 1 /\ faults < MaxFaults
      /\ UNCHANGED <<slot, building, debris, outside, history>>
  BY DEF Kill
<1>2. faults' \in 0 .. MaxFaults
  BY <1>1, BoundsAssumption DEF Safe, Files
<1>3. Files' /\ BuildingSound' /\ SlotSound' /\ ToldSound'
  BY <1>1, <1>2
     DEF Safe, SlotInv, Files, BuildingSound, SlotSound, ToldSound, outside, history
<1>4. QED
  BY <1>1, <1>3, Ended DEF Safe, SlotInv

\* Where a stage or a promote sweeps.
LEMMA SweepPlaces ==
    ASSUME op \in Ops, At("sweep")
    PROVE  \/ op.cmd = "stage" /\ op.todo = Staging
           \/ op.cmd = "stage" /\ op.todo = <<"sweep", "site", "up", "ready">>
           \/ op.cmd = "promote" /\ op.todo = <<"sweep", "decide">>
           \/ /\ op.cmd \in {"cleanup", "unstage"}
              /\ op.todo \in {<<"sweep">>, <<"sweep", "down", "unsite", "drop", "discard">>}
  BY DEF At, Idle, Ops, ToBuild, Staging, ToSwap, ToReady, ToTakeDown, Takedown, ToRetire,
         ToAnnounce, Announcing, Nobody

LEMMA SweepsStep == ASSUME Safe, Sweeps PROVE Safe'
<1>1. /\ Done /\ building' = NoSlot
      /\ debris' = [discarded |-> NoSlot, promoted |-> NoSlot]
      /\ txn' = txn /\ built' = built /\ slot' = slot /\ over' = over
      /\ UNCHANGED <<staging, site, result, told, faults>>
      /\ said' = said \cup (IF At("finish") THEN {debris.promoted.id} ELSE {})
  BY DEF Sweeps, outside
<1>2. op \in Ops
  BY DEF Safe, SlotInv, Doing
<1>3. At("finish") =>
        /\ op.cmd = "promote" /\ op.todo = <<"finish">> /\ debris.promoted # NoSlot
        /\ debris.promoted.id \in Slots
        /\ debris.promoted.id \in over /\ result[debris.promoted.id] = "ok"
  <2>1. At("finish") => op.cmd = "promote" /\ op.todo = <<"finish">>
    BY <1>2, Places
  <2>2. At("finish") => debris.promoted # NoSlot
    BY <2>1 DEF At, Safe, SlotInv, Doing, PromoteDoing
  <2>3. QED
    BY <2>1, <2>2 DEF Safe, SlotInv, ToldSound, Files, SlotTypes
<1>4. Files'
  BY <1>1, <1>3 DEF Safe, Files, SlotTypes, NoSlot
<1>5. BuildingSound' /\ SlotSound'
  BY <1>1 DEF Safe, SlotInv, BuildingSound, SlotSound
<1>6. ToldSound'
  BY <1>1, <1>3 DEF Safe, SlotInv, ToldSound
<1>7. Doing'
  <2>1. CASE At("finish")
    <3>1. op.todo = <<"finish">>
      BY <1>3, <2>1
    <3>2. Tail(op.todo) = <<>>
      BY <3>1
    <3>3. QED
      BY <1>1, <3>2, Rest, Ended
  <2>2. CASE op.cmd = "stage" /\ op.todo = Staging
    <3>1. op' = [cmd |-> "stage", todo |-> <<"build", "unready", "down", "swapOut", "swapIn",
                                            "sweep", "site", "up", "ready">>]
      BY <1>1, <2>2, Rest DEF Staging
    <3>2. txn = Closed /\ built < MaxStages
      BY <2>2 DEF Safe, SlotInv, Doing, StageDoing, Staging
    <3>3. StageDoing'
      BY <1>1, <3>1, <3>2 DEF StageDoing
    <3>4. QED
      BY <3>1, <3>3, StageGoesOn DEF ToBuild
  <2>3. CASE op.cmd = "stage" /\ op.todo = <<"sweep", "site", "up", "ready">>
    <3>1. op' = [cmd |-> "stage", todo |-> <<"site", "up", "ready">>]
      BY <1>1, <2>3, Rest
    <3>2. txn = Closed /\ Fresh
      BY <2>3 DEF Safe, SlotInv, Doing, StageDoing
    <3>3. StageDoing'
      BY <1>1, <3>1, <3>2 DEF StageDoing, Fresh
    <3>4. QED
      BY <3>1, <3>3, StageGoesOn DEF ToReady
  <2>4. CASE op.cmd = "promote" /\ op.todo = <<"sweep", "decide">>
    <3>1. op' = [cmd |-> "promote", todo |-> <<"decide">>]
      BY <1>1, <2>4, Rest
    <3>2. slot # NoSlot
      BY <2>4 DEF Safe, SlotInv, Doing, PromoteDoing
    <3>3. PromoteDoing'
      BY <1>1, <3>1, <3>2 DEF PromoteDoing
    <3>4. QED
      BY <3>1, <3>3, PromoteGoesOn
  <2>5. CASE /\ op.cmd \in {"cleanup", "unstage"}
             /\ op.todo \in {<<"sweep">>, <<"sweep", "down", "unsite", "drop", "discard">>}
    <3>1. CASE op.todo = <<"sweep">>
      <4>1. op' = Nobody
        BY <1>1, <3>1, Rest
      <4>2. QED
        BY <4>1, Ended
    <3>2. CASE op.todo = <<"sweep", "down", "unsite", "drop", "discard">>
      <4>1. op' = [cmd |-> op.cmd, todo |-> Takedown]
        BY <1>1, <3>2, Rest DEF Takedown
      <4>2. QED
        BY <2>5, <4>1, TakingDown DEF ToTakeDown
    <3>3. QED
      BY <2>5, <3>1, <3>2
  <2>6. QED
    BY <1>2, <2>1, <2>2, <2>3, <2>4, <2>5, SweepPlaces DEF Sweeps
<1>8. QED
  BY <1>4, <1>5, <1>6, <1>7 DEF Safe, SlotInv

LEMMA BuildsStep == ASSUME Safe, Builds PROVE Safe'
<1>1. /\ op.cmd = "stage" /\ Done
      /\ op.todo = <<"build", "unready", "down", "swapOut", "swapIn", "sweep", "site", "up", "ready">>
  BY Places DEF Builds, Safe, SlotInv, Doing
<1>2. /\ building' = [NoSlot EXCEPT !.id = built + 1, !.state = "starting"]
      /\ built' = built + 1 /\ txn' = txn /\ slot' = slot /\ over' = over
      /\ UNCHANGED <<debris, staging, site, result, told, said, faults>>
  BY DEF Builds, outside
<1>3. txn = Closed /\ built < MaxStages
  BY <1>1 DEF Safe, SlotInv, Doing, StageDoing
<1>4. built + 1 \in Slots /\ built \in Nat
  BY <1>3, BoundsAssumption DEF Safe, Files, Slots
<1>5. /\ building'.id = built + 1 /\ building'.state = "starting"
      /\ building' \in SlotTypes \ {NoSlot}
  BY <1>2, <1>4 DEF NoSlot, SlotTypes
<1>6. Files'
  BY <1>2, <1>4, <1>5 DEF Safe, Files, Slots
<1>7. over \subseteq 1 .. built /\ slot.id \in 0 .. built
  BY <1>4 DEF Safe, SlotInv, ToldSound, BuildingSound, Files, SlotTypes, NoSlot, Slots
<1>8. BuildingSound' /\ SlotSound' /\ ToldSound'
  <2>1. BuildingSound'
    BY <1>2, <1>4, <1>5, <1>7 DEF BuildingSound
  <2>2. SlotSound'
    BY <1>2 DEF Safe, SlotInv, SlotSound
  <2>3. over \subseteq 1 .. (built + 1)
    BY <1>4, <1>7
  <2>4. ToldSound'
    BY <1>2, <2>3 DEF Safe, SlotInv, ToldSound
  <2>5. QED
    BY <2>1, <2>2, <2>4
<1>9. Doing'
  <2>1. op' = [cmd |-> "stage", todo |-> <<"unready", "down", "swapOut", "swapIn", "sweep",
                                          "site", "up", "ready">>]
    BY <1>1, Rest
  <2>2. StageDoing'
    BY <1>2, <1>3, <1>5, <2>1 DEF StageDoing
  <2>3. QED
    BY <2>1, <2>2, StageGoesOn DEF ToSwap
<1>10. QED
  BY <1>6, <1>8, <1>9 DEF Safe, SlotInv

LEMMA RetiresOldStep == ASSUME Safe, RetiresOld PROVE Safe'
<1>1. /\ op.cmd = "stage" /\ Done
      /\ op.todo = <<"unready", "down", "swapOut", "swapIn", "sweep", "site", "up", "ready">>
  BY Places DEF RetiresOld, Safe, SlotInv, Doing
<1>2. /\ building' = building /\ built' = built /\ txn' = txn /\ over' = over
      /\ UNCHANGED <<debris, staging, site, result, told, said, faults>>
  BY DEF RetiresOld, outside, history
<1>3. txn = Closed /\ building # NoSlot
  BY <1>1 DEF Safe, SlotInv, Doing, StageDoing
<1>4. \/ slot' = slot
      \/ slot # NoSlot /\ slot' = [slot EXCEPT !.state = "starting", !.rc = "none"]
  BY DEF RetiresOld, Updated
<1>5. /\ slot' \in SlotTypes /\ slot'.id = slot.id /\ slot'.announced = slot.announced
      /\ slot' = slot \/ (slot # NoSlot /\ slot'.state = "starting")
  BY <1>4 DEF Safe, Files, SlotTypes, NoSlot
<1>6. Files'
  BY <1>2, <1>5 DEF Safe, Files
<1>7. BuildingSound' /\ ToldSound'
  BY <1>2, <1>5 DEF Safe, SlotInv, BuildingSound, ToldSound
<1>8. SlotSound'
  <2>1. slot # NoSlot => txn.id # slot.id
    BY <1>3 DEF Closed, Safe, Files, SlotTypes, Slots
  <2>2. QED
    BY <1>2, <1>5, <2>1 DEF Safe, SlotInv, SlotSound
<1>9. Doing'
  <2>1. op' = [cmd |-> "stage", todo |-> <<"down", "swapOut", "swapIn", "sweep", "site", "up",
                                          "ready">>]
    BY <1>1, Rest
  <2>2. StageDoing'
    BY <1>2, <1>3, <2>1 DEF StageDoing
  <2>3. QED
    BY <2>1, <2>2, StageGoesOn DEF ToSwap
<1>10. QED
  BY <1>6, <1>7, <1>8, <1>9 DEF Safe, SlotInv

LEMMA SwapsOutStep == ASSUME Safe, SwapsOut PROVE Safe'
<1>1. /\ op.cmd = "stage" /\ Done
      /\ op.todo = <<"swapOut", "swapIn", "sweep", "site", "up", "ready">>
  BY Places DEF SwapsOut, Safe, SlotInv, Doing
<1>2. /\ slot' = NoSlot /\ debris' = [debris EXCEPT !.discarded = slot]
      /\ building' = building /\ built' = built /\ txn' = txn /\ over' = over
      /\ UNCHANGED <<staging, site, result, told, said, faults>>
  BY DEF SwapsOut, outside, history
<1>3. txn = Closed /\ building # NoSlot
  BY <1>1 DEF Safe, SlotInv, Doing, StageDoing
<1>4. debris' \in [discarded : SlotTypes, promoted : SlotTypes] /\ debris'.promoted = debris.promoted
  BY <1>2 DEF Safe, Files
<1>5. Files'
  BY <1>2, <1>4 DEF Safe, Files, SlotTypes
<1>6. BuildingSound'
  BY <1>2, BoundsAssumption DEF Safe, SlotInv, BuildingSound, Files, NoSlot, SlotTypes, Slots
<1>7. SlotSound' /\ ToldSound'
  BY <1>2, <1>4 DEF Safe, SlotInv, SlotSound, ToldSound, NoSlot, Files, Slots
<1>8. Doing'
  <2>1. op' = [cmd |-> "stage", todo |-> <<"swapIn", "sweep", "site", "up", "ready">>]
    BY <1>1, Rest
  <2>2. StageDoing'
    BY <1>2, <1>3, <2>1 DEF StageDoing
  <2>3. QED
    BY <2>1, <2>2, StageGoesOn DEF ToSwap
<1>9. QED
  BY <1>5, <1>6, <1>7, <1>8 DEF Safe, SlotInv

LEMMA SwapsInStep == ASSUME Safe, SwapsIn PROVE Safe'
<1>1. /\ op.cmd = "stage" /\ Done
      /\ op.todo = <<"swapIn", "sweep", "site", "up", "ready">>
  BY Places DEF SwapsIn, Safe, SlotInv, Doing
<1>2. /\ slot' = building /\ building' = NoSlot
      /\ debris' = debris /\ built' = built /\ txn' = txn /\ over' = over
      /\ UNCHANGED <<staging, site, result, told, said, faults>>
  BY DEF SwapsIn, outside, history
<1>3. txn = Closed /\ building # NoSlot
  BY <1>1 DEF Safe, SlotInv, Doing, StageDoing
<1>4. /\ building \in SlotTypes /\ building.state = "starting"
      /\ building.id \in 1 .. built /\ building.id \notin over /\ building.id \in Slots
  BY <1>3 DEF Safe, SlotInv, BuildingSound, Files, SlotTypes, NoSlot
<1>5. Files'
  BY <1>2, <1>4 DEF Safe, Files, SlotTypes, NoSlot
<1>6. BuildingSound' /\ SlotSound' /\ ToldSound'
  <2>1. BuildingSound'
    BY <1>2, <1>4, BoundsAssumption DEF BuildingSound, Safe, Files, NoSlot
  <2>2. SlotSound'
    BY <1>2, <1>4 DEF SlotSound
  <2>3. ToldSound'
    BY <1>2, <1>4 DEF Safe, SlotInv, ToldSound
  <2>4. QED
    BY <2>1, <2>2, <2>3
<1>7. Doing'
  <2>1. op' = [cmd |-> "stage", todo |-> <<"sweep", "site", "up", "ready">>]
    BY <1>1, Rest
  <2>2. StageDoing'
    BY <1>2, <1>3, <1>4, <2>1 DEF StageDoing, Fresh
  <2>3. QED
    BY <2>1, <2>2, StageGoesOn DEF ToReady
<1>8. QED
  BY <1>5, <1>6, <1>7 DEF Safe, SlotInv

LEMMA BringsUpStep == ASSUME Safe, BringsUp PROVE Safe'
<1>1. op.cmd = "stage" /\ Done /\ op.todo \in {<<"site", "up", "ready">>, <<"up", "ready">>}
  BY Places DEF BringsUp, Safe, SlotInv, Doing
<1>2. /\ site' \in BOOLEAN /\ staging' \in {staging, slot.id}
      /\ slot' = slot /\ building' = building /\ debris' = debris /\ txn' = txn
      /\ UNCHANGED <<built, result, over, told, said, faults>>
  BY DEF BringsUp, history, Safe, Files
<1>3. txn = Closed /\ Fresh
  <2>1. CASE op.todo = <<"site", "up", "ready">>
    BY <1>1, <2>1 DEF Safe, SlotInv, Doing, StageDoing
  <2>2. CASE op.todo = <<"up", "ready">>
    BY <1>1, <2>2 DEF Safe, SlotInv, Doing, StageDoing
  <2>3. QED
    BY <1>1, <2>1, <2>2
<1>4. Files'
  <2>1. slot.id \in 0 .. MaxStages
    BY BoundsAssumption DEF Safe, Files, SlotTypes, NoSlot, Slots
  <2>2. QED
    BY <1>2, <2>1 DEF Safe, Files
<1>5. BuildingSound' /\ SlotSound' /\ ToldSound'
  BY <1>2 DEF Safe, SlotInv, BuildingSound, SlotSound, ToldSound
<1>6. Doing'
  <2>1. txn' = Closed /\ Fresh'
    BY <1>2, <1>3 DEF Fresh
  <2>2. CASE op.todo = <<"site", "up", "ready">>
    <3>1. op' = [cmd |-> "stage", todo |-> <<"up", "ready">>]
      BY <1>1, <2>2, Rest
    <3>2. StageDoing'
      BY <2>1, <3>1 DEF StageDoing
    <3>3. QED
      BY <3>1, <3>2, StageGoesOn DEF ToReady
  <2>3. CASE op.todo = <<"up", "ready">>
    <3>1. op' = [cmd |-> "stage", todo |-> <<"ready">>]
      BY <1>1, <2>3, Rest
    <3>2. StageDoing'
      BY <2>1, <3>1 DEF StageDoing
    <3>3. QED
      BY <3>1, <3>2, StageGoesOn DEF ToReady
  <2>4. QED
    BY <1>1, <2>2, <2>3
<1>7. QED
  BY <1>4, <1>5, <1>6 DEF Safe, SlotInv

LEMMA MarksReadyStep == ASSUME Safe, MarksReady PROVE Safe'
<1>1. op.cmd = "stage" /\ Done /\ op.todo = <<"ready">>
  BY Places DEF MarksReady, Safe, SlotInv, Doing
<1>2. /\ slot' = [slot EXCEPT !.state = "ready", !.rc = "none"]
      /\ building' = building /\ debris' = debris /\ over' = over /\ built' = built
      /\ UNCHANGED <<txn, staging, site, result, told, said, faults>>
  BY DEF MarksReady, Updated, outside, history
<1>3. Fresh
  BY <1>1 DEF Safe, SlotInv, Doing, StageDoing
<1>4. /\ slot' \in SlotTypes /\ slot'.id = slot.id /\ slot'.announced = slot.announced
      /\ slot'.state = "ready"
  BY <1>2, <1>3 DEF Safe, Files, SlotTypes, Fresh
<1>5. Files'
  BY <1>2, <1>4 DEF Safe, Files
<1>6. BuildingSound' /\ SlotSound' /\ ToldSound'
  BY <1>2, <1>3, <1>4 DEF Safe, SlotInv, BuildingSound, SlotSound, ToldSound, Fresh
<1>7. Doing'
  <2>1. op' = Nobody
    BY <1>1, Rest
  <2>2. QED
    BY <2>1, Ended
<1>8. QED
  BY <1>5, <1>6, <1>7 DEF Safe, SlotInv

\* A slot that is not retired and may be promoted was never switched to.
LEMMA MayPromote ==
    ASSUME Safe, slot # NoSlot, slot.state # "retired", slot.state = "starting" => Resuming
    PROVE  Fresh
  BY DEF Safe, SlotInv, SlotSound, Fresh, Resuming

LEMMA DecidesStep == ASSUME Safe, Decides PROVE Safe'
<1>1. op.cmd = "promote" /\ op.todo = <<"decide">>
  BY Places DEF Decides, Safe, SlotInv, Doing
<1>2. UNCHANGED <<slot, building, debris, txn, staging, site, built, result, over, told, said, faults>>
  BY DEF Decides, outside, history
<1>3. Files' /\ BuildingSound' /\ SlotSound' /\ ToldSound'
  BY <1>2 DEF Safe, SlotInv, Files, BuildingSound, SlotSound, ToldSound
<1>4. slot # NoSlot
  BY <1>1 DEF Safe, SlotInv, Doing, PromoteDoing
<1>5. CASE ~Readable(slot) \/ (slot.state = "starting" /\ ~Resuming)
  <2>1. op' = Nobody
    BY <1>5 DEF Decides, Goes, Left
  <2>2. QED
    BY <1>3, <2>1, Ended DEF Safe, SlotInv
<1>6. CASE Readable(slot) /\ slot.state = "retired"
  <2>1. op' = [cmd |-> IF slot.rc = "ok" THEN "promote" ELSE "failed",
               todo |-> (IF Resuming THEN <<"close">> ELSE <<>>) \o
                        (IF slot.rc = "ok" THEN Announcing ELSE Takedown)]
    BY <1>6 DEF Decides
  <2>2. Retired
    BY <1>4, <1>6 DEF Retired
  <2>3. CASE slot.rc = "ok" /\ Resuming
    <3>1. op' = [cmd |-> "promote", todo |-> <<"close", "down", "unsite", "announce", "tell",
                                              "drop", "discard">>]
      BY <2>1, <2>3, Lists
    <3>2. PromoteDoing'
      BY <1>2, <2>2, <2>3, <3>1 DEF PromoteDoing, Retired
    <3>3. Doing'
      BY <3>1, <3>2, PromoteGoesOn
    <3>4. QED
      BY <1>3, <3>3 DEF Safe, SlotInv
  <2>4. CASE slot.rc = "ok" /\ ~Resuming
    <3>1. op' = [cmd |-> "promote", todo |-> Announcing]
      BY <2>1, <2>4, Lists
    <3>2. Head(Announcing) = "down"
      BY DEF Announcing
    <3>3. PromoteDoing'
      BY <1>2, <2>2, <2>4, <3>1, <3>2 DEF PromoteDoing, Retired
    <3>4. Doing'
      BY <3>1, <3>3, PromoteGoesOn DEF ToAnnounce
    <3>5. QED
      BY <1>3, <3>4 DEF Safe, SlotInv
  <2>5. CASE slot.rc # "ok" /\ Resuming
    <3>1. op' = [cmd |-> "failed", todo |-> <<"close", "down", "unsite", "drop", "discard">>]
      BY <2>1, <2>5, Lists
    <3>2. op' \in Ops
      BY <3>1 DEF Ops
    <3>3. Doing'
      BY <1>2, <2>2, <2>5, <3>1, <3>2 DEF Doing, Retired
    <3>4. QED
      BY <1>3, <3>3 DEF Safe, SlotInv
  <2>6. CASE slot.rc # "ok" /\ ~Resuming
    <3>1. op' = [cmd |-> "failed", todo |-> Takedown]
      BY <2>1, <2>6, Lists
    <3>2. Doing'
      BY <3>1, TakingDown DEF ToTakeDown
    <3>3. QED
      BY <1>3, <3>2 DEF Safe, SlotInv
  <2>7. QED
    BY <2>3, <2>4, <2>5, <2>6
<1>7. CASE ~(~Readable(slot) \/ (slot.state = "starting" /\ ~Resuming)) /\ slot.state # "retired"
  <2>1. Fresh
    BY <1>4, <1>7, MayPromote
  <2>2. \/ op' = [cmd |-> "promote", todo |-> <<"replace", "retire", "close">>]
        \/ op' = [cmd |-> "promote", todo |-> <<"open", "switch", "replace", "retire", "close">>]
    BY <1>1, <1>7 DEF Decides, Goes, Left
  <2>3. CASE op' = [cmd |-> "promote", todo |-> <<"replace", "retire", "close">>]
    <3>1. PromoteDoing'
      BY <1>2, <2>1, <2>3 DEF PromoteDoing, Fresh
    <3>2. Doing'
      BY <2>3, <3>1, PromoteGoesOn DEF ToRetire
    <3>3. QED
      BY <1>3, <3>2 DEF Safe, SlotInv
  <2>4. CASE op' = [cmd |-> "promote", todo |-> <<"open", "switch", "replace", "retire", "close">>]
    <3>1. PromoteDoing'
      BY <1>2, <2>1, <2>4 DEF PromoteDoing, Fresh
    <3>2. Doing'
      BY <2>4, <3>1, PromoteGoesOn DEF ToRetire
    <3>3. QED
      BY <1>3, <3>2 DEF Safe, SlotInv
  <2>5. QED
    BY <2>2, <2>3, <2>4
<1>8. QED
  BY <1>5, <1>6, <1>7

LEMMA InstallsStep == ASSUME Safe, Installs PROVE Safe'
<1>1. /\ op \in Ops /\ Done
      /\ UNCHANGED <<slot, building, debris, staging, site, built, over, told, said, faults>>
  BY DEF Installs, Safe, SlotInv, Doing
<1>2. op.cmd = "promote" /\ Head(op.todo) \in {"open", "switch", "replace"}
  BY <1>1, Places DEF Installs, At
<1>3. Fresh /\ slot.id \in Slots /\ slot.id \in 0 .. MaxStages
  <2>1. Fresh
    BY <1>2 DEF Safe, SlotInv, Doing, PromoteDoing
  <2>2. QED
    BY <2>1, BoundsAssumption DEF Safe, Files, SlotTypes, Slots, Fresh
<1>4. CASE At("open")
  <2>1. /\ txn' = [id |-> slot.id, at |-> "begun"] /\ result' = result
        /\ op.todo = <<"open", "switch", "replace", "retire", "close">>
    BY <1>1, <1>4, Places DEF Installs, At
  <2>2. Files'
    BY <1>1, <1>3, <2>1 DEF Safe, Files
  <2>3. BuildingSound' /\ SlotSound' /\ ToldSound'
    BY <1>1, <1>3, <2>1 DEF Safe, SlotInv, BuildingSound, SlotSound, ToldSound, Fresh
  <2>4. op' = [cmd |-> "promote", todo |-> <<"switch", "replace", "retire", "close">>]
    BY <1>1, <1>2, <2>1, Rest
  <2>5. PromoteDoing'
    BY <1>1, <1>3, <2>4 DEF PromoteDoing, Fresh
  <2>6. QED
    BY <2>2, <2>3, <2>4, <2>5, PromoteGoesOn DEF ToRetire, Safe, SlotInv
<1>5. CASE At("switch")
  <2>1. /\ txn' = [txn EXCEPT !.at = "switching"] /\ result' = result
        /\ op.todo = <<"switch", "replace", "retire", "close">>
    BY <1>1, <1>5, Places DEF Installs, At
  <2>2. /\ txn' \in {Closed} \cup [id : 0 .. MaxStages, at : {"begun", "switching"}]
        /\ txn'.id = txn.id
    BY <2>1, BoundsAssumption DEF Safe, Files, Closed
  <2>3. Files'
    BY <1>1, <2>1, <2>2 DEF Safe, Files
  <2>4. BuildingSound' /\ SlotSound' /\ ToldSound'
    BY <1>1, <1>3, <2>1 DEF Safe, SlotInv, BuildingSound, SlotSound, ToldSound, Fresh
  <2>5. op' = [cmd |-> "promote", todo |-> <<"replace", "retire", "close">>]
    BY <1>1, <1>2, <2>1, Rest
  <2>6. PromoteDoing'
    BY <1>1, <1>3, <2>5 DEF PromoteDoing, Fresh
  <2>7. QED
    BY <2>3, <2>4, <2>5, <2>6, PromoteGoesOn DEF ToRetire, Safe, SlotInv
<1>6. CASE At("replace")
  <2>1. /\ txn' = txn
        /\ op.todo = <<"replace", "retire", "close">>
    BY <1>1, <1>6, Places DEF Installs, At
  <2>2. PICK rc \in {"ok", "failed"} : result' = [result EXCEPT ![slot.id] = rc]
    BY <1>6 DEF Installs, At
  <2>3. /\ result' \in [Slots -> {"none", "ok", "failed"}] /\ result'[slot.id] # "none"
        /\ \A i \in Slots \ {slot.id} : result'[i] = result[i]
    BY <1>3, <2>2 DEF Safe, Files
  <2>4. Files'
    BY <1>1, <2>1, <2>3 DEF Safe, Files
  <2>5. \A i \in over : result'[i] = result[i]
    BY <1>3, <2>3 DEF Fresh, Safe, Files
  <2>6. BuildingSound' /\ SlotSound'
    BY <1>1, <1>3, <2>1 DEF Safe, SlotInv, BuildingSound, SlotSound, Fresh
  <2>7. ToldSound'
    BY <1>1, <2>5 DEF Safe, SlotInv, ToldSound
  <2>8. op' = [cmd |-> "promote", todo |-> <<"retire", "close">>]
    BY <1>1, <1>2, <2>1, Rest
  <2>9. PromoteDoing'
    BY <1>1, <1>3, <2>3, <2>8 DEF PromoteDoing, Fresh
  <2>10. QED
    BY <2>4, <2>6, <2>7, <2>8, <2>9, PromoteGoesOn DEF ToRetire, Safe, SlotInv
<1>7. QED
  BY <1>4, <1>5, <1>6 DEF Installs

LEMMA RetiresStep == ASSUME Safe, Retires PROVE Safe'
<1>1. op.cmd = "promote" /\ Done /\ op.todo = <<"retire", "close">>
  BY Places DEF Retires, Safe, SlotInv, Doing
<1>2. /\ UNCHANGED <<building, debris, txn, staging, site, built, result, told, said, faults>>
      /\ slot' = [slot EXCEPT !.state = "retired", !.rc = result[slot.id]]
      /\ over' = over \cup {slot.id}
  <2>1. Updated(slot, "retired") = [slot EXCEPT !.state = "retired", !.rc = @]
    BY DEF Updated
  <2>2. slot' = [[slot EXCEPT !.state = "retired", !.rc = @] EXCEPT !.rc = result[slot.id]]
    BY <2>1 DEF Retires
  <2>3. slot \in [id : Slots, state : {"starting", "ready", "retired"},
                  rc : {"none", "ok", "failed"}, announced : BOOLEAN]
    BY <1>1 DEF Safe, SlotInv, Doing, PromoteDoing, Fresh, Files, SlotTypes
  <2>4. slot' = [slot EXCEPT !.state = "retired", !.rc = result[slot.id]]
    BY <2>2, <2>3
  <2>5. QED
    BY <2>4 DEF Retires, outside
<1>3. /\ Fresh /\ slot.id \in Slots /\ result[slot.id] \in {"ok", "failed"}
      /\ slot.id \in 1 .. built
  <2>1. Fresh /\ result[slot.id] # "none"
    BY <1>1 DEF Safe, SlotInv, Doing, PromoteDoing
  <2>2. slot.id \in Slots
    BY <2>1 DEF Safe, Files, SlotTypes, Fresh
  <2>3. QED
    BY <2>1, <2>2, BoundsAssumption DEF Safe, Files, SlotInv, BuildingSound, Slots
<1>4. /\ slot' \in SlotTypes \ {NoSlot} /\ slot'.id = slot.id /\ slot'.state = "retired"
      /\ slot'.rc = result[slot.id] /\ slot'.announced = slot.announced
  BY <1>2, <1>3 DEF Safe, Files, SlotTypes, Fresh, NoSlot
<1>5. Files'
  BY <1>2, <1>3, <1>4 DEF Safe, Files
<1>6. BuildingSound' /\ SlotSound' /\ ToldSound'
  BY <1>2, <1>3, <1>4 DEF Safe, SlotInv, BuildingSound, SlotSound, ToldSound
<1>7. Doing'
  <2>1. op' = [cmd |-> "promote", todo |-> <<"close">>]
    BY <1>1, Rest
  <2>2. PromoteDoing'
    BY <1>4, <2>1 DEF PromoteDoing, Retired
  <2>3. QED
    BY <2>1, <2>2, PromoteGoesOn
<1>8. QED
  BY <1>5, <1>6, <1>7 DEF Safe, SlotInv

LEMMA ClosePlaces ==
    ASSUME op \in Ops, At("close")
    PROVE  \/ op.cmd = "promote" /\ op.todo = <<"close">>
           \/ /\ op.cmd = "promote"
              /\ op.todo = <<"close", "down", "unsite", "announce", "tell", "drop", "discard">>
           \/ op.cmd = "failed" /\ op.todo = <<"close", "down", "unsite", "drop", "discard">>
  BY DEF At, Idle, Ops, ToBuild, Staging, ToSwap, ToReady, ToTakeDown, Takedown, ToRetire,
         ToAnnounce, Announcing, Nobody

LEMMA ClosesStep == ASSUME Safe, Closes PROVE Safe'
<1>1. /\ UNCHANGED <<slot, building, debris, staging, site, built, result, told, said, faults>>
      /\ txn' = Closed /\ over' = over \cup {slot.id}
      /\ op' = Left(op.cmd, IF Len(op.todo) = 1 /\ slot.rc = "ok" THEN Announcing ELSE Tail(op.todo))
  BY DEF Closes, Goes
<1>2. \/ op.cmd = "promote" /\ op.todo = <<"close">>
      \/ /\ op.cmd = "promote"
         /\ op.todo = <<"close", "down", "unsite", "announce", "tell", "drop", "discard">>
      \/ op.cmd = "failed" /\ op.todo = <<"close", "down", "unsite", "drop", "discard">>
  BY ClosePlaces DEF Closes, Safe, SlotInv, Doing
<1>3. /\ Retired /\ slot.id \in over
      /\ Len(op.todo) > 1 /\ op.cmd = "promote" => slot.rc = "ok"
  BY <1>2 DEF Safe, SlotInv, Doing, PromoteDoing, SlotSound, Retired
<1>4. over' = over
  BY <1>1, <1>3
<1>5. Files'
  BY <1>1, <1>4 DEF Safe, Files
<1>6. BuildingSound' /\ SlotSound' /\ ToldSound'
  BY <1>1, <1>3, <1>4 DEF Safe, SlotInv, BuildingSound, SlotSound, ToldSound, Retired
<1>7. Head(Announcing) = "down" /\ Announcing # <<>>
  BY DEF Announcing
<1>8. ASSUME op' = [cmd |-> "promote", todo |-> Announcing], slot.rc = "ok" PROVE Doing'
  <2>1. PromoteDoing'
    BY <1>1, <1>3, <1>7, <1>8 DEF PromoteDoing, Retired
  <2>2. QED
    BY <1>8, <2>1, PromoteGoesOn DEF ToAnnounce
<1>9. Doing'
  <2>1. CASE op.cmd = "promote" /\ op.todo = <<"close">>
    <3>1. CASE slot.rc = "ok"
      BY <1>1, <1>7, <1>8, <2>1, <3>1 DEF Left
    <3>2. CASE slot.rc # "ok"
      <4>1. op' = Nobody
        BY <1>1, <2>1, <3>2 DEF Left
      <4>2. QED
        BY <4>1, Ended
    <3>3. QED
      BY <3>1, <3>2
  <2>2. CASE /\ op.cmd = "promote"
             /\ op.todo = <<"close", "down", "unsite", "announce", "tell", "drop", "discard">>
    <3>1. Len(op.todo) = 7 /\ Tail(op.todo) = Announcing
      BY <2>2 DEF Announcing
    <3>2. slot.rc = "ok"
      BY <1>3, <2>2, <3>1
    <3>3. op' = [cmd |-> "promote", todo |-> Announcing]
      BY <1>1, <1>7, <2>2, <3>1 DEF Left
    <3>4. QED
      BY <1>8, <3>2, <3>3
  <2>3. CASE op.cmd = "failed" /\ op.todo = <<"close", "down", "unsite", "drop", "discard">>
    <3>1. Len(op.todo) = 5 /\ Tail(op.todo) = Takedown /\ Takedown # <<>>
      BY <2>3 DEF Takedown
    <3>2. op' = [cmd |-> "failed", todo |-> Takedown]
      BY <1>1, <2>3, <3>1 DEF Left
    <3>3. QED
      BY <3>2, TakingDown DEF ToTakeDown
  <2>4. QED
    BY <1>2, <2>1, <2>2, <2>3
<1>10. QED
  BY <1>5, <1>6, <1>9 DEF Safe, SlotInv

\* Where a slot's staging is taken down, and the slot dropped.
LEMMA DownPlaces ==
    ASSUME op \in Ops, At("down")
    PROVE  \/ /\ op.cmd = "stage"
              /\ op.todo = <<"down", "swapOut", "swapIn", "sweep", "site", "up", "ready">>
           \/ op.cmd \in {"cleanup", "unstage", "failed"} /\ op.todo = Takedown
           \/ op.cmd = "promote" /\ op.todo = Announcing
  BY DEF At, Idle, Ops, ToBuild, Staging, ToSwap, ToReady, ToTakeDown, Takedown, ToRetire,
         ToAnnounce, Announcing, Nobody

LEMMA UnsitePlaces ==
    ASSUME op \in Ops, At("unsite")
    PROVE  \/ /\ op.cmd \in {"cleanup", "unstage", "failed"}
              /\ op.todo = <<"unsite", "drop", "discard">>
           \/ /\ op.cmd = "promote"
              /\ op.todo = <<"unsite", "announce", "tell", "drop", "discard">>
  BY DEF At, Idle, Ops, ToBuild, Staging, ToSwap, ToReady, ToTakeDown, Takedown, ToRetire,
         ToAnnounce, Announcing, Nobody

LEMMA DropPlaces ==
    ASSUME op \in Ops, At("drop")
    PROVE  /\ op.cmd \in {"cleanup", "unstage", "failed", "promote"}
           /\ op.todo = <<"drop", "discard">>
  BY DEF At, Idle, Ops, ToBuild, Staging, ToSwap, ToReady, ToTakeDown, Takedown, ToRetire,
         ToAnnounce, Announcing, Nobody

LEMMA DiscardPlaces ==
    ASSUME op \in Ops, At("discard")
    PROVE  op.todo = <<"discard">>
  BY DEF At, Idle, Ops, ToBuild, Staging, ToSwap, ToReady, ToTakeDown, Takedown, ToRetire,
         ToAnnounce, Announcing, Nobody

\* A promote about to announce, and drop, has a retired slot that its switch
\* ended well for.
LEMMA AnnouncingPromote ==
    ASSUME Safe, op.cmd = "promote",
           Head(op.todo) \in {"down", "unsite", "announce", "tell", "drop"}
    PROVE  /\ Retired /\ slot.rc = "ok" /\ slot.id \in over /\ slot.id \in Slots
           /\ result[slot.id] = "ok"
<1>1. Retired /\ slot.rc = "ok"
  BY DEF Safe, SlotInv, Doing, PromoteDoing
<1>2. slot.id \in over /\ result[slot.id] = "ok"
  BY <1>1 DEF Safe, SlotInv, SlotSound, Retired
<1>3. QED
  BY <1>1, <1>2 DEF Safe, Files

LEMMA TakesDownStep == ASSUME Safe, TakesDown PROVE Safe'
<1>1. /\ Done /\ op \in Ops
      /\ staging' \in {staging, 0} /\ site' \in BOOLEAN
      /\ UNCHANGED <<slot, building, debris, txn, built, result, over, told, said, faults>>
  BY DEF TakesDown, history, Safe, Files, SlotInv, Doing
<1>2. Files' /\ BuildingSound' /\ SlotSound' /\ ToldSound'
  BY <1>1, BoundsAssumption DEF Safe, SlotInv, Files, BuildingSound, SlotSound, ToldSound
<1>3. Doing'
  <2>1. CASE /\ op.cmd = "stage"
             /\ op.todo = <<"down", "swapOut", "swapIn", "sweep", "site", "up", "ready">>
    <3>1. op' = [cmd |-> "stage", todo |-> <<"swapOut", "swapIn", "sweep", "site", "up", "ready">>]
      BY <1>1, <2>1, Rest
    <3>2. txn = Closed /\ building # NoSlot
      BY <2>1 DEF Safe, SlotInv, Doing, StageDoing
    <3>3. StageDoing'
      BY <1>1, <3>1, <3>2 DEF StageDoing
    <3>4. QED
      BY <3>1, <3>3, StageGoesOn DEF ToSwap
  <2>2. CASE op.cmd \in {"cleanup", "unstage", "failed"} /\ op.todo = Takedown
    <3>1. op' = [cmd |-> op.cmd, todo |-> <<"unsite", "drop", "discard">>]
      BY <1>1, <2>2, Rest DEF Takedown
    <3>2. QED
      BY <2>2, <3>1, TakingDown DEF ToTakeDown
  <2>3. CASE op.cmd = "promote" /\ op.todo = Announcing
    <3>1. op' = [cmd |-> "promote",
                 todo |-> <<"unsite", "announce", "tell", "drop", "discard">>]
      BY <1>1, <2>3, Rest DEF Announcing
    <3>2. Retired /\ slot.rc = "ok"
      BY <2>3, AnnouncingPromote DEF Announcing
    <3>3. PromoteDoing'
      BY <1>1, <3>1, <3>2 DEF PromoteDoing, Retired
    <3>4. QED
      BY <3>1, <3>3, PromoteGoesOn DEF ToAnnounce
  <2>4. CASE /\ op.cmd \in {"cleanup", "unstage", "failed"}
             /\ op.todo = <<"unsite", "drop", "discard">>
    <3>1. op' = [cmd |-> op.cmd, todo |-> <<"drop", "discard">>]
      BY <1>1, <2>4, Rest
    <3>2. QED
      BY <2>4, <3>1, TakingDown DEF ToTakeDown
  <2>5. CASE /\ op.cmd = "promote"
             /\ op.todo = <<"unsite", "announce", "tell", "drop", "discard">>
    <3>1. op' = [cmd |-> "promote", todo |-> <<"announce", "tell", "drop", "discard">>]
      BY <1>1, <2>5, Rest
    <3>2. Retired /\ slot.rc = "ok"
      BY <2>5, AnnouncingPromote
    <3>3. PromoteDoing'
      BY <1>1, <3>1, <3>2 DEF PromoteDoing, Retired
    <3>4. QED
      BY <3>1, <3>3, PromoteGoesOn DEF ToAnnounce
  <2>6. QED
    BY <1>1, <2>1, <2>2, <2>3, <2>4, <2>5, DownPlaces, UnsitePlaces DEF TakesDown
<1>4. QED
  BY <1>2, <1>3 DEF Safe, SlotInv

LEMMA AnnouncesStep == ASSUME Safe, Announces PROVE Safe'
<1>1. op.cmd = "promote" /\ op.todo = <<"announce", "tell", "drop", "discard">>
  BY Places DEF Announces, Safe, SlotInv, Doing
<1>2. /\ slot' = [slot EXCEPT !.announced = TRUE]
      /\ IF slot.announced THEN Goes(SubSeq(op.todo, 3, Len(op.todo))) ELSE Done
      /\ UNCHANGED <<building, debris, txn, staging, site, built, result, over, told, said, faults>>
  BY DEF Announces, outside, history
<1>3. /\ Retired /\ slot.rc = "ok" /\ slot.id \in over /\ slot.id \in Slots
      /\ result[slot.id] = "ok"
  BY <1>1, AnnouncingPromote
<1>4. /\ slot' \in SlotTypes \ {NoSlot} /\ slot'.id = slot.id /\ slot'.state = "retired"
      /\ slot'.rc = "ok" /\ slot'.announced = TRUE
  BY <1>2, <1>3 DEF Safe, Files, SlotTypes, Retired, NoSlot
<1>5. Files'
  BY <1>2, <1>4 DEF Safe, Files
<1>6. BuildingSound' /\ SlotSound' /\ ToldSound'
  BY <1>2, <1>3, <1>4 DEF Safe, SlotInv, BuildingSound, SlotSound, ToldSound, Retired
<1>7. Doing'
  <2>1. CASE slot.announced
    <3>1. SubSeq(op.todo, 3, Len(op.todo)) = <<"drop", "discard">>
      <4>1. Len(op.todo) = 4
        BY <1>1
      <4>2. QED
        BY <1>1, <4>1, Lists
    <3>2. op' = [cmd |-> "promote", todo |-> <<"drop", "discard">>]
      BY <1>1, <1>2, <2>1, <3>1 DEF Goes, Left
    <3>3. PromoteDoing'
      BY <1>4, <3>2 DEF PromoteDoing, Retired
    <3>4. QED
      BY <3>2, <3>3, PromoteGoesOn
  <2>2. CASE ~slot.announced
    <3>1. op' = [cmd |-> "promote", todo |-> <<"tell", "drop", "discard">>]
      BY <1>1, <1>2, <2>2, Rest
    <3>2. told[slot.id] = 0
      <4>1. told[slot.id] \in Nat /\ ~(told[slot.id] > 0)
        BY <1>3, <2>2 DEF Safe, SlotInv, ToldSound, Files
      <4>2. QED
        BY <4>1
    <3>3. PromoteDoing'
      BY <1>2, <1>4, <3>1, <3>2 DEF PromoteDoing, Retired
    <3>4. QED
      BY <3>1, <3>3, PromoteGoesOn DEF ToAnnounce
  <2>3. QED
    BY <2>1, <2>2
<1>8. QED
  BY <1>5, <1>6, <1>7 DEF Safe, SlotInv

LEMMA TellsStep == ASSUME Safe, Tells PROVE Safe'
<1>1. op.cmd = "promote" /\ Done /\ op.todo = <<"tell", "drop", "discard">>
  BY Places DEF Tells, Safe, SlotInv, Doing
<1>2. /\ told' = [told EXCEPT ![slot.id] = @ + 1]
      /\ UNCHANGED <<slot, building, debris, txn, staging, site, built, result, over, said, faults>>
  BY DEF Tells, outside
<1>3. /\ Retired /\ slot.rc = "ok" /\ slot.id \in over /\ slot.id \in Slots
      /\ result[slot.id] = "ok" /\ slot.announced /\ told[slot.id] = 0
  <2>1. slot.announced /\ told[slot.id] = 0
    BY <1>1 DEF Safe, SlotInv, Doing, PromoteDoing
  <2>2. QED
    BY <1>1, <2>1, AnnouncingPromote
<1>4. /\ told' \in [Slots -> Nat] /\ told'[slot.id] = 1
      /\ \A i \in Slots \ {slot.id} : told'[i] = told[i]
  BY <1>2, <1>3 DEF Safe, Files
<1>5. Files' /\ BuildingSound' /\ SlotSound'
  BY <1>2, <1>4 DEF Safe, Files, SlotInv, BuildingSound, SlotSound
<1>6. ToldSound'
  BY <1>2, <1>3, <1>4 DEF Safe, SlotInv, ToldSound
<1>7. Doing'
  <2>1. op' = [cmd |-> "promote", todo |-> <<"drop", "discard">>]
    BY <1>1, Rest
  <2>2. PromoteDoing'
    BY <1>2, <1>3, <2>1 DEF PromoteDoing, Retired
  <2>3. QED
    BY <2>1, <2>2, PromoteGoesOn
<1>8. QED
  BY <1>5, <1>6, <1>7 DEF Safe, SlotInv

LEMMA DropsStep == ASSUME Safe, Drops PROVE Safe'
<1>1. /\ Done /\ op.cmd \in {"cleanup", "unstage", "failed", "promote"}
      /\ op.todo = <<"drop", "discard">>
  BY DropPlaces DEF Drops, Safe, SlotInv, Doing
<1>2. /\ slot' = NoSlot
      /\ debris' = IF slot = NoSlot THEN debris
                   ELSE IF op.cmd = "promote" THEN [debris EXCEPT !.promoted = slot]
                   ELSE [debris EXCEPT !.discarded = slot]
      /\ UNCHANGED <<building, txn, staging, site, built, result, over, told, said, faults>>
  BY DEF Drops, outside, history
<1>3. op.cmd = "promote" => /\ Retired /\ slot.id \in over /\ result[slot.id] = "ok"
  BY <1>1, AnnouncingPromote
<1>4. /\ debris' \in [discarded : SlotTypes, promoted : SlotTypes]
      /\ op.cmd = "promote" => debris'.promoted = slot
      /\ op.cmd # "promote" => debris'.promoted = debris.promoted
  BY <1>2, <1>3 DEF Safe, Files, Retired
<1>5. Files'
  BY <1>2, <1>4 DEF Safe, Files, SlotTypes
<1>6. BuildingSound' /\ SlotSound' /\ ToldSound'
  <2>1. BuildingSound'
    BY <1>2, BoundsAssumption DEF Safe, SlotInv, BuildingSound, Files, NoSlot, SlotTypes, Slots
  <2>2. SlotSound'
    BY <1>2 DEF SlotSound, NoSlot, Safe, Files, Slots
  <2>3. ToldSound'
    BY <1>2, <1>3, <1>4 DEF Safe, SlotInv, ToldSound, NoSlot, Slots
  <2>4. QED
    BY <2>1, <2>2, <2>3
<1>7. Doing'
  <2>1. op' = [cmd |-> op.cmd, todo |-> <<"discard">>]
    BY <1>1, Rest
  <2>2. CASE op.cmd = "promote"
    <3>1. op' = [cmd |-> "promote", todo |-> <<"discard">>] /\ debris'.promoted # NoSlot
      BY <1>3, <1>4, <2>1, <2>2 DEF Retired
    <3>2. PromoteDoing'
      BY <3>1 DEF PromoteDoing
    <3>3. QED
      BY <3>1, <3>2, PromoteGoesOn
  <2>3. CASE op.cmd # "promote"
    BY <1>1, <2>1, <2>3, TakingDown DEF ToTakeDown
  <2>4. QED
    BY <2>2, <2>3
<1>8. QED
  BY <1>5, <1>6, <1>7 DEF Safe, SlotInv

LEMMA DiscardsStep == ASSUME Safe, Discards PROVE Safe'
<1>1. Done /\ op.todo = <<"discard">>
  BY DiscardPlaces DEF Discards, Safe, SlotInv, Doing
<1>2. /\ debris' = [discarded |-> NoSlot, promoted |-> NoSlot]
      /\ said' = said \cup (IF op.cmd = "promote" THEN {debris.promoted.id} ELSE {})
      /\ UNCHANGED <<slot, building, txn, staging, site, built, result, over, told, faults>>
  BY DEF Discards, outside
<1>3. op.cmd = "promote" => /\ debris.promoted.id \in Slots /\ debris.promoted.id \in over
                            /\ result[debris.promoted.id] = "ok"
  <2>1. op.cmd = "promote" => debris.promoted # NoSlot
    BY <1>1 DEF Safe, SlotInv, Doing, PromoteDoing
  <2>2. QED
    BY <2>1 DEF Safe, SlotInv, ToldSound, Files
<1>4. Files'
  BY <1>2, <1>3 DEF Safe, Files, SlotTypes
<1>5. BuildingSound' /\ SlotSound' /\ ToldSound'
  BY <1>2, <1>3 DEF Safe, SlotInv, BuildingSound, SlotSound, ToldSound
<1>6. Doing'
  <2>1. Tail(op.todo) = <<>>
    BY <1>1
  <2>2. QED
    BY <1>1, <2>1, Rest, Ended
<1>7. QED
  BY <1>4, <1>5, <1>6 DEF Safe, SlotInv

LEMMA StepFailsStep == ASSUME Safe, StepFails PROVE Safe'
<1>1. /\ op' = AfterFailure /\ faults' = faults + 1 /\ faults < MaxFaults
      /\ building' \in {NoSlot, building} /\ staging' \in {staging, slot.id}
      /\ UNCHANGED <<slot, debris, txn, site, built, result, over, told, said>>
  BY DEF StepFails, history
<1>2. Files'
  <2>1. faults' \in 0 .. MaxFaults
    BY <1>1, BoundsAssumption DEF Safe, Files
  <2>2. slot.id \in 0 .. MaxStages
    BY BoundsAssumption DEF Safe, Files, SlotTypes, NoSlot, Slots
  <2>3. QED
    BY <1>1, <2>1, <2>2 DEF Safe, Files, SlotTypes, NoSlot
<1>3. BuildingSound' /\ SlotSound' /\ ToldSound'
  BY <1>1 DEF Safe, SlotInv, BuildingSound, SlotSound, ToldSound
<1>4. Doing'
  <2>1. \/ op' = Nobody
        \/ op' = [cmd |-> "cleanup", todo |-> <<"sweep", "down", "unsite", "drop", "discard">>]
    BY <1>1, Lists DEF AfterFailure
  <2>2. QED
    BY <2>1, Ended, TakingDown
<1>5. QED
  BY <1>2, <1>3, <1>4 DEF Safe, SlotInv

LEMMA SafeInit == Init => Safe
<1> SUFFICES ASSUME Init PROVE Safe
  OBVIOUS
<1>1. Files
  <2>1. debris \in [discarded : SlotTypes, promoted : SlotTypes]
    BY DEF Init, SlotTypes
  <2>2. 0 \in 0 .. MaxStages /\ 0 \in 0 .. MaxFaults
    BY BoundsAssumption
  <2>3. QED
    BY <2>1, <2>2 DEF Init, Files, SlotTypes, NoSlot
<1>2. Doing
  BY DEF Init, Doing, Ops, Nobody
<1>3. BuildingSound /\ SlotSound /\ ToldSound
  BY DEF Init, BuildingSound, SlotSound, ToldSound, NoSlot, Slots
<1>4. QED
  BY <1>1, <1>2, <1>3 DEF Safe, SlotInv

LEMMA SafeStep == Safe /\ [Next]_vars => Safe'
<1> SUFFICES ASSUME Safe, [Next]_vars PROVE Safe'
  OBVIOUS
<1>1. CASE Step
  BY <1>1, SweepsStep, BuildsStep, RetiresOldStep, SwapsOutStep, SwapsInStep, BringsUpStep,
     MarksReadyStep, DecidesStep, InstallsStep, RetiresStep, ClosesStep, TakesDownStep,
     AnnouncesStep, TellsStep, DropsStep, DiscardsStep, StepFailsStep DEF Step
<1>2. CASE UNCHANGED vars
  BY <1>2 DEF vars, Safe, SlotInv, Files, Doing, StageDoing, PromoteDoing, Fresh, Retired,
              BuildingSound, SlotSound, ToldSound
<1>3. QED
  BY <1>1, <1>2, StageStep, PromoteStep, UnstageStep, OtherInstallStep, KillStep DEF Next

------------------------------------------------------------------------------
(* The theorems.                                                           *)

\* The slot's record, its directory's names, the open install and the command
\* under the lock keep their types, however many slots are staged and commands
\* killed (staged_release.py: load_slot, update_meta).
THEOREM SlotTyped == Spec => []TypeOK
<1>1. Spec => []Safe
  BY SafeInit, SafeStep, PTL DEF Spec
<1>2. QED
  BY <1>1, SafeTyped, PTL

\* Production is not switched again for a slot whose switch was recorded or whose
\* install closed, by no rerun of promote, no re-stage that was cut short and no
\* install in between (deploy_tree.py: switch_and_close; promote_cmd.py: _retire).
THEOREM NeverSwitchedAgainHolds == Spec => []NeverSwitchedAgain
<1>1. Spec => []Safe
  BY SafeInit, SafeStep, PTL DEF Spec
<1>2. Safe => NeverSwitchedAgain
  <2> SUFFICES ASSUME Safe, At("replace") PROVE slot.id \notin over
    BY DEF NeverSwitchedAgain
  <2>1. op.cmd = "promote"
    BY Places DEF Safe, SlotInv, Doing
  <2>2. QED
    BY <2>1 DEF At, Safe, SlotInv, Doing, PromoteDoing, Fresh
<1>3. QED
  BY <1>1, <1>2, PTL

\* A promotion is announced once at most, and announced or returned as 0 only
\* where its last switch succeeded, whatever is killed and run again
\* (promote_cmd.py: _announce, _finish_dropped; staged_release.py: drop_slot).
THEOREM SaysWhatHappenedHolds == Spec => []SaysWhatHappened
<1>1. Spec => []Safe
  BY SafeInit, SafeStep, PTL DEF Spec
<1>2. Safe => SaysWhatHappened
  BY DEF Safe, SlotInv, ToldSound, SaysWhatHappened
<1>3. QED
  BY <1>1, <1>2, PTL

------------------------------------------------------------------------------
(* The refinement: what a step makes of each slot's promotion.             *)

\* How slot i's promotion ended, as the mapping reads it.
Outcome == [i \in Slots |-> IF i \in over THEN result[i] ELSE "none"]
Business == <<Outcome, told, said>>

LEMMA Mapped == Promotion!avars = Business /\ Promotion!avars' = Business'
BY DEF Promotion!avars, Business, Outcome

LEMMA Untouched ==
    ASSUME UNCHANGED <<result, over, told, said>> PROVE UNCHANGED Business
BY DEF Business, Outcome

\* A rerun's switch changes how a slot's promotion is to end, not how it did.
LEMMA InstallsMaps == ASSUME Safe, Installs PROVE UNCHANGED Business
<1>1. UNCHANGED <<over, told, said>>
  BY DEF Installs
<1>2. CASE At("replace")
  <2>1. slot.id \notin over
    <3>1. op.cmd = "promote" /\ Head(op.todo) = "replace"
      BY <1>2, Places DEF At, Safe, SlotInv, Doing
    <3>2. QED
      BY <3>1 DEF Safe, SlotInv, Doing, PromoteDoing, Fresh
  <2>2. \A i \in Slots : i \in over => result'[i] = result[i]
    BY <1>2, <2>1 DEF Installs, At, Safe, Files
  <2>3. QED
    BY <1>1, <2>2 DEF Business, Outcome
<1>3. CASE ~At("replace")
  BY <1>1, <1>3, Untouched DEF Installs
<1>4. QED
  BY <1>2, <1>3

\* The record ends it, once.
LEMMA RetiresMaps == ASSUME Safe, Retires PROVE Promotion!Next
<1>1. op.cmd = "promote" /\ Head(op.todo) = "retire"
  BY Places DEF Retires, At, Safe, SlotInv, Doing
<1>2. /\ Fresh /\ slot.id \in Slots /\ result[slot.id] \in {"ok", "failed"}
  <2>1. Fresh /\ result[slot.id] # "none"
    BY <1>1 DEF Safe, SlotInv, Doing, PromoteDoing
  <2>2. slot.id \in Slots
    BY <2>1 DEF Safe, Files, SlotTypes, Fresh
  <2>3. QED
    BY <2>1, <2>2 DEF Safe, Files
<1>3. /\ over' = over \cup {slot.id} /\ UNCHANGED <<result, told, said>>
  BY DEF Retires
<1>4. Outcome[slot.id] = "none" /\ slot.id \notin over
  BY <1>2 DEF Outcome, Fresh
<1>5. Outcome' = [Outcome EXCEPT ![slot.id] = result[slot.id]]
  BY <1>2, <1>3, <1>4 DEF Outcome
<1>6. PICK i \in Slots : i = slot.id
  BY <1>2
<1>7. Promotion!Conclude(i)
  BY <1>2, <1>3, <1>4, <1>5, <1>6 DEF Promotion!Conclude, Outcome
<1>8. QED
  BY <1>7 DEF Promotion!Next

\* A close comes after the record, and ends nothing.
LEMMA ClosesMaps == ASSUME Safe, Closes PROVE UNCHANGED Business
<1>1. /\ op.cmd \in {"promote", "failed"} /\ Head(op.todo) = "close"
  BY ClosePlaces DEF Closes, Safe, SlotInv, Doing
<1>2. slot.id \in over
  BY <1>1 DEF Safe, SlotInv, Doing, PromoteDoing, SlotSound, Retired
<1>3. over' = over /\ UNCHANGED <<result, told, said>>
  BY <1>2 DEF Closes
<1>4. QED
  BY <1>3, Untouched

LEMMA TellsMaps == ASSUME Safe, Tells PROVE Promotion!Next
<1>1. op.cmd = "promote" /\ Head(op.todo) = "tell"
  BY Places DEF Tells, At, Safe, SlotInv, Doing
<1>2. /\ slot.id \in over /\ slot.id \in Slots /\ result[slot.id] = "ok" /\ told[slot.id] = 0
  BY <1>1, AnnouncingPromote DEF Safe, SlotInv, Doing, PromoteDoing
<1>3. told' = [told EXCEPT ![slot.id] = 1] /\ UNCHANGED <<result, over, said>>
  BY <1>2 DEF Tells, Safe, Files
<1>4. Promotion!Announce(slot.id)
  BY <1>2, <1>3 DEF Promotion!Announce
<1>5. QED
  BY <1>2, <1>4 DEF Promotion!Next

\* What is left under the promoted name was promoted, and is returned so.
LEMMA ReturnMaps ==
    ASSUME Safe, debris.promoted # NoSlot, UNCHANGED <<result, over, told>>,
           said' = said \cup {debris.promoted.id}
    PROVE  Promotion!Next
<1>1. /\ debris.promoted.id \in Slots /\ debris.promoted.id \in over
      /\ result[debris.promoted.id] = "ok"
  BY DEF Safe, SlotInv, ToldSound, Files
<1>2. Promotion!Return(debris.promoted.id)
  BY <1>1 DEF Promotion!Return
<1>3. QED
  BY <1>1, <1>2 DEF Promotion!Next

LEMMA SweepsMaps == ASSUME Safe, Sweeps PROVE Promotion!Next \/ UNCHANGED Business
<1>1. /\ UNCHANGED <<result, over, told>>
      /\ said' = said \cup (IF At("finish") THEN {debris.promoted.id} ELSE {})
  BY DEF Sweeps
<1>2. CASE At("finish")
  <2>1. op.cmd = "promote" /\ Head(op.todo) = "finish"
    BY <1>2, Places DEF At, Safe, SlotInv, Doing
  <2>2. debris.promoted # NoSlot
    BY <2>1 DEF Safe, SlotInv, Doing, PromoteDoing
  <2>3. QED
    BY <1>1, <1>2, <2>2, ReturnMaps
<1>3. CASE ~At("finish")
  BY <1>1, <1>3, Untouched
<1>4. QED
  BY <1>2, <1>3

LEMMA DiscardsMaps == ASSUME Safe, Discards PROVE Promotion!Next \/ UNCHANGED Business
<1>1. /\ UNCHANGED <<result, over, told>>
      /\ said' = said \cup (IF op.cmd = "promote" THEN {debris.promoted.id} ELSE {})
  BY DEF Discards
<1>2. CASE op.cmd = "promote"
  <2>1. debris.promoted # NoSlot
    BY <1>2 DEF Discards, At, Safe, SlotInv, Doing, PromoteDoing
  <2>2. QED
    BY <1>1, <1>2, <2>1, ReturnMaps
<1>3. CASE op.cmd # "promote"
  BY <1>1, <1>3, Untouched
<1>4. QED
  BY <1>2, <1>3

\* The operator's business changes nowhere else: not where a slot is built,
\* swapped, put aside or unstaged, and not where a command fails or is killed.
LEMMA StepMaps == Safe /\ [Next]_vars => [Promotion!Next]_(Promotion!avars)
<1> SUFFICES ASSUME Safe, [Next]_vars PROVE Promotion!Next \/ UNCHANGED Business
  BY Mapped
<1>1. CASE Stage \/ Promote \/ Unstage \/ OtherInstall \/ Kill
  BY <1>1, Untouched DEF Stage, Promote, Unstage, OtherInstall, Kill, history
<1>2. CASE Builds \/ RetiresOld \/ SwapsOut \/ SwapsIn \/ BringsUp \/ MarksReady
  BY <1>2, Untouched DEF Builds, RetiresOld, SwapsOut, SwapsIn, BringsUp, MarksReady, history
<1>3. CASE Decides \/ TakesDown \/ Announces \/ Drops \/ StepFails
  BY <1>3, Untouched DEF Decides, TakesDown, Announces, Drops, StepFails, history
<1>4. CASE UNCHANGED vars
  BY <1>4, Untouched DEF vars
<1>5. QED
  BY <1>1, <1>2, <1>3, <1>4, InstallsMaps, RetiresMaps, ClosesMaps, TellsMaps, SweepsMaps,
     DiscardsMaps DEF Next, Step

\* Every step of stage, promote and unstage, kills and reruns included, ends the
\* promotion of one slot once, announces or returns one that ended well, or
\* changes nothing an operator was told: PromotionSpec
\* (promote_cmd.py: _retire, _announce, _finish_dropped).
THEOREM ImplementsPromotionHolds == Spec => ImplementsPromotion
<1>1. Init => Promotion!Init
  BY DEF Init, Promotion!Init
<1>2. Spec => []Safe
  BY SafeInit, SafeStep, PTL DEF Spec
<1>3. QED
  BY <1>1, <1>2, StepMaps, PTL DEF Spec, ImplementsPromotion, Promotion!Spec
==============================================================================
