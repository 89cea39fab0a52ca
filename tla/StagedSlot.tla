------------------------------ MODULE StagedSlot ------------------------------
(***************************************************************************)
(* The staged release's slot of one project, .releases/staged/: stage      *)
(* builds it beside the old one and swaps it in, promote installs it,      *)
(* retires it, announces the promotion and drops it, unstage drops it, and *)
(* other installs come between.  The slot's record, the names its          *)
(* directory is moved to, and the install transaction are on disk; a kill  *)
(* between any two steps leaves them for the next command.                 *)
(*                                                                         *)
(* Every command holds the project lock from its first step to its last.   *)
(* The install itself is InstallTxn's, here only open before or after the  *)
(* switch began; the copy of production's data is Lifecycle's.             *)
(***************************************************************************)
EXTENDS Naturals, Sequences

CONSTANTS MaxStages,  \* slots ever built
          MaxFaults   \* kills and failed steps in a behaviour

ASSUME BoundsAssumption == MaxStages \in Nat \ {0} /\ MaxFaults \in Nat

VARIABLES
    op,        \* the command holding the lock, and its steps still to do
    slot,      \* staged/ and its meta.json
    building,  \* staged.building/
    debris,    \* staged.discarded/ and staged.promoted.discarded/
    txn,       \* the open install: of which slot (0: of no slot), how far
    staging,   \* the slot whose release staging's containers run (0: none)
    site,      \* staging's Caddy site exists
    built,     \* slots built so far
    result,    \* what replace_release last returned for each slot's release
    over,      \* the slots whose switch was recorded, or whose install closed after it
    told,      \* how often each slot's promotion was announced
    said,      \* the slots whose promote returned 0
    faults

vars == <<op, slot, building, debris, txn, staging, site, built, result, over, told, said, faults>>
history == <<built, result, over, told, said>>
outside == <<txn, staging, site>>

Slots == 1 .. MaxStages
Nobody == [cmd |-> "idle", todo |-> <<>>]
NoSlot == [id |-> 0, state |-> "none", rc |-> "none", announced |-> FALSE]
Closed == [id |-> 0, at |-> "closed"]

Init ==
    /\ op = Nobody
    /\ slot = NoSlot /\ building = NoSlot
    /\ debris = [discarded |-> NoSlot, promoted |-> NoSlot]
    /\ txn = Closed /\ staging = 0 /\ site = FALSE
    /\ built = 0 /\ result = [i \in Slots |-> "none"] /\ over = {}
    /\ told = [i \in Slots |-> 0] /\ said = {}
    /\ faults = 0

Idle == op = Nobody
Begin(cmd, steps) == Idle /\ op' = [cmd |-> cmd, todo |-> steps]
At(step) == ~Idle /\ Head(op.todo) = step
Left(cmd, steps) == IF steps = <<>> THEN Nobody ELSE [cmd |-> cmd, todo |-> steps]
Goes(steps) == op' = Left(op.cmd, steps)
Done == Goes(Tail(op.todo))

\* load_slot reads only what it calls consistent: an exit code and an
\* announcement belong to a retired slot alone.
Readable(s) == /\ (s.state = "retired") = (s.rc # "none")
               /\ s.announced => s.state = "retired"

\* update_meta drops the exit code with any other state, and keeps the rest.
Updated(s, state) == [s EXCEPT !.state = state, !.rc = IF state = "retired" THEN @ ELSE "none"]

\* The open install is this slot's promote.
Resuming == txn.at # "closed" /\ txn.id # 0 /\ txn.id = slot.id

----------------------------------------------------------------------------
\* The commands, from their checks under the lock.

Takedown == <<"down", "unsite", "drop", "discard">>
Announcing == <<"down", "unsite", "announce", "tell", "drop", "discard">>

Staging == <<"sweep", "build", "unready", "down", "swapOut", "swapIn", "sweep",
             "site", "up", "ready">>

Stage ==
    /\ txn = Closed /\ built < MaxStages
    /\ Begin("stage", Staging)
    /\ UNCHANGED <<slot, building, debris, outside, history, faults>>

\* A promote finishes what a killed one left of an announced slot, and
\* otherwise decides by the slot's record.
Promote ==
    /\ IF slot = NoSlot /\ debris.promoted # NoSlot
       THEN Begin("promote", <<"finish">>)
       ELSE slot # NoSlot /\ Begin("promote", <<"sweep", "decide">>)
    /\ UNCHANGED <<slot, building, debris, outside, history, faults>>

\* No open promote may need the slot.
Unstage ==
    /\ IF slot = NoSlot /\ ~site
       THEN debris # [discarded |-> NoSlot, promoted |-> NoSlot] \/ building # NoSlot
       ELSE txn.id = 0 \/ (Readable(slot) /\ txn.id # slot.id)
    /\ Begin("unstage", IF slot = NoSlot /\ ~site /\ debris.promoted # NoSlot
                        THEN <<"sweep">> ELSE <<"sweep">> \o Takedown)
    /\ UNCHANGED <<slot, building, debris, outside, history, faults>>

\* A deploy of another release (fresh, or over an open install) or a
\* rollback, to its end or left open, and --abandon before the hook.
OtherInstall ==
    /\ Idle
    /\ txn' \in {Closed} \cup [id : {0}, at : {"begun", "switching"}]
    /\ building' = NoSlot /\ debris' = [discarded |-> NoSlot, promoted |-> NoSlot]
    /\ UNCHANGED <<op, slot, staging, site, history, faults>>

----------------------------------------------------------------------------
\* Their steps.

\* sweep_debris, first in every core that touches the slot.
Sweeps ==
    /\ At("sweep") \/ At("finish")
    /\ building' = NoSlot
    /\ debris' = [discarded |-> NoSlot, promoted |-> NoSlot]
    /\ said' = said \cup (IF At("finish") THEN {debris.promoted.id} ELSE {})
    /\ Done /\ UNCHANGED <<slot, outside, built, result, over, told, faults>>

Builds ==
    /\ At("build")
    /\ built' = built + 1
    /\ building' = [NoSlot EXCEPT !.id = built + 1, !.state = "starting"]
    /\ Done /\ UNCHANGED <<slot, debris, outside, result, over, told, said, faults>>

\* A re-stage: nothing may promote the old slot once its staging goes.
RetiresOld ==
    /\ At("unready")
    /\ slot' = IF slot = NoSlot \/ ~Readable(slot) THEN slot ELSE Updated(slot, "starting")
    /\ Done /\ UNCHANGED <<building, debris, outside, history, faults>>

\* staged.building becomes the slot; the old one is under its debris name.
SwapsOut ==
    /\ At("swapOut")
    /\ slot' = NoSlot /\ debris' = [debris EXCEPT !.discarded = slot]
    /\ Done /\ UNCHANGED <<building, outside, history, faults>>

SwapsIn ==
    /\ At("swapIn")
    /\ slot' = building /\ building' = NoSlot
    /\ Done /\ UNCHANGED <<debris, outside, history, faults>>

BringsUp ==
    /\ \/ At("site") /\ site' = TRUE /\ UNCHANGED staging
       \/ At("up") /\ staging' = slot.id /\ UNCHANGED site
    /\ Done /\ UNCHANGED <<slot, building, debris, txn, history, faults>>

MarksReady ==
    /\ At("ready") /\ slot' = Updated(slot, "ready")
    /\ Done /\ UNCHANGED <<building, debris, outside, history, faults>>

Decides_Starting ==  \* a stage that did not finish may be promoted
    /\ At("decide")
    /\ IF ~Readable(slot) THEN Goes(<<>>)
       ELSE IF slot.state = "retired"
       THEN op' = [cmd |-> IF slot.rc = "ok" THEN "promote" ELSE "failed",
                   todo |-> (IF Resuming THEN <<"close">> ELSE <<>>) \o
                            (IF slot.rc = "ok" THEN Announcing ELSE Takedown)]
       ELSE Goes(IF Resuming /\ txn.at = "switching" THEN <<"replace", "retire", "close">>
                 ELSE <<"open", "switch", "replace", "retire", "close">>)
    /\ UNCHANGED <<slot, building, debris, outside, history, faults>>

\* A retired slot has only its close and teardown left, announced or not by
\* how its switch ended; any other is installed, from where an open install
\* of it stands.
Decides ==
    /\ At("decide")
    /\ IF ~Readable(slot) \/ (slot.state = "starting" /\ ~Resuming) THEN Goes(<<>>)
       ELSE IF slot.state = "retired"
       THEN op' = [cmd |-> IF slot.rc = "ok" THEN "promote" ELSE "failed",
                   todo |-> (IF Resuming THEN <<"close">> ELSE <<>>) \o
                            (IF slot.rc = "ok" THEN Announcing ELSE Takedown)]
       ELSE Goes(IF Resuming /\ txn.at = "switching" THEN <<"replace", "retire", "close">>
                 ELSE <<"open", "switch", "replace", "retire", "close">>)
    /\ UNCHANGED <<slot, building, debris, outside, history, faults>>

\* The install: opened (or taken over), switching, replace_release, the
\* slot's retirement and the close, in this order.
Installs ==
    /\ \/ At("open") /\ txn' = [id |-> slot.id, at |-> "begun"] /\ UNCHANGED result
       \/ At("switch") /\ txn' = [txn EXCEPT !.at = "switching"] /\ UNCHANGED result
       \/ /\ At("replace") /\ UNCHANGED txn
          /\ \E rc \in {"ok", "failed"} : result' = [result EXCEPT ![slot.id] = rc]
    /\ Done
    /\ UNCHANGED <<slot, building, debris, staging, site, built, over, told, said, faults>>

Retires ==
    /\ At("retire")
    /\ slot' = [Updated(slot, "retired") EXCEPT !.rc = result[slot.id]]
    /\ over' = over \cup {slot.id}
    /\ Done /\ UNCHANGED <<building, debris, outside, built, result, told, said, faults>>

Closes_AnyOutcome ==  \* a promotion that failed is announced too
    /\ At("close")
    /\ txn' = Closed /\ over' = over \cup {slot.id}
    /\ Goes(IF Len(op.todo) = 1 THEN Announcing ELSE Tail(op.todo))
    /\ UNCHANGED <<slot, building, debris, staging, site, built, result, told, said, faults>>

\* The teardown follows a switch that succeeded; a failed one leaves
\* staging up.
Closes ==
    /\ At("close")
    /\ txn' = Closed /\ over' = over \cup {slot.id}
    /\ Goes(IF Len(op.todo) = 1 /\ slot.rc = "ok" THEN Announcing ELSE Tail(op.todo))
    /\ UNCHANGED <<slot, building, debris, staging, site, built, result, told, said, faults>>

TakesDown ==
    /\ \/ At("down") /\ staging' = (IF slot = NoSlot THEN staging ELSE 0) /\ UNCHANGED site
       \/ At("unsite") /\ site' = FALSE /\ UNCHANGED staging
    /\ Done /\ UNCHANGED <<slot, building, debris, txn, history, faults>>

Announces_StopsAtRecorded ==  \* a rerun finds it announced and has nothing to do
    /\ At("announce")
    /\ slot' = [slot EXCEPT !.announced = TRUE]
    /\ IF slot.announced THEN Goes(<<>>) ELSE Done
    /\ UNCHANGED <<building, debris, outside, history, faults>>

\* Recorded in the slot before it is sent, and sent once.
Announces ==
    /\ At("announce")
    /\ slot' = [slot EXCEPT !.announced = TRUE]
    /\ IF slot.announced THEN Goes(SubSeq(op.todo, 3, Len(op.todo))) ELSE Done
    /\ UNCHANGED <<building, debris, outside, history, faults>>

Tells ==
    /\ At("tell") /\ told' = [told EXCEPT ![slot.id] = @ + 1]
    /\ Done /\ UNCHANGED <<slot, building, debris, outside, built, result, over, said, faults>>

Drops_AsPromoted ==  \* any slot promote or unstage removes
    /\ At("drop")
    /\ slot' = NoSlot /\ debris' = [debris EXCEPT !.promoted = slot]
    /\ Done /\ UNCHANGED <<building, outside, history, faults>>

\* An announced slot goes under a name that says so, which the rerun reads.
Drops ==
    /\ At("drop")
    /\ slot' = NoSlot
    /\ debris' = IF slot = NoSlot THEN debris
                 ELSE IF op.cmd = "promote" THEN [debris EXCEPT !.promoted = slot]
                 ELSE [debris EXCEPT !.discarded = slot]
    /\ Done /\ UNCHANGED <<building, outside, history, faults>>

Discards ==
    /\ At("discard")
    /\ debris' = [discarded |-> NoSlot, promoted |-> NoSlot]
    /\ said' = said \cup (IF op.cmd = "promote" THEN {debris.promoted.id} ELSE {})
    /\ Done /\ UNCHANGED <<slot, building, outside, built, result, over, told, faults>>

----------------------------------------------------------------------------
\* What goes wrong.

MayFail == {"build", "unready", "retire", "down", "swapOut", "swapIn", "site", "up", "ready", "open",
            "switch", "unsite", "drop", "discard"}

\* A stage that fails after its slot is in place is torn down; one whose
\* predecessor would not go drops what it built.  Anything else stops where
\* it is, and says so.
AfterFailure ==
    IF op.cmd = "stage" /\ Len(op.todo) <= 6 THEN [cmd |-> "cleanup", todo |-> <<"sweep">> \o Takedown]
    ELSE Nobody

\* A failed start may have left containers running.
StepFails ==
    /\ ~Idle /\ Head(op.todo) \in MayFail
    /\ faults < MaxFaults /\ faults' = faults + 1
    /\ op' = AfterFailure
    /\ building' = (IF op.cmd = "stage" /\ Len(op.todo) > 6 THEN NoSlot ELSE building)
    /\ staging' \in {staging} \cup (IF At("up") THEN {slot.id} ELSE {})
    /\ UNCHANGED <<slot, debris, txn, site, history>>

Kill ==
    /\ ~Idle /\ faults < MaxFaults
    /\ faults' = faults + 1 /\ op' = Nobody
    /\ UNCHANGED <<slot, building, debris, outside, history>>

Step == \/ Sweeps \/ Builds \/ RetiresOld \/ SwapsOut \/ SwapsIn \/ BringsUp
        \/ MarksReady \/ Decides \/ Installs \/ Retires \/ Closes \/ TakesDown \/ Announces
        \/ Tells \/ Drops \/ Discards \/ StepFails

Next == Stage \/ Promote \/ Unstage \/ OtherInstall \/ Step \/ Kill

Spec == Init /\ [][Next]_vars

\* A command goes on until it ends, and the operator whose promote was cut
\* short runs it again.
FairSpec == Spec /\ WF_vars(Step) /\ SF_vars(Promote)
----------------------------------------------------------------------------
\* Properties.

\* Types.
TypeOK ==
    LET SlotType == [id : Slots, state : {"starting", "ready", "retired"},
                     rc : {"none", "ok", "failed"}, announced : BOOLEAN] \cup {NoSlot}
    IN  /\ op \in [cmd : {"idle", "stage", "cleanup", "promote", "failed", "unstage"},
                    todo : Seq(MayFail \cup {"sweep", "finish", "decide", "ready", "replace",
                                             "close", "announce", "tell"})]
        /\ {slot, building, debris.discarded, debris.promoted} \subseteq SlotType
        /\ building.state \in {"none", "starting"}
        /\ txn \in {Closed} \cup [id : 0 .. MaxStages, at : {"begun", "switching"}]
        /\ staging \in 0 .. MaxStages /\ site \in BOOLEAN
        /\ built \in 0 .. MaxStages /\ result \in [Slots -> {"none", "ok", "failed"}]
        /\ over \subseteq Slots /\ told \in [Slots -> Nat] /\ said \subseteq Slots
        /\ faults \in 0 .. MaxFaults

\* Production is never switched twice for one slot once the first switch
\* was recorded or its install closed: not by a rerun, nor through a
\* re-stage that was cut short.  (deploy_tree.switch_and_close's order,
\* promote_cmd._retire, _eligibility, stage_slot.retire_previous_staging)
NeverSwitchedAgain == At("replace") => slot.id \notin over

\* A promotion is announced at most once, and announced, or returned as 0,
\* only when its last switch succeeded, whatever is killed and rerun: a rerun
\* that finds only debris does not take an unstaged slot's for a promoted
\* one's.  (promote_cmd._announce, _finish_dropped, staged_release.drop_slot)
SaysWhatHappened ==
    \A i \in Slots : /\ told[i] <= 1
                     /\ told[i] > 0 \/ i \in said => result[i] = "ok"

\* A slot's promotion has ended once its switch is recorded; how it was to
\* end is open until then, a rerun may switch again.
Promotion == INSTANCE PromotionSpec WITH
    outcome <- [i \in Slots |-> IF i \in over THEN result[i] ELSE "none"]

\* Every step of the four commands, kills included, ends one slot's promotion
\* once, announces it or returns it, or is none of the operator's business.
\* (promote_cmd._retire, _announce, _finish_dropped)
ImplementsPromotion == Promotion!Spec

\* A retired slot goes: a rerun promote finishes what a kill or a failure
\* left of the close, the announcement and the teardown.
\* (promote_cmd._finish_retired)
RetiredSlotGoes == slot.state = "retired" ~> slot.state # "retired"

\* What update_meta writes, load_slot reads.  (staged_release.update_meta:
\* "any other state drops one carried over from meta (load_slot refuses a
\* slot that keeps one)")
SlotReadable == Readable(slot)
=============================================================================
