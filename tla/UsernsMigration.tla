--------------------------- MODULE UsernsMigration ---------------------------
(***************************************************************************)
(* The user-namespace migration (boxmunge/userns): the Docker daemon moves *)
(* to a remapped root and back, with each volume's data renamed from one   *)
(* root to the other and every tree's owners shifted.  userns-migrate,     *)
(* userns-rollback and userns-commit share one journal, saved durably      *)
(* after every step; a kill or a reboot between any two steps is finished  *)
(* by running the same command, or the other one, again.                   *)
(*                                                                         *)
(* A tree is a volume or a bind source.  Images, the network, the          *)
(* Caddyfile's mode and the preflight's refusals are left out.  One run at *)
(* a time holds upgrade.lock, and every registered project's lock.         *)
(***************************************************************************)
EXTENDS Naturals

CONSTANTS Vols, Binds,   \* the trees the registered projects use
          New,           \* the volume of a project first deployed later on
          LateProjects,  \* may that deploy fall inside a run, before its marker?
          MaxFaults      \* kills, reboots and failed steps in a behaviour

ASSUME FaultsAssumption == MaxFaults \in Nat
ASSUME TreesAssumption == Vols \cap Binds = {} /\ New \notin Vols \cup Binds
ASSUME LateAssumption == LateProjects \in BOOLEAN

AllVols == Vols \cup {New}
Trees == AllVols \cup Binds

Forward == <<"started", "prepared", "quiesced", "switched", "rebuilt", "applied", "committed">>
Rollback == <<"rb-started", "rb-saved", "rb-quiesced", "rb-restored", "rb-switched",
              "rb-rebuilt", "rolled-back">>
Phases == {"none"} \cup {Forward[i] : i \in 1 .. 7} \cup {Rollback[i] : i \in 1 .. 7}

VARIABLES
    run, pc, after,  \* the command, its step, and where back_to_prior goes on
    cur,             \* the tree a step is at
    j,               \* the journal
    conf, rec,       \* daemon.json (the prior one, or ours) and the offset record
    daemon,          \* the daemon running: the old one, the remapped one, or none
    marker, timers,  \* the marker file; are the timers enabled?
    tree,            \* where each tree's data is, whose ids it has, its setuid bits
    box,             \* the projects' containers in the old and in the new root
    faults

command == <<run, pc, after, cur>>
host == <<conf, rec, daemon, marker, timers>>
vars == <<command, j, host, tree, box, faults>>

Listed == {"unset", "no", "yes"}
NoJournal ==
    [phase |-> "none", inv |-> {}, rinv |-> {},
     items |-> [t \in Trees |-> "none"], rb |-> [t \in Trees |-> "none"],
     setid |-> [t \in Trees |-> "unset"], rbSetid |-> [t \in Trees |-> "unset"],
     up |-> FALSE, rbUp |-> FALSE, abortUp |-> FALSE,
     timers |-> TRUE, committing |-> FALSE]

Init ==
    /\ run = "none" /\ pc = "idle" /\ after = "none" /\ cur \in Binds
    /\ j = NoJournal
    /\ conf = "prior" /\ rec = FALSE /\ daemon = "old"
    /\ marker = FALSE /\ timers = TRUE
    /\ tree = [t \in Trees |->
                 [root |-> IF t = New THEN "none" ELSE IF t \in Binds THEN "path" ELSE "old",
                  oldDir |-> t \in Vols, ids |-> "host", suid |-> TRUE, want |-> TRUE]]
    /\ box = [old |-> "up", new |-> "none"]
    /\ faults = 0

-----------------------------------------------------------------------------
(* The journal, the daemon and the steps of a run. *)

IsForward == \E i \in 1 .. 7 : j.phase = Forward[i]
IndexOf(order, phase) == CHOOSE i \in 1 .. 7 : order[i] = phase

\* Journal.reached, for the direction the journal has.
Reached(phase) ==
    \/ \E i \in 1 .. 7 : Forward[i] = phase /\ IsForward /\ IndexOf(Forward, j.phase) >= i
    \/ \E i \in 1 .. 7 :
         /\ Rollback[i] = phase /\ ~IsForward /\ j.phase # "none"
         /\ IndexOf(Rollback, j.phase) >= i

At(step) == pc = step
Goto(step) == pc' = step /\ UNCHANGED <<run, after, cur>>
Call(step, back) == pc' = step /\ after' = back /\ UNCHANGED <<run, cur>>
GotoOn(step, t) == pc' = step /\ cur' = t /\ UNCHANGED <<run, after>>
End == run' = "none" /\ pc' = "idle" /\ after' = "none" /\ UNCHANGED cur

Fault == faults < MaxFaults /\ faults' = faults + 1
NoFault == UNCHANGED faults

\* A starting daemon brings up what was running when it stopped, and, with
\* the policy `always`, what had been stopped.
ConfiguredDaemon == IF conf = "ours" THEN "new" ELSE "old"
Restarts(c) == CASE c = "halted" -> {"up"} [] c = "stopped" -> {"stopped", "up"} [] OTHER -> {c}
StartDaemon ==
    /\ daemon' = ConfiguredDaemon
    /\ \E c \in Restarts(box[ConfiguredDaemon]) : box' = [box EXCEPT ![ConfiguredDaemon] = c]

Halted(c) == IF c = "up" THEN "halted" ELSE c
Stopped(c) == IF c = "up" THEN "stopped" ELSE c
StopDaemon ==
    /\ daemon' = "none"
    /\ box' = [r \in {"old", "new"} |-> Halted(box[r])]

Save(fields) == j' = fields
Phase(p) == j' = [j EXCEPT !.phase = p]

-----------------------------------------------------------------------------
(* back_to_prior and ensure_prior. *)

BackStop ==
    /\ At("back-stop") /\ StopDaemon /\ Goto("back-config")
    /\ NoFault /\ UNCHANGED <<j, conf, rec, marker, timers, tree>>

BackConfig ==
    /\ At("back-config") /\ conf' = "prior" /\ Goto("back-record")
    /\ NoFault /\ UNCHANGED <<j, rec, daemon, marker, timers, tree, box>>

BackRecord ==
    /\ At("back-record") /\ rec' = FALSE /\ Goto("back-start")
    /\ NoFault /\ UNCHANGED <<j, conf, daemon, marker, timers, tree, box>>

BackStart ==
    /\ At("back-start") /\ StartDaemon /\ Goto(after)
    /\ NoFault /\ UNCHANGED <<j, conf, rec, marker, timers, tree>>

\* Mutant: a daemon a crash left stopped is not started.
EnsurePrior_NoStart ==
    /\ At("prior") /\ NoFault
    /\ IF conf = "ours" \/ rec THEN Goto("back-stop") ELSE daemon # "none" /\ Goto(after)
    /\ UNCHANGED <<j, host, tree, box>>

\* A crash inside the switch left our daemon.json, or the record, or no daemon.
EnsurePrior ==
    /\ At("prior") /\ NoFault
    /\ \/ /\ conf = "ours" \/ rec
          /\ Goto("back-stop") /\ UNCHANGED <<host, box>>
       \/ /\ conf = "prior" /\ ~rec /\ daemon = "none"
          /\ StartDaemon /\ Goto(after) /\ UNCHANGED <<conf, rec, marker, timers>>
       \/ /\ conf = "prior" /\ ~rec /\ daemon # "none"
          /\ Goto(after) /\ UNCHANGED <<host, box>>
    /\ UNCHANGED <<j, tree>>

-----------------------------------------------------------------------------
(* shift_journalled: the list of setuid entries is journalled, then every  *)
(* entry is chowned, which clears the bit, and its mode put back from the  *)
(* list.                                                                   *)

\* Mutant: the list is the current scan's only.
SetidList_NoResume(t, earlier, seed) == IF tree[t].suid THEN "yes" ELSE "no"

\* What the scan sees now, what the key holds already, and the seed.
SetidList(t, earlier, seed) ==
    IF tree[t].suid \/ earlier = "yes" \/ seed = "yes" THEN "yes" ELSE "no"

\* The forward list, when a kill inside the forward shift may have cleared a bit.
Unfinished(t) == IF j.items[t] = "shifted" THEN "unset" ELSE j.setid[t]

ListSetid ==
    /\ At("list") /\ Save([j EXCEPT !.setid[cur] = SetidList(cur, @, "unset")])
    /\ Goto("chown") /\ NoFault /\ UNCHANGED <<host, tree, box>>

RbListSetid ==
    /\ At("rb-list") /\ Save([j EXCEPT !.rbSetid[cur] = SetidList(cur, @, Unfinished(cur))])
    /\ Goto("rb-chown") /\ NoFault /\ UNCHANGED <<host, tree, box>>

\* shift_tree, part-way: some entries have their new owner and lost their bit.
Chown(step, next, target) ==
    /\ At(step) /\ Goto(next)
    /\ tree' = [tree EXCEPT ![cur].ids = IF @ = target THEN @ ELSE "part",
                            ![cur].suid = IF tree[cur].ids = target THEN @ ELSE FALSE]
    /\ NoFault /\ UNCHANGED <<j, host, box>>

Chmod(step, next, target, listed) ==
    /\ At(step) /\ Goto(next)
    /\ tree' = [tree EXCEPT ![cur].ids = target, ![cur].suid = @ \/ listed = "yes"]
    /\ NoFault /\ UNCHANGED <<j, host, box>>

Shift ==
    \/ Chown("chown", "chmod", "remap")
    \/ Chmod("chmod", "save-shifted", "remap", j.setid[cur])
    \/ Chown("rb-chown", "rb-chmod", "host")
    \/ Chmod("rb-chmod", "rb-save-restored", "host", j.rbSetid[cur])

-----------------------------------------------------------------------------
(* userns-migrate.                                                         *)

\* Mutant: a migration starts over a rollback that stopped half-way.
MigrateStart_AnyJournal ==
    /\ run = "none" /\ run' = "migrate" /\ NoFault /\ pc' = "phase0"
    /\ after' = "none" /\ UNCHANGED <<cur, j, host, tree, box>>

\* _refuse_rerun and, once the locks are held, where the run goes on.
MigrateStart ==
    /\ run = "none" /\ run' = "migrate" /\ NoFault
    /\ IsForward => j.phase \notin {"applied", "committed"}
    /\ IsForward \/ j.phase \in {"none", "rolled-back"}
    /\ IF ~IsForward THEN pc' = "phase0" /\ after' = "none" /\ UNCHANGED <<host, box>>
       ELSE IF ~Reached("switched")
       THEN pc' = "prior" /\ after' = "phase0" /\ UNCHANGED <<host, box>>
       ELSE /\ conf = "ours" /\ rec
            /\ pc' = "marker" /\ after' = "none"
            /\ IF daemon = "none" THEN StartDaemon ELSE UNCHANGED <<daemon, box>>
            /\ UNCHANGED <<conf, rec, marker, timers>>
    /\ UNCHANGED <<cur, j, tree>>

OnOld(v) == tree[v].root = "old"
OnNew(v) == tree[v].root = "new" \/ j.items[v] # "none"

\* A new journal records the timers; a resumed one only takes the inventory again.
Phase0(inv) ==
    IF IsForward THEN [j EXCEPT !.inv = inv]
    ELSE [NoJournal EXCEPT !.phase = "started", !.inv = inv, !.timers = timers]

Inventory ==
    /\ At("phase0") /\ daemon = "old"
    /\ Save(Phase0({v \in AllVols : OnOld(v)} \cup Binds))
    /\ Goto("prepare") /\ NoFault /\ UNCHANGED <<host, tree, box>>

\* _prepare (a journal that reached it skips it), then the marker, then the timers.
Prepare ==
    /\ At("prepare") /\ NoFault
    /\ IF Reached("prepared") THEN UNCHANGED j ELSE Phase("prepared")
    /\ Goto("marker") /\ UNCHANGED <<host, tree, box>>

SetMarker(step, next) ==
    /\ At(step) /\ marker' = TRUE /\ Goto(next)
    /\ NoFault /\ UNCHANGED <<j, conf, rec, daemon, timers, tree, box>>

StopTimers(step, next) ==
    /\ At(step) /\ timers' = FALSE /\ Goto(next)
    /\ NoFault /\ UNCHANGED <<j, conf, rec, daemon, marker, tree, box>>

Quiesce ==
    /\ At("quiesce") /\ NoFault
    /\ IF Reached("switched") THEN Goto("rebuild") /\ UNCHANGED <<j, box>>
       ELSE /\ box' = [box EXCEPT !.old = Stopped(@)]
            /\ Phase("quiesced") /\ Goto("switch-stop")
    /\ UNCHANGED <<host, tree>>

\* to_remapped: the daemon stops, our daemon.json, the record, the daemon starts.
ToRemapped ==
    \/ /\ At("switch-stop") /\ StopDaemon /\ Goto("switch-config") /\ UNCHANGED <<j, conf, rec>>
    \/ /\ At("switch-config") /\ conf' = "ours" /\ Goto("switch-record")
       /\ UNCHANGED <<j, rec, daemon, box>>
    \/ /\ At("switch-record") /\ rec' = TRUE /\ Goto("switch-start")
       /\ UNCHANGED <<j, conf, daemon, box>>
    \/ /\ At("switch-start") /\ StartDaemon /\ Phase("switched") /\ Goto("rebuild")
       /\ UNCHANGED <<conf, rec>>
Switch == ToRemapped /\ NoFault /\ UNCHANGED <<marker, timers, tree>>

\* The remapped daemon does not start: back_to_prior, then the box comes up again.
SwitchFails ==
    /\ At("switch-start") /\ Fault /\ Call("back-stop", "undo-up")
    /\ UNCHANGED <<j, host, tree, box>>

RestoreTimers(step, next) ==
    /\ At(step) /\ timers' = (timers \/ j.timers) /\ Goto(next)
    /\ NoFault /\ UNCHANGED <<j, conf, rec, daemon, marker, tree, box>>

ClearMarker(step, next) ==
    /\ At(step) /\ marker' = FALSE /\ Goto(next)
    /\ NoFault /\ UNCHANGED <<j, conf, rec, daemon, timers, tree, box>>

Finish(step, phase) ==
    /\ At(step) /\ Phase(phase) /\ End
    /\ NoFault /\ UNCHANGED <<host, tree, box>>

\* _rebuild: any tree of the inventory whose item is not done yet.
Rebuild ==
    /\ At("rebuild") /\ NoFault
    /\ \/ \E v \in j.inv \ Binds :
            /\ j.items[v] \in {"none", "created"}
            /\ Save([j EXCEPT !.items[v] = "created"]) /\ GotoOn("move", v)
       \/ \E t \in j.inv :
            /\ j.items[t] = "moved" \/ (t \in Binds /\ j.items[t] = "none")
            /\ GotoOn("list", t) /\ UNCHANGED j
       \/ /\ \A t \in j.inv : j.items[t] = "shifted"
          /\ IF Reached("rebuilt") THEN UNCHANGED j ELSE Phase("rebuilt")
          /\ Goto("bring-up")
    /\ UNCHANGED <<host, tree, box>>

\* Mutant: a move that already happened is taken for missing data.
Renamed_Fresh(t, to) == [t EXCEPT !.root = IF @ = to THEN "lost" ELSE to]

\* volumes.move: a rename, or nothing when a crash came after it.
Renamed(t, to) == [t EXCEPT !.root = to]

Move(step, next, to) ==
    /\ At(step) /\ tree' = [tree EXCEPT ![cur] = Renamed(@, to)]
    /\ Goto(next) /\ NoFault /\ UNCHANGED <<j, host, box>>

SaveItem(step, next, item) ==
    /\ At(step) /\ Save([j EXCEPT !.items[cur] = item]) /\ Goto(next)
    /\ NoFault /\ UNCHANGED <<host, tree, box>>

\* The item each bring-up has in the journal; an undone switch drops its own.
AlreadyUp ==
    \/ At("bring-up") /\ j.up
    \/ At("rb-up") /\ j.rbUp
    \/ At("abort-up") /\ j.abortUp

\* bring_up: a journalled `up` is not redone, and a failure is journalled.
BringUp(step, next, root, done, saved) ==
    /\ At(step) /\ Goto(next)
    /\ \/ done /\ NoFault /\ UNCHANGED <<j, box>>
       \/ ~done /\ NoFault /\ box' = [box EXCEPT ![root] = "up"] /\ Save(saved)
       \/ ~done /\ Fault /\ UNCHANGED <<j, box>>
    /\ UNCHANGED <<host, tree>>

Migrate ==
    \/ Inventory \/ Prepare \/ SetMarker("marker", "timers") \/ StopTimers("timers", "quiesce")
    \/ Quiesce \/ Switch \/ SwitchFails
    \/ BringUp("undo-up", "undo-timers", "old", AlreadyUp, j)
    \/ RestoreTimers("undo-timers", "undo-marker")
    \/ ClearMarker("undo-marker", "undo-save") \/ Finish("undo-save", "started")
    \/ Rebuild \/ Move("move", "save-moved", "new") \/ SaveItem("save-moved", "list", "moved")
    \/ SaveItem("save-shifted", "rebuild", "shifted")
    \/ BringUp("bring-up", "on-timers", "new", AlreadyUp, [j EXCEPT !.up = TRUE])
    \/ RestoreTimers("on-timers", "on-marker") \/ ClearMarker("on-marker", "apply")
    \/ Finish("apply", "applied")

-----------------------------------------------------------------------------
(* userns-rollback.                                                        *)

\* Before the switch nothing was carried: `abort`.  Later, until the quiesce is
\* journalled, the remapped daemon is inventoried (again on a resume).
RollbackStart ==
    /\ run = "none" /\ run' = "rollback" /\ NoFault
    /\ j.phase \notin {"none", "committed", "rolled-back"} /\ ~j.committing
    /\ CASE IsForward /\ ~Reached("switched") ->
              /\ pc' = "prior" /\ after' = "abort-up" /\ UNCHANGED <<j, host, box>>
         [] ~IsForward /\ Reached("rb-quiesced") ->
              /\ pc' = "rb-restore" /\ after' = "none" /\ UNCHANGED <<j, host, box>>
         [] OTHER ->
              /\ conf = "ours" /\ rec
              /\ IF daemon = "none" THEN StartDaemon ELSE UNCHANGED <<daemon, box>>
              /\ Save([j EXCEPT !.phase = IF IsForward THEN "rb-started" ELSE @,
                                !.rinv = {v \in AllVols : OnNew(v)}])
              /\ pc' = "rb-save" /\ after' = "none" /\ UNCHANGED <<conf, rec, marker, timers>>
    /\ UNCHANGED <<cur, tree>>

RbSaved ==
    /\ At("rb-save") /\ Phase("rb-saved") /\ Goto("rb-marker")
    /\ NoFault /\ UNCHANGED <<host, tree, box>>

\* Mutant: the remapped containers are left, only stopped.
RbQuiesce_KeepsContainers ==
    /\ NoFault
    /\ \/ /\ At("rb-quiesce") /\ box' = [box EXCEPT !.new = Stopped(@)]
          /\ Goto("rb-stop") /\ UNCHANGED <<j, daemon>>
       \/ /\ At("rb-stop") /\ StopDaemon /\ Goto("rb-quiesced") /\ UNCHANGED j
       \/ /\ At("rb-quiesced") /\ Phase("rb-quiesced") /\ Goto("rb-restore")
          /\ UNCHANGED <<daemon, box>>
    /\ UNCHANGED <<conf, rec, marker, timers, tree>>

\* quiesce, then every container of the remapped daemon is removed, the daemon stops.
RbQuiesce ==
    /\ NoFault
    /\ \/ /\ At("rb-quiesce") /\ box' = [box EXCEPT !.new = Stopped(@)]
          /\ Goto("rb-remove") /\ UNCHANGED <<j, daemon>>
       \/ /\ At("rb-remove") /\ box' = [box EXCEPT !.new = "none"]
          /\ Goto("rb-stop") /\ UNCHANGED <<j, daemon>>
       \/ /\ At("rb-stop") /\ StopDaemon /\ Goto("rb-quiesced") /\ UNCHANGED j
       \/ /\ At("rb-quiesced") /\ Phase("rb-quiesced") /\ Goto("rb-restore")
          /\ UNCHANGED <<daemon, box>>
    /\ UNCHANGED <<conf, rec, marker, timers, tree>>

\* After the quiesce: where a resumed run goes on; a reboot started the daemon.
RbResume ==
    /\ At("rb-restore") /\ NoFault
    /\ CASE Reached("rb-switched") ->
              /\ Goto("rb-soak")
              /\ IF daemon = "none" THEN StartDaemon ELSE UNCHANGED <<daemon, box>>
         [] Reached("rb-restored") /\ ~Reached("rb-switched") ->
              Call("back-stop", "rb-switched") /\ UNCHANGED <<daemon, box>>
         [] OTHER -> StopDaemon /\ Goto("rb-trees")
    /\ UNCHANGED <<j, conf, rec, marker, timers, tree>>

\* _where: made during the soak, never moved, or moved out of the old root.
Where(v) ==
    IF ~tree[v].oldDir THEN "soak" ELSE IF OnOld(v) THEN "stayed" ELSE "old"

\* _restore_data: one tree of the inventories at a time.
RestoreData ==
    /\ At("rb-trees") /\ NoFault
    /\ \/ \E v \in j.rinv :
            \/ /\ j.rb[v] = "none" /\ Save([j EXCEPT !.rb[v] = Where(v)]) /\ Goto("rb-trees")
            \/ j.rb[v] = "old" /\ GotoOn("rb-move", v) /\ UNCHANGED j
            \/ j.rb[v] = "moved" /\ GotoOn("rb-list", v) /\ UNCHANGED j
       \/ \E b \in Binds : j.rb[b] = "none" /\ GotoOn("rb-list", b) /\ UNCHANGED j
       \/ /\ \A v \in j.rinv : j.rb[v] \in {"soak", "stayed", "restored"}
          /\ \A b \in Binds : j.rb[b] = "restored"
          /\ Phase("rb-restored") /\ Call("back-stop", "rb-switched")
    /\ UNCHANGED <<host, tree, box>>

RbSaveItem(step, next, item) ==
    /\ At(step) /\ Save([j EXCEPT !.rb[cur] = item]) /\ Goto(next)
    /\ NoFault /\ UNCHANGED <<host, tree, box>>

RbSwitched ==
    /\ At("rb-switched") /\ Phase("rb-switched") /\ Goto("rb-soak")
    /\ NoFault /\ UNCHANGED <<host, tree, box>>

\* _soak_volumes: made in the old daemon (its directory with them), then moved.
SoakVolumes ==
    /\ At("rb-soak") /\ NoFault
    /\ \/ \E v \in j.rinv : /\ j.rb[v] \in {"soak", "soak-created"}
                            /\ tree' = [tree EXCEPT ![v].oldDir = TRUE]
                            /\ Save([j EXCEPT !.rb[v] = "soak-created"])
                            /\ GotoOn("soak-move", v)
       \/ \E v \in j.rinv : /\ j.rb[v] = "soak-moved" /\ GotoOn("rb-list", v)
                            /\ UNCHANGED <<j, tree>>
       \/ /\ \A v \in j.rinv : j.rb[v] \in {"stayed", "restored", "soak-restored"}
          /\ IF Reached("rb-rebuilt") THEN UNCHANGED j ELSE Phase("rb-rebuilt")
          /\ Goto("rb-up") /\ UNCHANGED tree
    /\ UNCHANGED <<host, box>>

\* The remapped root goes, with whatever is still in it.
RemoveNewRoot ==
    /\ At("rb-rmtree") /\ Goto("rb-timers")
    /\ tree' = [t \in Trees |-> IF tree[t].root = "new" THEN [tree[t] EXCEPT !.root = "lost"]
                                ELSE tree[t]]
    /\ box' = [box EXCEPT !.new = "none"] /\ NoFault /\ UNCHANGED <<j, host>>

Abort ==
    \/ BringUp("abort-up", "abort-timers", "old", AlreadyUp, [j EXCEPT !.abortUp = TRUE])
    \/ RestoreTimers("abort-timers", "abort-marker") \/ ClearMarker("abort-marker", "abort-save")
    \/ Finish("abort-save", "rolled-back")

Reverse ==
    \/ RbSaved \/ SetMarker("rb-marker", "rb-stop-timers")
    \/ StopTimers("rb-stop-timers", "rb-quiesce")
    \/ RbQuiesce \/ RbResume \/ RestoreData
    \/ Move("rb-move", "rb-save-moved", "old") \/ RbSaveItem("rb-save-moved", "rb-list", "moved")
    \/ RbSaveItem("rb-save-restored", IF Reached("rb-switched") THEN "rb-soak" ELSE "rb-trees",
                  IF Reached("rb-switched") THEN "soak-restored" ELSE "restored")
    \/ RbSwitched \/ SoakVolumes
    \/ Move("soak-move", "soak-save-moved", "old")
    \/ RbSaveItem("soak-save-moved", "rb-soak", "soak-moved")
    \/ BringUp("rb-up", "rb-rmtree", "old", AlreadyUp, [j EXCEPT !.rbUp = TRUE])
    \/ RemoveNewRoot
    \/ RestoreTimers("rb-timers", "rb-clear") \/ ClearMarker("rb-clear", "rb-done")
    \/ Finish("rb-done", "rolled-back")

-----------------------------------------------------------------------------
(* userns-commit.                                                          *)

\* _checked: applied, remapped, healthy, and no volume's data in the old root.
Committable ==
    /\ j.phase = "applied" /\ daemon = "new" /\ box.new = "up"
    /\ \A v \in AllVols : tree[v].root # "old"

\* The start is journalled, the old root is deleted, the end is journalled.
Commit ==
    /\ NoFault
    /\ \/ /\ run = "none" /\ Committable
          /\ run' = "commit" /\ pc' = "delete" /\ UNCHANGED <<after, cur, tree, box>>
          /\ Save([j EXCEPT !.committing = TRUE])
       \/ /\ At("delete") /\ Goto("committed")
          /\ tree' = [t \in Trees |->
                        [tree[t] EXCEPT !.oldDir = FALSE,
                                        !.root = IF @ = "old" THEN "lost" ELSE @]]
          /\ box' = [box EXCEPT !.old = "none"] /\ UNCHANGED j
       \/ At("committed") /\ Phase("committed") /\ End /\ UNCHANGED <<tree, box>>
    /\ UNCHANGED host

-----------------------------------------------------------------------------
(* What happens around a run.                                              *)

Kill == run # "none" /\ Fault /\ End /\ UNCHANGED <<j, host, tree, box>>

Reboot ==
    /\ Fault /\ End
    /\ daemon' = ConfiguredDaemon
    /\ LET left == [r \in {"old", "new"} |-> Halted(box[r])]
       IN  \E c \in Restarts(left[ConfiguredDaemon]) :
             box' = [left EXCEPT ![ConfiguredDaemon] = c]
    /\ UNCHANGED <<j, conf, rec, marker, timers, tree>>

\* A running project drops a file's setuid bit.
Soak ==
    /\ run = "none" /\ ~marker /\ daemon # "none" /\ box[daemon] = "up" /\ NoFault
    /\ \E t \in Trees : /\ tree[t].root \in {daemon, "path"}
                        /\ tree[t].suid
                        /\ tree' = [tree EXCEPT ![t].suid = FALSE, ![t].want = FALSE]
    /\ UNCHANGED <<command, j, host, box>>

\* A new project's deploy takes its own lock, which no run holds, and looks at
\* the marker.
NewProject ==
    /\ run = "none" \/ LateProjects
    /\ ~marker /\ daemon # "none" /\ box[daemon] = "up"
    /\ tree[New].root = "none" /\ NoFault
    /\ tree' = [tree EXCEPT ![New] = [@ EXCEPT !.root = daemon, !.oldDir = daemon = "old",
                                               !.ids = IF daemon = "new" THEN "remap" ELSE "host"]]
    /\ UNCHANGED <<command, j, host, box>>

Steps ==
    \/ BackStop \/ BackConfig \/ BackRecord \/ BackStart \/ EnsurePrior
    \/ ListSetid \/ RbListSetid \/ Shift
    \/ Migrate \/ Abort \/ Reverse

Next ==
    \/ MigrateStart \/ RollbackStart \/ Commit \/ Steps
    \/ Kill \/ Reboot \/ Soak \/ NewProject

Spec == Init /\ [][Next]_vars

\* A command runs on, and the operator answers the alert that the marker is set.
FairSpec == Spec /\ WF_vars(Steps) /\ WF_vars(marker /\ (MigrateStart \/ RollbackStart))

-----------------------------------------------------------------------------
(* Properties.                                                             *)

\* The types of the variables (journal.py's _TYPES among them).
TypeOK ==
    /\ run \in {"none", "migrate", "rollback", "commit"} /\ cur \in Trees
    /\ (run = "none" <=> pc = "idle")
    /\ j.phase \in Phases /\ j.inv \subseteq Trees /\ j.rinv \subseteq AllVols
    /\ \A t \in Trees :
         /\ j.items[t] \in {"none", "created", "moved", "shifted"}
         /\ j.rb[t] \in {"none", "old", "stayed", "moved", "restored",
                         "soak", "soak-created", "soak-moved", "soak-restored"}
         /\ {j.setid[t], j.rbSetid[t]} \subseteq Listed
    /\ \A b \in {rec, marker, timers, j.up, j.rbUp, j.abortUp, j.timers, j.committing} :
         b \in BOOLEAN
    /\ conf \in {"prior", "ours"} /\ daemon \in {"old", "new", "none"}
    /\ \A t \in Trees : tree[t] \in [root : {"none", "old", "new", "path", "lost"},
                                      oldDir : BOOLEAN, ids : {"host", "part", "remap"},
                                      suid : BOOLEAN, want : BOOLEAN]
    /\ box.old \in {"none", "stopped", "halted", "up"}
    /\ box.new \in {"none", "stopped", "halted", "up"}
    /\ faults \in 0 .. MaxFaults

\* A soak volume being carried back: nothing of the old root refers to it yet.
InTransit(v) == j.rb[v] \in {"soak-created", "soak-moved"}

\* rollback.py: a container never runs on data of the other daemon or only
\* partly shifted: those the old daemon starts find every volume back and
\* every tree unshifted, the remapped ones find all carried and shifted,
\* whenever the box reboots.  And the old daemon, which drops a volume whose
\* _data is missing when it starts, never runs while one of its volumes is in
\* the remapped root.
RunsOnItsData ==
    /\ box.old = "up" =>
         \A t \in Trees : t \in Binds \/ (tree[t].oldDir /\ ~InTransit(t)) =>
           tree[t].root \in {"old", "path"} /\ tree[t].ids = "host"
    /\ box.new = "up" =>
         \A t \in Trees : tree[t].root # "none" =>
           tree[t].root \in {"new", "path"} /\ tree[t].ids = "remap"
    /\ daemon = "old" =>
         \A v \in AllVols : tree[v].oldDir /\ ~InTransit(v) => tree[v].root = "old"

\* marker.py: while project commands are not refused, the timers a run turned
\* off run again, and the running daemon has every volume's data, with its own
\* ids: a deploy cannot start a project on a new, empty volume beside its data.
MarkerCovers ==
    ~marker =>
      /\ timers
      /\ daemon # "none" =>
           \A t \in Trees : tree[t].root # "none" =>
             /\ tree[t].root \in {daemon, "path"}
             /\ tree[t].ids = IF daemon = "new" THEN "remap" ELSE "host"

\* No command, resumed or reversed at any step, deletes data a project uses.
NothingLost == \A t \in Trees : tree[t].root # "lost"

\* shift.py: whenever projects may run freely, every entry's setuid bit is what
\* its owner last set: chown cleared none for good, none came back that the
\* soak had dropped.
ShiftsKeepModes == ~marker => \A t \in Trees : tree[t].suid = tree[t].want

\* The rollback that abandons a migration before its switch journals `up` once
\* the box is up: a run that finds it journalled leaves the box up.
AbandonedIsUp == At("abort-save") /\ j.abortUp => box.old = "up"

\* A marker that is set comes down, whatever the kills, as long as the operator
\* runs one of the two commands again.
MarkerClears == marker ~> ~marker
=============================================================================
