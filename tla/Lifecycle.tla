------------------------------ MODULE Lifecycle ------------------------------
(***************************************************************************)
(* One project between its holds: pause and CVE quarantine (each a record, *)
(* the maintenance page, a stop and restart policies set to "no"), the     *)
(* stop a staging data copy makes (the slot's production_stopped marker),  *)
(* the health monitor's critical stop, and everything that starts          *)
(* containers: resume, security resume, deploy, recover, the health tick,  *)
(* an upgrade's restart, and the Docker daemon when it restarts.           *)
(*                                                                         *)
(* A command holds the project lock from its checks to its last step, so   *)
(* only kills and daemon restarts come between its steps.  The project's   *)
(* containers are one; whether its images are clear is the scan's verdict; *)
(* the userns migration, which refuses all of these, has its own module.   *)
(***************************************************************************)
EXTENDS Naturals, Sequences

CONSTANTS Policies,  \* the restart policies a release's compose.yml names
          MaxFaults  \* kills, failed steps and daemon restarts in a behaviour

ASSUME PoliciesAssumption == "none" \notin Policies
ASSUME FaultsAssumption == MaxFaults \in Nat

VARIABLES
    op,      \* the command holding the lock, and its steps still to do
    hold,    \* the pause and the quarantine record
    box,     \* the containers: running?, their restart policy, the one they were made with
    rel,     \* the restart policy the release on disk names
    site,    \* the site file
    live,    \* what Caddy serves
    clear,   \* would a scan of the project's images find nothing to quarantine?
    marker,  \* the slot's production_stopped marker
    stop,    \* the monitor's stop: none, standing, or superseded by a later start
    open,    \* an install transaction is open
    faults

vars == <<op, hold, box, rel, site, live, clear, marker, stop, open, faults>>
release == <<rel, clear, open>>
web == <<site, live>>

Nobody == [cmd |-> "idle", todo |-> <<>>]
Unheld == [on |-> FALSE, complete |-> FALSE, saved |-> "none"]

Init ==
    /\ op = Nobody
    /\ hold = [pause |-> Unheld, quar |-> Unheld]
    /\ rel \in Policies
    /\ box = [run |-> "up", policy |-> rel, made |-> rel]
    /\ site = "project" /\ live = "project"
    /\ clear = TRUE /\ marker = FALSE /\ stop = "none" /\ open = FALSE
    /\ faults = 0

Idle == op = Nobody
Held == hold.pause.on \/ hold.quar.on
Up == box.run = "up"
Begin(cmd, steps) == Idle /\ op' = [cmd |-> cmd, todo |-> steps]
At(step) == ~Idle /\ Head(op.todo) = step
Done == op' = IF Len(op.todo) = 1 THEN Nobody ELSE [op EXCEPT !.todo = Tail(@)]
Record(r, new) == hold' = [hold EXCEPT ![r] = new]

----------------------------------------------------------------------------
\* The commands: their checks under the lock, and the steps that follow.

\* Both holds take the project down in the same order.
Down == <<"page", "reload", "stop", "save", "pin", "complete">>
StartAgain == <<"start", "unmark", "started">>

Pause ==
    /\ Begin("pause", <<"page", "reload", "stop", "unmark", "save", "pin", "complete">>)
    /\ ~(hold.pause.on /\ hold.pause.complete)
    /\ IF hold.pause.on THEN UNCHANGED hold ELSE Record("pause", [Unheld EXCEPT !.on = TRUE])
    /\ UNCHANGED <<box, release, web, marker, stop, faults>>

Resume ==
    /\ Begin("resume", <<"release", "up", "site", "reload", "clear", "started">>)
    /\ hold.pause.on /\ ~hold.quar.on /\ ~open
    /\ UNCHANGED <<hold, box, release, web, marker, stop, faults>>

Scan_NewOnly ==  \* a recorded quarantine is not re-asserted
    /\ Begin("scan", Down)
    /\ ~hold.quar.on /\ ~clear /\ Record("quar", [Unheld EXCEPT !.on = TRUE])
    /\ UNCHANGED <<box, release, web, marker, stop, faults>>

\* A scan re-asserts a quarantine whatever it finds, and takes a new one
\* for a finding.
Scan ==
    /\ Begin("scan", Down)
    /\ \/ hold.quar.on /\ UNCHANGED hold
       \/ ~hold.quar.on /\ ~clear /\ Record("quar", [Unheld EXCEPT !.on = TRUE])
    /\ UNCHANGED <<box, release, web, marker, stop, faults>>

SecurityResume ==
    /\ hold.quar.on /\ clear
    /\ \/ hold.pause.on /\ Begin("lift", <<"handOver", "clear">>)
       \/ /\ ~hold.pause.on /\ ~open
          /\ Begin("lift", <<"site", "reload", "release", "up", "clear">>)
    /\ UNCHANGED <<hold, box, release, web, marker, stop, faults>>

\* A quarantined project's release must scan clear; its deploy then lifts
\* the quarantine.  The files are the new release's from here on.
Deploy ==
    /\ ~hold.pause.on
    /\ IF hold.quar.on
       THEN Begin("fix", <<"site", "up", "reload", "smoke", "reload", "restore", "up",
                           "clear", "started", "close">>)
       ELSE Begin("deploy", <<"site", "up", "reload", "smoke", "started", "close">>)
    /\ rel' \in Policies
    /\ clear' \in BOOLEAN /\ (hold.quar.on => clear')
    /\ open' = TRUE
    /\ UNCHANGED <<hold, box, web, marker, stop, faults>>

\* The stage that copies production's data, from the marker on.
Copy ==
    /\ Begin("copy", <<"mark", "stop", "copy">> \o StartAgain)
    /\ ~hold.pause.on /\ Up /\ ~open
    /\ UNCHANGED <<hold, box, release, web, marker, stop, faults>>

MayTick == ~Held /\ ~open

TickStartsAgain_AfterStop ==  \* a standing monitor stop is looked at first
    /\ MayTick /\ marker /\ stop = "none"
    /\ Begin("tick", StartAgain)
    /\ UNCHANGED <<hold, box, release, web, marker, stop, faults>>

\* The tick starts what a copy left stopped, before it judges anything.
TickStartsAgain ==
    /\ MayTick /\ marker
    /\ Begin("tick", StartAgain)
    /\ UNCHANGED <<hold, box, release, web, marker, stop, faults>>

TickOK ==
    /\ Idle /\ MayTick /\ ~marker /\ stop = "superseded"
    /\ stop' = "none"
    /\ UNCHANGED <<op, hold, box, release, web, marker, faults>>

\* Only a container that runs can fail its smoke test critically.
TickCritical ==
    /\ MayTick /\ ~marker /\ stop # "standing" /\ Up
    /\ Begin("tick", <<"down", "stopped">>)
    /\ UNCHANGED <<hold, box, release, web, marker, stop, faults>>

Recover ==
    /\ ~Held /\ ~open /\ (marker \/ stop # "none")
    /\ Begin("recover", (IF marker THEN StartAgain ELSE <<>>) \o
                        (IF stop = "none" THEN <<>>
                         ELSE <<"up", "site", "reload", "judge", "started">>))
    /\ UNCHANGED <<hold, box, release, web, marker, stop, faults>>

Restart_Unblocked ==  \* the upgrade forgets the holds
    /\ stop # "standing" /\ ~open
    /\ Begin("restart", <<"up">>)
    /\ UNCHANGED <<hold, box, release, web, marker, stop, faults>>

Restart ==
    /\ ~Held /\ stop # "standing" /\ ~open
    /\ Begin("restart", <<"up">>)
    /\ UNCHANGED <<hold, box, release, web, marker, stop, faults>>

----------------------------------------------------------------------------
\* The steps.

Mine == IF op.cmd \in {"pause", "resume"} THEN "pause" ELSE "quar"

WritesSite ==
    /\ \/ At("page") /\ site' = "page"
       \/ At("site") /\ site' = "project"
    /\ Done /\ UNCHANGED <<hold, box, release, live, marker, stop, faults>>

Reload ==
    /\ At("reload") /\ live' = site
    /\ Done /\ UNCHANGED <<hold, box, release, site, marker, stop, faults>>

\* A deploy only warns that Caddy could not be reloaded.
ReloadMissed ==
    /\ At("reload") /\ op.cmd \in {"deploy", "fix"} /\ op.todo[2] = "smoke"
    /\ faults < MaxFaults /\ faults' = faults + 1
    /\ Done /\ UNCHANGED <<hold, box, release, web, marker, stop>>

Stops ==
    /\ \/ At("stop") /\ box' = [box EXCEPT !.run = IF Up THEN "stopped" ELSE @]
       \/ At("down") /\ box' = [box EXCEPT !.run = "gone"]
    /\ Done /\ UNCHANGED <<hold, release, web, marker, stop, faults>>

\* restart_hold.hold: the originals are kept before any policy changes, and
\* one already kept stays.
SavePolicies ==
    /\ At("save")
    /\ IF box.run = "gone" \/ hold[Mine].saved # "none"
       THEN UNCHANGED hold
       ELSE Record(Mine, [hold[Mine] EXCEPT !.saved = box.policy])
    /\ Done /\ UNCHANGED <<box, release, web, marker, stop, faults>>

Policy(to) == box' = [box EXCEPT !.policy = IF box.run = "gone" \/ to = "none" THEN @ ELSE to]

\* Set to "no", given back from the record, or (a fix's lift) the release's own.
SetPolicies ==
    /\ \/ At("pin") /\ Policy("no")
       \/ At("release") /\ Policy(hold[Mine].saved)
       \/ At("restore") /\ Policy(rel)
    /\ Done /\ UNCHANGED <<hold, release, web, marker, stop, faults>>

Complete ==
    /\ At("complete") /\ Record(Mine, [hold[Mine] EXCEPT !.complete = TRUE])
    /\ Done /\ UNCHANGED <<box, release, web, marker, stop, faults>>

HandOver_KeepsFirst ==  \* the pause record keeps what it has
    /\ At("handOver")
    /\ Record("pause", [hold.pause EXCEPT !.saved =
           IF @ = "none" THEN hold.quar.saved ELSE @])
    /\ Done /\ UNCHANGED <<box, release, web, marker, stop, faults>>

\* restart_hold.originals: a real policy over a "no" another hold set.
HandOver ==
    /\ At("handOver")
    /\ Record("pause", [hold.pause EXCEPT !.saved =
           IF @ \in {"none", "no"} /\ hold.quar.saved # "none" THEN hold.quar.saved ELSE @])
    /\ Done /\ UNCHANGED <<box, release, web, marker, stop, faults>>

ClearRecord ==
    /\ At("clear") /\ Record(Mine, Unheld)
    /\ Done /\ UNCHANGED <<box, release, web, marker, stop, faults>>

Made == [run |-> "up", policy |-> rel, made |-> rel]

\* `compose up` makes the containers that are gone, and makes again those
\* whose image or definition (the policy is part of it) changed, with the
\* release's policy; the copy's marker goes with it.
ComposeUp ==
    /\ At("up")
    /\ \/ box' = Made
       \/ box.run # "gone" /\ box.made = rel /\ box' = [box EXCEPT !.run = "up"]
    /\ marker' = FALSE
    /\ Done /\ UNCHANGED <<hold, release, web, stop, faults>>

\* start_again_from: nothing while a hold keeps the project down.
StartsAgain ==
    /\ At("start")
    /\ IF Held THEN op' = Nobody /\ UNCHANGED box
       ELSE Done /\ box' = IF box.run = "gone" THEN Made ELSE [box EXCEPT !.run = "up"]
    /\ UNCHANGED <<hold, release, web, marker, stop, faults>>

Marks ==
    /\ \/ At("mark") /\ marker' = TRUE
       \/ At("unmark") /\ marker' = FALSE
    /\ Done /\ UNCHANGED <<hold, box, release, web, stop, faults>>

\* The monitor's stop, and what ends it: a start recorded later
\* (last_started_at), or recover's own verdict.
MonitorStop ==
    /\ \/ At("stopped") /\ stop' = "standing"
       \/ At("started") /\ stop' = IF stop = "standing" THEN "superseded" ELSE stop
       \/ At("judge") /\ stop' \in {stop, "none"}
    /\ Done /\ UNCHANGED <<hold, box, release, web, marker, faults>>

Close ==
    /\ At("close") /\ open' = FALSE
    /\ Done /\ UNCHANGED <<hold, box, rel, clear, web, marker, stop, faults>>

\* The smoke test passing, the data copied.
Passes ==
    /\ At("smoke") \/ At("copy")
    /\ Done /\ UNCHANGED <<hold, box, release, web, marker, stop, faults>>

----------------------------------------------------------------------------
\* What goes wrong.

MayFail == {"site", "reload", "stop", "save", "pin", "release", "restore", "up", "start",
            "down", "smoke", "copy"}

Left(cmd, steps) == IF steps = <<>> THEN Nobody ELSE [cmd |-> cmd, todo |-> steps]

\* Where a failed step leaves its command.  A fix that fails takes the
\* project down again.  A deploy that fails at its configs stays open; from
\* the switch on it records its start, whatever failed, and closes.  A copy
\* starts production again.
AfterFailure ==
    CASE op.cmd \in {"deploy", "fix"} ->
           LET again == IF op.cmd = "fix" THEN Down ELSE <<>>
           IN  IF Head(op.todo) = "site" THEN Left("failed", again)
               ELSE Left("failed", <<"started">> \o again \o <<"close">>)
      [] op.cmd = "failed" ->
           Left("failed", IF op.todo[Len(op.todo)] = "close" THEN <<"close">> ELSE <<>>)
      [] op.cmd = "copy" /\ Head(op.todo) # "start" -> [op EXCEPT !.todo = StartAgain]
      [] OTHER -> Nobody

StepFails ==
    /\ ~Idle /\ Head(op.todo) \in MayFail
    /\ faults < MaxFaults /\ faults' = faults + 1
    /\ op' = AfterFailure
    /\ stop' = IF Head(op.todo) = "down" THEN "none" ELSE stop
    /\ UNCHANGED <<hold, box, release, web, marker>>

Kill ==
    /\ ~Idle /\ faults < MaxFaults
    /\ faults' = faults + 1 /\ op' = Nobody
    /\ UNCHANGED <<hold, box, release, web, marker, stop>>

\* The Docker daemon starts again (a reboot, a docker-ce upgrade).
DaemonRestarts ==
    /\ faults < MaxFaults /\ faults' = faults + 1
    /\ box' = [box EXCEPT !.run =
           CASE @ = "stopped" /\ box.policy = "always" -> "up"
             [] @ = "up" /\ box.policy = "no" -> "stopped"
             [] OTHER -> @]
    /\ UNCHANGED <<op, hold, release, web, marker, stop>>

\* The scanner's database, or a suppression, changes the verdict.
Verdict ==
    /\ Idle /\ clear' = ~clear
    /\ UNCHANGED <<op, hold, box, rel, web, marker, stop, open, faults>>

Step == \/ WritesSite \/ Reload \/ ReloadMissed \/ Stops \/ SavePolicies \/ SetPolicies
        \/ Complete \/ HandOver \/ ClearRecord \/ ComposeUp \/ StartsAgain \/ Marks
        \/ MonitorStop \/ Close \/ Passes \/ StepFails

Next == \/ Pause \/ Resume \/ Scan \/ SecurityResume \/ Deploy \/ Copy \/ TickStartsAgain
        \/ TickOK \/ TickCritical \/ Recover \/ Restart \/ Verdict
        \/ Step \/ Kill \/ DaemonRestarts

Spec == Init /\ [][Next]_vars

\* A command goes on until it ends; the scan and the tick are timers, which
\* find the lock free again and again.
FairSpec == Spec /\ WF_vars(Step) /\ SF_vars(Scan) /\ SF_vars(TickStartsAgain)

----------------------------------------------------------------------------
\* Properties.

AllPolicies == Policies \cup {"no"}

\* Types.
TypeOK ==
    /\ op \in [cmd : {"idle", "pause", "resume", "scan", "lift", "fix", "deploy", "copy",
                      "tick", "recover", "restart", "failed"},
               todo : Seq(MayFail \cup {"page", "complete", "handOver", "clear", "mark",
                                        "unmark", "stopped", "started", "judge", "close"})]
    /\ (op.cmd = "idle") = (op.todo = <<>>)
    /\ hold \in [{"pause", "quar"} -> [on : BOOLEAN, complete : BOOLEAN, saved : AllPolicies \cup {"none"}]]
    /\ box \in [run : {"up", "stopped", "gone"}, policy : AllPolicies, made : Policies]
    /\ rel \in Policies
    /\ site \in {"page", "project"} /\ live \in {"page", "project"}
    /\ clear \in BOOLEAN /\ marker \in BOOLEAN /\ open \in BOOLEAN
    /\ stop \in {"none", "standing", "superseded"}
    /\ faults \in 0 .. MaxFaults

\* Whenever a container is pinned at "no" that its release made with another
\* policy, a standing record keeps a real one to give back: through holds
\* that overlap in either order, a lift under a pause, a deploy that makes
\* the containers again, and a kill between any two steps.
\* (restart_hold.py hold, originals; pause.hand_over_restart_policies)
PoliciesKept ==
    box.run # "gone" /\ box.policy = "no" /\ box.made # "no" =>
        \E r \in {"pause", "quar"} : hold[r].on /\ hold[r].saved \notin {"none", "no"}

HeldDown == /\ \E r \in {"pause", "quar"} : hold[r].on /\ hold[r].complete
            /\ box.run = "stopped" /\ box.policy = "no"

\* A finished hold's stopped containers start again only in resume, in a
\* lift, or in the deploy that ships the fix: not in a tick, a recover, an
\* upgrade's restart, the end of a copy, or a Docker restart.  (lifecycle.py
\* is_blocked, checked under the lock by each; restart_hold.py)
HeldStaysDown ==
    [][HeldDown /\ Up' => op.cmd \in {"resume", "lift", "fix"}]_vars

\* A quarantine ends up lifted, or finished: the containers down, pinned,
\* behind the maintenance page, whatever failed or was killed on the way.
\* (security_enforce.enforce re-asserts on every scan, audit B-03)
QuarantineHolds ==
    hold.quar.on ~> (~hold.quar.on \/ /\ hold.quar.complete /\ live = "page"
                                      /\ ~Up /\ (box.run = "stopped" => box.policy = "no"))

\* Production a copy stopped is started again, or is held by someone else: no
\* kill, failed start, quarantine that lands on the copy or monitor stop
\* forgets it with production down.  (check_holds._stopped_for_copy,
\* production_stopped.start_again_from, pause_cmd._take_over_copy_stop)
MarkerRestarts == marker ~> (Up \/ Held \/ open)

\* A monitor stop never stands over containers that run: whatever starts
\* them also ends it.  (upgrade_steps.py _restart_locked, "Starting it would
\* leave the stop marker standing over a running project")
NoStopOverRunning == Idle /\ Up => stop # "standing"

=============================================================================
