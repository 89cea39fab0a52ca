---------------------------- MODULE ContainerUpdate ----------------------------
(***************************************************************************)
(* The images of one project: the daily container-update (pull, recreate,  *)
(* health check, rollback), its dry run, the guard against images whose    *)
(* USER changed (user_drift.py), and what else pulls or starts: resume,    *)
(* deploy, and every restart.                                              *)
(*                                                                         *)
(* Each holds the project lock from its first step to its last.  A tag of  *)
(* the local image store is global: another project may pull it too.       *)
(***************************************************************************)
EXTENDS Naturals

CONSTANTS Services,   \* the project's services that run a registry image
          Follows,    \* those that run as their image's own user
          Refs, RefOf,\* the image references, and each service's
          Shared,     \* the references another project pulls as well
          Strategy,   \* container_updates.strategy
          MaxImages,  \* images published
          MaxFaults   \* kills and failed steps in a behaviour

ASSUME ContainerUpdateAssumption ==
    /\ Follows \subseteq Services /\ RefOf \in [Services -> Refs] /\ Shared \subseteq Refs
    /\ Strategy \in {"leave_broken", "rollback_to_previous"}
    /\ MaxImages \in Nat /\ MaxFaults \in Nat

VARIABLES
    registry,  \* the image each reference names in the registry
    store,     \* and in the local image store
    runs,      \* the image each service's containers were made from
    users,     \* state/deploy: the image USER each service's user was decided from
    held,      \* state/deploy/<project>.user-drift.json
    cand,      \* the candidate tag of a service
    paused,
    open,      \* the install transaction: none, begun, or past its hook
    last,      \* the status the last container-update recorded
    op,        \* the command under the project lock
    loose,     \* history: images that a cut or foreign pull, or a cut deploy, left named
    published, faults

vars == <<registry, store, runs, users, held, cand, paused, open, last, op, loose,
          published, faults>>
names == <<store, cand, loose>>
records == <<users, held, last>>
project == <<paused, open>>
world == <<registry, published>>

Images == [n : 0 .. MaxImages, user : {"app", "root"}, works : BOOLEAN]
First == [n |-> 0, user |-> "app", works |-> TRUE]
NoImage == [n |-> 0, user |-> "none", works |-> FALSE]

Nobody == [cmd |-> "idle", pc |-> "idle", before |-> [s \in Services |-> First],
           changed |-> {}, moved |-> {}, todo |-> {}]

Init ==
    /\ registry = [r \in Refs |-> First] /\ store = registry
    /\ runs = [s \in Services |-> First]
    /\ users = [s \in Services |-> "app"] /\ held = {} /\ last = "none"
    /\ cand = [s \in Services |-> NoImage]
    /\ paused = FALSE /\ open = "no"
    /\ op = Nobody /\ loose = {}
    /\ published = 0 /\ faults = 0

Named(s) == store[RefOf[s]]
Names(s, image) == store' = [store EXCEPT ![RefOf[s]] = image]

At(pc) == op.pc = pc
Begin(cmd, pc, todo, before) ==
    /\ op = Nobody
    /\ op' = [Nobody EXCEPT !.cmd = cmd, !.pc = pc, !.todo = todo, !.before = before]
Goto(pc, todo) == op' = [op EXCEPT !.pc = pc, !.todo = todo]
Without(s) == op' = [op EXCEPT !.todo = @ \ {s}]
End == op' = Nobody
Fault == faults < MaxFaults /\ faults' = faults + 1
NoFault == UNCHANGED faults

\* persist_result: of the commands here only the update records a status.
Ends(status) ==
    /\ End
    /\ last' = IF op.cmd = "update" THEN status ELSE last

-----------------------------------------------------------------------------
(* Pull and guard: container-update, its dry run, resume.                  *)

\* Mutant: a pull is compared with what the tags named before it.
UpdateBegins_Store ==
    /\ ~paused /\ Begin("update", "pull", Services, [s \in Services |-> Named(s)])
    /\ UNCHANGED <<world, names, records, runs, project, faults>>

\* running_images: what a pull is compared with, and what a rollback restores.
\* A paused project is only pulled for, and a dry run never recreates.
UpdateBegins ==
    /\ ~paused /\ Begin("update", "pull", Services, runs)
    /\ UNCHANGED <<world, names, records, runs, project, faults>>

DryRunBegins ==
    /\ Begin("dry", "pull", Services, runs)
    /\ UNCHANGED <<world, names, records, runs, project, faults>>

\* image_ids: resume compares with what the tags named before its pull.
ResumeBegins ==
    /\ paused /\ open = "no"
    /\ \/ Begin("resume", "pull", Services, [s \in Services |-> Named(s)])
       \/ Begin("resume", "up", {}, runs)  \* --skip-security-checks
    /\ UNCHANGED <<world, names, records, runs, project, faults>>

Pull ==
    /\ At("pull") /\ NoFault
    /\ \E s \in op.todo :
         /\ Names(s, registry[RefOf[s]])
         /\ IF op.todo = {s} THEN Goto("detect", {}) ELSE Without(s)
    /\ UNCHANGED <<world, cand, loose, records, runs, project>>

\* detect_image_changes
Changed == {s \in Services : Named(s) # op.before[s]}

\* Mutant: what is held back already is not looked at again.
Drifted_New(changed) == {s \in changed \cap Follows : Named(s).user # users[s] /\ s \notin held}

\* drift: the changed images of services that follow them, with another USER.
Drifted(changed) == {s \in changed \cap Follows : Named(s).user # users[s]}

Detect ==
    /\ At("detect") /\ NoFault
    /\ LET changed == Changed
           moved == Drifted(changed)
       IN CASE moved # {} ->
                 /\ op' = [op EXCEPT !.pc = "hold", !.todo = moved, !.moved = moved,
                                     !.changed = changed]
                 /\ UNCHANGED last
            [] moved = {} /\ op.cmd = "resume" -> Goto("up", {}) /\ UNCHANGED last
            [] moved = {} /\ op.cmd = "update" /\ changed # {} ->
                 /\ op' = [op EXCEPT !.pc = "backup", !.moved = {}, !.changed = changed]
                 /\ UNCHANGED last
            [] OTHER -> Ends("no_change")
    /\ UNCHANGED <<world, names, users, held, runs, project>>

\* guard_pull: the tags of what drifted go back, ...
HoldBack ==
    /\ At("hold") /\ NoFault
    /\ \E s \in op.todo :
         /\ Names(s, op.before[s])
         /\ IF op.todo = {s} THEN Goto("drift", {}) ELSE Without(s)
    /\ UNCHANGED <<world, cand, loose, records, runs, project>>

\* Mutant: the update leaves the project's other new images named.
RecordDrift_Rest ==
    /\ At("drift") /\ NoFault
    /\ held' = held \cup op.moved
    /\ CASE op.cmd = "resume" -> Goto("up", {}) /\ UNCHANGED last
         [] OTHER -> Ends("user_changed")
    /\ UNCHANGED <<world, names, users, runs, project>>

\* ... the services are recorded for the next deploy, ...
RecordDrift ==
    /\ At("drift") /\ NoFault
    /\ held' = held \cup op.moved
    /\ CASE op.cmd = "resume" -> Goto("up", {}) /\ UNCHANGED last
         [] op.cmd = "update" /\ op.changed # op.moved ->
              Goto("holdRest", op.changed \ op.moved) /\ UNCHANGED last
         [] OTHER -> Ends("user_changed")
    /\ UNCHANGED <<world, names, users, runs, project>>

\* ... and an update takes every other changed tag back too.
HoldRest ==
    /\ At("holdRest") /\ NoFault
    /\ \E s \in op.todo :
         /\ Names(s, op.before[s])
         /\ IF op.todo = {s} THEN Ends("user_changed") ELSE Without(s) /\ UNCHANGED last
    /\ UNCHANGED <<world, cand, loose, users, held, runs, project>>

-----------------------------------------------------------------------------
(* Recreate, judge, roll back.                                             *)

Backup ==
    /\ At("backup") /\ NoFault
    /\ IF open = "no" THEN Goto("recreate", {}) /\ UNCHANGED last
                      ELSE Ends("failed")  \* the start is refused
    /\ UNCHANGED <<world, names, users, held, runs, project>>

Stale == {s \in Services : runs[s] # Named(s)}

\* `up` makes the containers again whose image is not the one now named.
Recreates(pc) ==
    /\ At(pc) /\ NoFault
    /\ \E s \in Stale : runs' = [runs EXCEPT ![s] = Named(s)]
    /\ UNCHANGED <<world, names, records, project, op>>

Recreated ==
    /\ Stale = {} /\ NoFault
    /\ CASE At("recreate") -> Goto("verdict", {}) /\ UNCHANGED <<paused, open>>
         [] At("back") -> Goto("backVerdict", {}) /\ UNCHANGED <<paused, open>>
         [] At("up") -> End /\ paused' = FALSE /\ open' = "no"
         [] OTHER -> FALSE
    /\ UNCHANGED <<world, names, records, runs>>

Healthy == \A s \in Services : runs[s].works

\* _maybe_rollback, or the failure as it stands.
RollsBack == IF Strategy = "rollback_to_previous" THEN Goto("retag", op.changed) /\ UNCHANGED last
             ELSE Ends("failed")

Verdict ==
    /\ At("verdict")
    /\ \/ Healthy /\ NoFault /\ Ends("succeeded")
       \/ (IF Healthy THEN Fault ELSE NoFault) /\ RollsBack
    /\ UNCHANGED <<world, names, users, held, runs, project>>

\* The image that ran may be older than the user's decision, when the deploy
\* that made it could not start.
Retag ==
    /\ At("retag") /\ NoFault
    /\ \E s \in op.todo :
         /\ Names(s, op.before[s])
         /\ IF op.todo = {s} THEN Goto("back", {}) ELSE Without(s)
         /\ loose' = IF op.before[s].user = users[s] THEN loose ELSE loose \cup {op.before[s].n}
    /\ UNCHANGED <<world, cand, records, runs, project>>

BackVerdict ==
    /\ At("backVerdict")
    /\ \/ Healthy /\ NoFault /\ Ends("rolled_back")
       \/ (IF Healthy THEN Fault ELSE NoFault) /\ Ends("failed")
    /\ UNCHANGED <<world, names, users, held, runs, project>>

-----------------------------------------------------------------------------
(* Deploy, which decides users, and the other starts.                      *)

\* An upgrade's restart, recover, a restore: nothing is pulled.
RestartBegins ==
    /\ ~paused /\ open = "no" /\ Begin("restart", "up", {}, runs)
    /\ UNCHANGED <<world, names, records, runs, project, faults>>

Pause ==
    /\ op = Nobody /\ ~paused /\ paused' = TRUE
    /\ UNCHANGED <<world, names, records, runs, open, op, faults>>

\* A deploy, or its rerun: candidates of an earlier attempt go first.
DeployBegins ==
    /\ ~paused
    /\ IF held = {} THEN Begin("deploy", "decide", {}, runs)
       ELSE Begin("deploy", "refetch", held, [s \in Services |-> Named(s)])
    /\ open' = IF open = "no" THEN "begun" ELSE open
    /\ cand' = [s \in Services |-> NoImage]
    /\ UNCHANGED <<world, store, loose, records, runs, paused, faults>>

\* _pull_again: a held-back image is pulled, given its candidate name, and its
\* real tag put back.
Refetch ==
    /\ At("refetch") /\ NoFault
    /\ \E s \in op.todo :
         /\ Names(s, registry[RefOf[s]])
         /\ IF op.todo = {s} THEN Goto("candidate", held) ELSE Without(s)
    /\ UNCHANGED <<world, cand, loose, records, runs, project>>

Candidate ==
    /\ At("candidate") /\ NoFault
    /\ \E s \in op.todo :
         /\ cand[s] = NoImage
         /\ cand' = [cand EXCEPT ![s] = Named(s)]
    /\ UNCHANGED <<world, store, loose, records, runs, project, op>>

TagBack ==
    /\ At("candidate") /\ NoFault
    /\ \E s \in op.todo :
         /\ cand[s] # NoImage
         /\ Names(s, op.before[s])
         /\ IF op.todo = {s} THEN Goto("decide", {}) ELSE Without(s)
    /\ UNCHANGED <<world, cand, loose, records, runs, project>>

DecidedFrom(s) == IF cand[s] # NoImage THEN cand[s] ELSE Named(s)

\* decide_release_users, the hook, and generate_release_config: from the hook
\* on the install cannot be abandoned.
Decide ==
    /\ At("decide") /\ NoFault
    /\ users' = [s \in Services |-> DecidedFrom(s).user]
    /\ open' = "hooked" /\ Goto("promote", {})
    /\ UNCHANGED <<world, names, held, last, runs, paused>>

\* promote_candidates: their names, then nothing is held back any more.
PromoteOne ==
    /\ At("promote") /\ NoFault
    /\ \E s \in Services :
         /\ cand[s] # NoImage
         /\ Names(s, cand[s]) /\ cand' = [cand EXCEPT ![s] = NoImage]
    /\ UNCHANGED <<world, loose, records, runs, project, op>>

Promoted ==
    /\ At("promote") /\ NoFault
    /\ \A s \in Services : cand[s] = NoImage
    /\ held' = {} /\ Goto("up", {})
    /\ UNCHANGED <<world, names, users, last, runs, project>>

Abandon ==
    /\ op = Nobody /\ open = "begun"
    /\ open' = "no" /\ cand' = [s \in Services |-> NoImage]
    /\ UNCHANGED <<world, store, loose, records, runs, paused, op, faults>>

-----------------------------------------------------------------------------
(* Failures, kills, and the world.                                         *)

\* Between a pull and what the command does about it, and where a deploy has
\* recorded its users and not yet named the images they were decided from.
Left == IF op.pc \in {"pull", "detect", "hold", "drift", "holdRest", "refetch", "candidate",
                      "promote"}
        THEN loose \cup {Named(s).n : s \in Stale} ELSE loose

\* An update records its failure, and rolls back what it began to recreate; a
\* refused start recreated nothing.  A resume stays paused; a deploy leaves
\* its install open before its switch, and closes it after.
StepFails ==
    /\ op # Nobody /\ ~At("verdict") /\ ~At("backVerdict") /\ Fault
    /\ \/ At("recreate") /\ RollsBack
       \/ (At("recreate") => runs = op.before) /\ Ends("failed")
    /\ open' = IF op.cmd = "deploy" /\ op.pc \in {"promote", "up"} THEN "no" ELSE open
    /\ loose' = Left
    /\ UNCHANGED <<world, store, cand, users, held, runs, paused>>

Kill ==
    /\ op # Nobody /\ Fault /\ End
    /\ loose' = Left
    /\ UNCHANGED <<world, store, cand, records, runs, project>>

Publish ==
    /\ published < MaxImages /\ published' = published + 1
    /\ \E r \in Refs, user \in {"app", "root"}, works \in BOOLEAN :
         /\ user = "app" \/ \E s \in Follows : RefOf[s] = r
         /\ registry' = [registry EXCEPT ![r] = [n |-> published', user |-> user, works |-> works]]
    /\ UNCHANGED <<names, records, runs, project, op, faults>>

\* Another project pulls one of the references.
OtherPull ==
    /\ \E r \in Shared : /\ store' = [store EXCEPT ![r] = registry[r]]
                       /\ loose' = loose \cup {registry[r].n}
    /\ UNCHANGED <<world, cand, records, runs, project, op, faults>>

Step == \/ Pull \/ Detect \/ HoldBack \/ RecordDrift \/ HoldRest \/ Backup
        \/ Recreates("recreate") \/ Recreates("back") \/ Recreates("up") \/ Recreated
        \/ Verdict \/ Retag \/ BackVerdict
        \/ Refetch \/ Candidate \/ TagBack \/ Decide \/ PromoteOne \/ Promoted

Next == \/ UpdateBegins \/ DryRunBegins \/ ResumeBegins \/ RestartBegins \/ Pause
        \/ DeployBegins \/ Abandon \/ Step \/ StepFails \/ Kill \/ Publish \/ OtherPull

Spec == Init /\ [][Next]_vars

\* A command that is not killed goes on; the daily run is a timer.
FairSpec == Spec /\ WF_vars(Step) /\ SF_vars(UpdateBegins)

-----------------------------------------------------------------------------
(* Properties.                                                             *)

Pcs == {"idle", "pull", "detect", "hold", "drift", "holdRest", "backup", "recreate", "verdict",
        "retag", "back", "backVerdict", "up", "refetch", "candidate", "decide", "promote"}

Ops == [cmd : {"idle", "update", "dry", "resume", "restart", "deploy"}, pc : Pcs,
        before : [Services -> Images], changed : SUBSET Services, moved : SUBSET Services,
        todo : SUBSET Services]
Statuses == {"none", "no_change", "succeeded", "failed", "user_changed", "rolled_back"}

\* Types.
TypeOK ==
    /\ registry \in [Refs -> Images] /\ store \in [Refs -> Images]
    /\ runs \in [Services -> Images] /\ users \in [Services -> {"app", "root"}]
    /\ held \subseteq Follows /\ cand \in [Services -> Images \cup {NoImage}]
    /\ paused \in BOOLEAN /\ open \in {"no", "begun", "hooked"}
    /\ last \in Statuses
    /\ op \in Ops /\ op.moved \subseteq op.changed \cap Follows
    /\ published \in 0 .. MaxImages /\ faults \in 0 .. MaxFaults

\* A service that runs as its image's user only ever starts as the user a
\* deploy decided, or again on the image it ran before, whoever pulled what
\* in between (user_drift.py: "only a deploy decides that").
StartsAsDecided ==
    [][\A s \in Follows : runs'[s] # runs[s] =>
          runs'[s].user = users[s] \/ runs'[s].n \in loose]_vars

\* The same without exception.  (user_drift.py: "Every path that pulls without
\* deciding users ... checks what it pulled")
OnlyDecidedStarts ==
    [][\A s \in Follows : runs'[s] # runs[s] => runs'[s].user = users[s]]_vars

\* What a dry run pulled waits for the next update, which rolls it back if it
\* is broken (container_update_cmd.py: "harmless - they'll be used the next
\* real run").
DryRunIsHarmless == [][op.cmd = "restart" => UNCHANGED runs]_vars

\* An update that was held back or rolled back leaves every service, and every
\* tag the next restart would start from, as it found the containers
\* (container_update.py: "every changed tag goes back, or the next restart of
\* any kind would run the new images").
FailedRunIsUndone ==
    [][last' # last /\ last' \in {"user_changed", "rolled_back"} =>
          \A s \in Services : \A image \in {runs'[s], Named(s)'} :
              image = op.before[s] \/ image.n \in loose']_vars

\* A published image ends up running, or the daily run reports why not: no
\* kill, dry run or failed step between the pull and the recreate makes a
\* later run take it for running.
UpdatesArrive ==
    []<>(\/ \A s \in Services : runs[s] = registry[RefOf[s]]
         \/ last \in {"failed", "user_changed", "rolled_back"}
         \/ paused \/ open # "no")
=============================================================================
