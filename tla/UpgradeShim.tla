----------------------------- MODULE UpgradeShim -----------------------------
(***************************************************************************)
(* The platform upgrade (scripts/boxmunge-upgrade and boxmunge-upgrade.d): *)
(* two venv slots and the env-active link, the crash-safety markers, the   *)
(* swap, probation, rollback and its resumption, the blocklist and the     *)
(* interruption counts.                                                    *)
(*                                                                         *)
(* Shims are the shim processes an operator, deploy or the auto-update     *)
(* timer starts; the health timer's check-probation is a process of its    *)
(* own.  Each reads the active slot before it takes upgrade.lock.  A step  *)
(* is one durable write, or one subprocess whose outcome decides what      *)
(* comes next.  Kill ends one process, PowerCut all of them.               *)
(*                                                                         *)
(* A release is its version.  What is on disk besides the slots is the     *)
(* release whose inputs (manifests, config) are there, the one that        *)
(* generated the overlays and sites (0: some each), and config/version.    *)
(***************************************************************************)
EXTENDS Naturals

CONSTANTS Shims,     \* shim processes that upgrade
          MaxVersion,  \* releases 1 .. MaxVersion; 1 is installed, the others released
          Schema,      \* the manifest schema each release writes
          Faults       \* may processes be killed and power fail in this run?

ASSUME VersionAssumption == MaxVersion \in Nat \ {0}
ASSUME SchemaAssumption == Schema \in [1 .. MaxVersion -> Nat]
ASSUME ShimAssumption == {"timer", "free"} \cap Shims = {}
ASSUME FaultAssumption == Faults \in BOOLEAN

Timer == "timer"
Free == "free"
Procs == Shims \cup {Timer}
Versions == 1 .. MaxVersion
Released == 2 .. MaxVersion

Slots == {"a", "b"}
Other(s) == IF s = "a" THEN "b" ELSE "a"

\* A venv slot: its release (0: none, or half built) and, as history, whether
\* that build has passed probation or been accepted before it ended.
Venvs == [ver : Versions \cup {0}, proven : BOOLEAN]
NoVenv == [ver |-> 0, proven |-> FALSE]

\* The count a rollback will record: 0 for a release that failed, 1 and 2 for
\* one that was interrupted once, or more often.
Rollbacks == [ver : Versions, count : 0 .. 2]
NoRollback == [ver |-> 0, count |-> 0]

Probations == [ver : Versions, prev : Slots, expired : BOOLEAN]
NoProbation == [ver |-> 0, prev |-> "none", expired |-> FALSE]

\* A stash is a disk without what was generated.
Disks == [inputs : {Schema[v] : v \in Versions}, generated : Versions \cup {0},
          installed : Versions]

\* What a process is at: the version it installs or leaves, the slot to swap to,
\* the slot to fall back to (a rollback swaps to that one) and the count.
Jobs == [ver : Versions \cup {0}, to : Slots \cup {"none"},
         prev : Slots \cup {"none"}, count : 0 .. 2]
NoJob == [ver |-> 0, to |-> "none", prev |-> "none", count |-> 0]

VARIABLES
    slot,         \* env-a, env-b
    inflight,     \* env-<slot>/upgrade-inflight: the version, or 0
    rolling,      \* env-<slot>/rollback-inflight
    link,         \* env-active
    synced,       \* the link as it was last synced to disk
    activeFile,   \* upgrade-state/active-slot
    probation,    \* upgrade-state/probation.json
    blocklist,    \* upgrade-state/blocklist.json
    interrupted,  \* upgrade-root/interrupted.json: the versions it counts
    disk,         \* manifests and config, generated files, config/version
    stash,        \* the latest stash
    lock,         \* upgrade.lock
    pc, act, job, \* each process: its step, its ACTIVE_SLOT, its locals
    misread,      \* history: has a live probation been taken for a stale one?
    partial       \* history: is what is on disk left by a partial rollback?

slots == <<slot, inflight, rolling, link, synced, activeFile>>
counts == <<blocklist, interrupted>>
data == <<disk, stash, partial>>
vars == <<slots, probation, counts, data, lock, pc, act, job, misread>>

DiskOf(v) == [inputs |-> Schema[v], generated |-> v, installed |-> v]

Init ==
    /\ slot = [s \in Slots |-> IF s = "a" THEN [ver |-> 1, proven |-> TRUE] ELSE NoVenv]
    /\ inflight = [s \in Slots |-> 0]
    /\ rolling = [s \in Slots |-> NoRollback]
    /\ link = "a" /\ synced = "a" /\ activeFile = "a"
    /\ probation = NoProbation
    /\ blocklist = {}
    /\ interrupted = {}
    /\ disk = DiskOf(1)
    /\ stash = [disk EXCEPT !.generated = 0]
    /\ lock = Free
    /\ pc = [p \in Procs |-> "idle"]
    /\ act = [p \in Procs |-> "none"]
    /\ job = [p \in Procs |-> NoJob]
    /\ misread = FALSE /\ partial = FALSE

-----------------------------------------------------------------------------
(* What the shim asks of the files. *)

SlotWorks(s) == slot[s].ver # 0

TargetOk(s) == SlotWorks(s) /\ inflight[s] = 0   \* rollback_target_ok

RollbackPending == \E s \in Slots : rolling[s] # NoRollback

\* Evidence of a crash inside a swap (load_active_slot).
SwapMarked == RollbackPending \/ \E s \in Slots : inflight[s] # 0

\* load_probation: the file names the live slot, so an older rollback left it ...
StaleProbation(s) == probation # NoProbation /\ probation.prev = s /\ inflight[s] = 0

\* ... or a slot a rollback could use; on any other probation the shim stops.
OnProbation(s) ==
    probation # NoProbation /\ probation.prev # s /\ TargetOk(probation.prev)

NoProbationFor(s) == probation = NoProbation \/ StaleProbation(s)

\* Mutant: only the slot the process knows as live is protected.
MayRemove_OwnView(p, s) == s # act[p] /\ SlotWorks(act[p])

\* remove_slot: never the live slot, and not while the live one does not work.
MayRemove(p, s) == s # act[p] /\ link # s /\ SlotWorks(act[p])

Remove(s) ==
    /\ slot' = [slot EXCEPT ![s] = NoVenv]
    /\ inflight' = [inflight EXCEPT ![s] = 0]
    /\ rolling' = [rolling EXCEPT ![s] = NoRollback]

Work(p, next) ==
    /\ pc' = [pc EXCEPT ![p] = next]
    /\ UNCHANGED <<lock, act, job, misread>>

\* The process goes on with other locals.
WorkAs(p, next, locals) ==
    /\ pc' = [pc EXCEPT ![p] = next]
    /\ job' = [job EXCEPT ![p] = locals]
    /\ UNCHANGED <<lock, act, misread>>

\* Mutant: a process that ends inside upgrade_to leaves the lock.
Exit_KeepsLock(p) ==
    /\ pc' = [pc EXCEPT ![p] = "idle"]
    /\ act' = [act EXCEPT ![p] = "none"]
    /\ job' = [job EXCEPT ![p] = NoJob]
    /\ UNCHANGED lock

\* The process ends: the lock goes with it.
Exit(p) ==
    /\ pc' = [pc EXCEPT ![p] = "idle"]
    /\ act' = [act EXCEPT ![p] = "none"]
    /\ job' = [job EXCEPT ![p] = NoJob]
    /\ lock' = IF lock = p THEN Free ELSE lock

End(p) == Exit(p) /\ UNCHANGED misread

-----------------------------------------------------------------------------
(* Starting: the active slot is read first, the lock taken after.          *)

\* load_active_slot; it stops where link and file disagree without a marker.
Load ==
    /\ link = activeFile \/ SwapMarked
    /\ activeFile' = link
    /\ UNCHANGED <<slot, inflight, rolling, link, synced>>

Start(p) ==
    /\ pc[p] = "idle"
    /\ Load
    /\ act' = [act EXCEPT ![p] = link]
    /\ pc' = [pc EXCEPT ![p] = "lock"]
    /\ UNCHANGED <<probation, counts, data, lock, job, misread>>

\* The policy, a probation, an interrupted upgrade or rollback, or a busy lock
\* sends an upgrade away; only the lock sends check-probation away.
Decline(p) ==
    /\ pc[p] = "lock"
    /\ p = Timer => lock # Free
    /\ End(p)
    /\ UNCHANGED <<slots, probation, counts, data>>

\* acquire_lock, by a process that may have read the active slot long ago.
Take(p, next, locals) ==
    /\ lock = Free /\ lock' = p
    /\ pc' = [pc EXCEPT ![p] = next]
    /\ job' = [job EXCEPT ![p] = locals]
    /\ UNCHANGED <<slots, counts, data, act>>

\* check_policy: force-target is the operator's and obeys none.
PolicyAllows(v, mode) == mode = "force" \/ (v \notin blocklist /\ v >= disk.installed)

\* A stale probation is removed; stale from where the process looks.
ForgetProbation(p) ==
    /\ probation' = NoProbation
    /\ misread' = (misread \/ (probation # NoProbation /\ act[p] # link))

BeginUpgrade(p, v) ==
    /\ Take(p, "prepare", [ver |-> v, to |-> Other(act[p]), prev |-> act[p], count |-> 0])
    /\ ForgetProbation(p)

\* Mutant: a release on probation does not defer the next upgrade.
TakeForUpgrade_OnProbation(p) ==
    /\ p # Timer /\ pc[p] = "lock"
    /\ inflight[act[p]] = 0 /\ ~RollbackPending
    /\ \E v \in Released, mode \in {"run", "force"} :
          PolicyAllows(v, mode) /\ BeginUpgrade(p, v)

\* check_policy and refuse_during_probation (target is like run).
TakeForUpgrade(p) ==
    /\ p # Timer /\ pc[p] = "lock"
    /\ inflight[act[p]] = 0 /\ ~RollbackPending
    /\ NoProbationFor(act[p])
    /\ \E v \in Released, mode \in {"run", "force"} :
          PolicyAllows(v, mode) /\ BeginUpgrade(p, v)

TakeForCheck ==
    /\ pc[Timer] = "lock"
    /\ Take(Timer, "resume", NoJob)
    /\ UNCHANGED <<probation, misread>>

-----------------------------------------------------------------------------
(* upgrade_to: prepare, pre-flight, stash, swap, apply, verify, probation. *)

\* A full disk, or a standby that may not be removed, stops the shim.
Prepare(p) ==
    /\ pc[p] = "prepare"
    /\ \/ MayRemove(p, job[p].to) /\ Remove(job[p].to) /\ Work(p, "build")
       \/ End(p) /\ UNCHANGED <<slot, inflight, rolling>>
    /\ UNCHANGED <<link, synced, activeFile, probation, counts, data>>

\* The download, pip and the pre-flight checks; its dry run refuses a manifest
\* newer than the release.
Built(p) ==
    /\ pc[p] = "build"
    /\ disk.inputs <= Schema[job[p].ver]
    /\ slot' = [slot EXCEPT ![job[p].to] = [ver |-> job[p].ver, proven |-> FALSE]]
    /\ Work(p, "stash")
    /\ UNCHANGED <<inflight, rolling, link, synced, activeFile, probation, counts, data>>

\* preflight_fail, before the stash or after it (install.sh).
PreflightFails(p) ==
    /\ pc[p] \in {"build", "mark"}
    /\ MayRemove(p, job[p].to) /\ Remove(job[p].to)
    /\ Work(p, "blocklist")
    /\ UNCHANGED <<link, synced, activeFile, probation, counts, data>>

\* dependency_install_failed the first time, or stash_failed: not blocklisted.
GiveUp(p) ==
    /\ pc[p] \in {"build", "stash"}
    /\ MayRemove(p, job[p].to) /\ Remove(job[p].to)
    /\ End(p)
    /\ UNCHANGED <<link, synced, activeFile, probation, counts, data>>

Stash(p) ==
    /\ pc[p] = "stash"
    /\ stash' = [disk EXCEPT !.generated = 0]
    /\ Work(p, "mark")
    /\ UNCHANGED <<slots, probation, counts, disk, partial>>

\* The marker is on disk before the new slot can go live.
MarkInflight(p) ==
    /\ pc[p] = "mark"
    /\ inflight' = [inflight EXCEPT ![job[p].to] = job[p].ver]
    /\ synced' = link
    /\ Work(p, "swap")
    /\ UNCHANGED <<slot, rolling, link, activeFile, probation, counts, data>>

RollingBack(p) == job[p].to = job[p].prev

\* swap_to, for an upgrade and for a rollback: the link, the file, then sync.
SwapLink(p) ==
    /\ pc[p] = "swap"
    /\ UNCHANGED <<slot, inflight, rolling, synced, activeFile, probation, counts, data>>
    /\ IF SlotWorks(job[p].to)
       THEN link' = job[p].to /\ Work(p, "swapFile")
       ELSE End(p) /\ UNCHANGED link

SwapFile(p) ==
    /\ pc[p] = "swapFile"
    /\ activeFile' = job[p].to
    /\ act' = [act EXCEPT ![p] = job[p].to]
    /\ pc' = [pc EXCEPT ![p] = "swapSync"]
    /\ UNCHANGED <<slot, inflight, rolling, link, synced, probation, counts, data, lock,
                   job, misread>>

\* Mutant: the new slot is used before the swap is durable.
SwapSync_Skipped(p) ==
    /\ pc[p] = "swapSync"
    /\ Work(p, IF RollingBack(p) THEN "dropProbation" ELSE "apply")
    /\ UNCHANGED <<slots, probation, counts, data>>

SwapSync(p) ==
    /\ pc[p] = "swapSync"
    /\ synced' = link
    /\ Work(p, IF RollingBack(p) THEN "dropProbation" ELSE "apply")
    /\ UNCHANGED <<slot, inflight, rolling, link, activeFile, probation, counts, data>>

\* upgrade --apply by the live release migrates and regenerates project by
\* project; a manifest newer than the release fails it before it writes.
ApplyBegins(p) ==
    /\ pc[p] = "apply"
    /\ disk.inputs <= Schema[slot[act[p]].ver]
    /\ disk' = [disk EXCEPT !.inputs = Schema[slot[act[p]].ver], !.generated = 0]
    /\ Work(p, "applying")
    /\ UNCHANGED <<slots, probation, counts, stash, partial>>

\* config/version comes last.
ApplyEnds(p) ==
    /\ pc[p] = "applying"
    /\ disk' = [disk EXCEPT !.generated = slot[act[p]].ver, !.installed = slot[act[p]].ver]
    /\ partial' = FALSE
    /\ Work(p, IF RollingBack(p) THEN "dropMarker" ELSE "health")
    /\ UNCHANGED <<slots, probation, counts, stash>>

RollBack(p, ver, prev, count) ==
    WorkAs(p, "rollback", [ver |-> ver, to |-> prev, prev |-> prev, count |-> count])

\* An upgrade whose apply fails rolls back; a rollback's is a partial one.
ApplyFails(p) ==
    /\ pc[p] \in {"apply", "applying"}
    /\ IF RollingBack(p) THEN Work(p, "partial") ELSE RollBack(p, job[p].ver, job[p].prev, 0)
    /\ UNCHANGED <<slots, probation, counts, data>>

\* health --json: only exit 2 rolls back, a timeout does not.
HealthOk(p) ==
    /\ pc[p] = "health"
    /\ Work(p, "probation")
    /\ UNCHANGED <<slots, probation, counts, data>>

HealthCritical(p) ==
    /\ pc[p] = "health"
    /\ RollBack(p, job[p].ver, job[p].prev, 0)
    /\ UNCHANGED <<slots, probation, counts, data>>

EnterProbation(p) ==
    /\ pc[p] = "probation"
    /\ probation' = [ver |-> job[p].ver, prev |-> job[p].prev, expired |-> FALSE]
    /\ Work(p, "unmark")
    /\ UNCHANGED <<slots, counts, data>>

Unmark(p) ==
    /\ pc[p] = "unmark"
    /\ inflight' = [inflight EXCEPT ![act[p]] = 0]
    /\ End(p)
    /\ UNCHANGED <<slot, rolling, link, synced, activeFile, probation, counts, data>>

AddBlocklist(p) ==
    /\ pc[p] = "blocklist"
    /\ blocklist' = blocklist \cup {job[p].ver}
    /\ End(p)
    /\ UNCHANGED <<slots, probation, interrupted, data>>

-----------------------------------------------------------------------------
(* do_rollback and complete_rollback.                                      *)

\* The marker is on disk before the swap; a target that cannot take over stops it.
MarkRollback(p) ==
    /\ pc[p] = "rollback"
    /\ UNCHANGED <<slot, inflight, link, activeFile, probation, counts, data>>
    /\ IF TargetOk(job[p].prev)
       THEN /\ rolling' = [rolling EXCEPT ![job[p].prev] = [ver |-> job[p].ver,
                                                            count |-> job[p].count]]
            /\ synced' = link
            /\ Work(p, IF act[p] = job[p].prev THEN "dropProbation" ELSE "swap")
       ELSE End(p) /\ UNCHANGED <<rolling, synced>>

DropProbation(p) ==
    /\ pc[p] = "dropProbation"
    /\ probation' = NoProbation
    /\ Work(p, "restore")
    /\ UNCHANGED <<slots, counts, data>>

\* stash restore puts inputs and config/version back, not what was generated.
RestoreStash(p) ==
    /\ pc[p] = "restore"
    /\ disk' = [stash EXCEPT !.generated = disk.generated]
    /\ Work(p, "apply")
    /\ UNCHANGED <<slots, probation, counts, stash, partial>>

RestoreFails(p) ==
    /\ pc[p] = "restore"
    /\ Work(p, "partial")
    /\ UNCHANGED <<slots, probation, counts, data>>

\* rollback_partial: blocklisted and reported first, then the marker goes.
Partial(p) ==
    /\ pc[p] = "partial"
    /\ blocklist' = blocklist \cup {job[p].ver}
    /\ partial' = TRUE
    /\ Work(p, "partialDone")
    /\ UNCHANGED <<slots, probation, interrupted, disk, stash>>

PartialDone(p) ==
    /\ pc[p] = "partialDone"
    /\ rolling' = [rolling EXCEPT ![job[p].prev] = NoRollback]
    /\ End(p)
    /\ UNCHANGED <<slot, inflight, link, synced, activeFile, probation, counts, data>>

\* Done: the marker goes before any bookkeeping.
DropMarker(p) ==
    /\ pc[p] = "dropMarker"
    /\ rolling' = [rolling EXCEPT ![job[p].prev] = NoRollback]
    /\ Work(p, IF job[p].count = 0 THEN "blocklist" ELSE "count")
    /\ UNCHANGED <<slot, inflight, link, synced, activeFile, probation, counts, data>>

CountInterruption(p) ==
    /\ pc[p] = "count"
    /\ interrupted' = interrupted \cup {job[p].ver}
    /\ IF job[p].count >= 2 THEN Work(p, "blocklist") ELSE End(p)
    /\ UNCHANGED <<slots, probation, blocklist, data>>

-----------------------------------------------------------------------------
(* check-probation, by the health timer.                                   *)

\* Mutant: a rollback cut short is left to the operator.
ResumeRollback_Never ==
    /\ pc[Timer] = "resume"
    /\ Work(Timer, "recover")
    /\ UNCHANGED <<slots, probation, counts, data>>

\* resume_rollback: finish it onto the slot holding the marker.
ResumeRollback ==
    /\ pc[Timer] = "resume"
    /\ UNCHANGED <<slots, probation, counts, data>>
    /\ LET here == act[Timer]
           s == IF rolling[here] # NoRollback THEN here ELSE Other(here)
       IN  IF ~RollbackPending THEN Work(Timer, "recover")
           ELSE IF ~TargetOk(s) THEN End(Timer)
           ELSE WorkAs(Timer, IF here = s THEN "dropProbation" ELSE "swap",
                       [ver |-> rolling[s].ver, to |-> s, prev |-> s,
                        count |-> rolling[s].count])

\* recover_interrupted_upgrade: probation was recorded, or it rolls back.
RecoverUpgrade ==
    /\ pc[Timer] = "recover"
    /\ UNCHANGED <<slot, rolling, link, synced, activeFile, probation, counts, data>>
    /\ LET here == act[Timer]
           v == inflight[here]
       IN  IF v = 0 THEN Work(Timer, "probe") /\ UNCHANGED inflight
           ELSE IF OnProbation(here) /\ probation.ver = v
           THEN inflight' = [inflight EXCEPT ![here] = 0] /\ Work(Timer, "probe")
           ELSE /\ UNCHANGED inflight
                /\ IF probation = NoProbation \/ OnProbation(here)
                   THEN RollBack(Timer, v, Other(here), IF v \in interrupted THEN 2 ELSE 1)
                   ELSE End(Timer)

\* Mutant: the standby of a release on probation is an orphan too.
RemoveOrphan_OnProbation ==
    /\ pc[Timer] = "probe"
    /\ ForgetProbation(Timer)
    /\ Exit(Timer)
    /\ IF MayRemove(Timer, Other(act[Timer])) THEN Remove(Other(act[Timer]))
       ELSE UNCHANGED <<slot, inflight, rolling>>
    /\ UNCHANGED <<link, synced, activeFile, counts, data>>

\* No probation: a standby venv is an orphan.
RemoveOrphan ==
    /\ pc[Timer] = "probe" /\ NoProbationFor(act[Timer])
    /\ ForgetProbation(Timer)
    /\ Exit(Timer)
    /\ IF MayRemove(Timer, Other(act[Timer])) THEN Remove(Other(act[Timer]))
       ELSE UNCHANGED <<slot, inflight, rolling>>
    /\ UNCHANGED <<link, synced, activeFile, counts, data>>

\* A probation whose fallback a rollback could not use stops the shim.
ProbationUnusable ==
    /\ pc[Timer] = "probe" /\ ~NoProbationFor(act[Timer]) /\ ~OnProbation(act[Timer])
    /\ End(Timer)
    /\ UNCHANGED <<slots, probation, counts, data>>

Promote ==
    /\ pc[Timer] = "probe" /\ OnProbation(act[Timer]) /\ probation.expired
    /\ WorkAs(Timer, "promote", [NoJob EXCEPT !.ver = probation.ver, !.prev = probation.prev])
    /\ UNCHANGED <<slots, probation, counts, data>>

\* The old slot goes first, then probation.json, then the count.
PromoteSlot ==
    /\ pc[Timer] = "promote"
    /\ UNCHANGED <<link, synced, activeFile, probation, counts, data>>
    /\ LET s == job[Timer].prev
       IN  IF MayRemove(Timer, s)
           THEN /\ slot' = [slot EXCEPT ![s] = NoVenv, ![act[Timer]].proven = TRUE]
                /\ inflight' = [inflight EXCEPT ![s] = 0]
                /\ rolling' = [rolling EXCEPT ![s] = NoRollback]
                /\ Work(Timer, "promoteFile")
           ELSE End(Timer) /\ UNCHANGED <<slot, inflight, rolling>>

PromoteFile ==
    /\ pc[Timer] = "promoteFile"
    /\ probation' = NoProbation
    /\ Work(Timer, "promoteCount")
    /\ UNCHANGED <<slots, counts, data>>

PromoteCount ==
    /\ pc[Timer] = "promoteCount"
    /\ interrupted' = interrupted \ {job[Timer].ver}
    /\ End(Timer)
    /\ UNCHANGED <<slots, probation, blocklist, data>>

\* Not expired: the health check runs for up to three minutes.
CheckHealth ==
    /\ pc[Timer] = "probe" /\ OnProbation(act[Timer]) /\ ~probation.expired
    /\ WorkAs(Timer, "checking", [NoJob EXCEPT !.ver = probation.ver, !.prev = probation.prev])
    /\ UNCHANGED <<slots, probation, counts, data>>

CheckHealthOk ==
    /\ pc[Timer] = "checking"
    /\ End(Timer)
    /\ UNCHANGED <<slots, probation, counts, data>>

CheckHealthCritical ==
    /\ pc[Timer] = "checking"
    /\ RollBack(Timer, job[Timer].ver, job[Timer].prev, 0)
    /\ UNCHANGED <<slots, probation, counts, data>>

-----------------------------------------------------------------------------
(* Everyone else.                                                          *)

\* clear-blocklist, without the lock; here it is one step.
Clear(v) ==
    /\ v \in blocklist
    /\ Load
    /\ blocklist' = blocklist \ {v}
    /\ interrupted' = interrupted \ {v}
    /\ UNCHANGED <<probation, data, lock, pc, act, job, misread>>

\* clear_probation_if_active: a deploy, rollback, backup or restore accepts the
\* release on probation.
Interact ==
    /\ probation # NoProbation
    /\ probation' = NoProbation
    /\ slot' = [slot EXCEPT ![Other(probation.prev)].proven = TRUE]
    /\ UNCHANGED <<inflight, rolling, link, synced, activeFile, counts, data, lock, pc,
                   act, job, misread>>

\* The six hours pass.
Expire ==
    /\ probation # NoProbation /\ ~probation.expired
    /\ probation' = [probation EXCEPT !.expired = TRUE]
    /\ UNCHANGED <<slots, counts, data, lock, pc, act, job, misread>>

\* The kernel writes back what a killed process left, seconds later.
Kill(p) ==
    /\ Faults /\ pc[p] # "idle"
    /\ synced' = link
    /\ End(p)
    /\ UNCHANGED <<slot, inflight, rolling, link, activeFile, probation, counts, data>>

\* What was not synced may be lost: of the writes here, the link.
PowerCut ==
    /\ Faults
    /\ \E p \in Procs : pc[p] # "idle"
    /\ link' \in {link, synced} /\ synced' = link'
    /\ lock' = Free
    /\ pc' = [p \in Procs |-> "idle"]
    /\ act' = [p \in Procs |-> "none"]
    /\ job' = [p \in Procs |-> NoJob]
    /\ UNCHANGED <<slot, inflight, rolling, activeFile, probation, counts, data, misread>>

-----------------------------------------------------------------------------
Upgrade(p) ==
    \/ TakeForUpgrade(p) \/ Prepare(p) \/ Built(p) \/ PreflightFails(p) \/ GiveUp(p)
    \/ Stash(p) \/ MarkInflight(p) \/ HealthOk(p) \/ HealthCritical(p)
    \/ EnterProbation(p) \/ Unmark(p)

Switch(p) ==
    \/ SwapLink(p) \/ SwapFile(p) \/ SwapSync(p)
    \/ ApplyBegins(p) \/ ApplyEnds(p) \/ ApplyFails(p)
    \/ MarkRollback(p) \/ DropProbation(p) \/ RestoreStash(p) \/ RestoreFails(p)
    \/ Partial(p) \/ PartialDone(p) \/ DropMarker(p) \/ CountInterruption(p)
    \/ AddBlocklist(p)

Check ==
    \/ TakeForCheck \/ ResumeRollback \/ RecoverUpgrade \/ RemoveOrphan
    \/ ProbationUnusable \/ Promote \/ PromoteSlot \/ PromoteFile \/ PromoteCount
    \/ CheckHealth \/ CheckHealthOk \/ CheckHealthCritical

Step(p) == Upgrade(p) \/ Switch(p) \/ Decline(p) \/ (p = Timer /\ Check)

Fault == PowerCut \/ \E p \in Procs : Kill(p)

Next ==
    \/ \E p \in Procs : Step(p)
    \/ \E p \in Procs : Start(p)
    \/ \E v \in Released : Clear(v)
    \/ Interact \/ Expire
    \/ Fault

Spec == Init /\ [][Next]_vars

\* Processes that are not killed go on, the health timer fires and the six
\* hours pass; faults end (a kill that leaves what a step would is no fault).
FairSpec ==
    /\ Spec
    /\ \A p \in Procs : WF_vars(Step(p))
    /\ WF_vars(Start(Timer))
    /\ WF_vars(Expire)
    /\ <>[][Fault => \E p \in Procs : Step(p)]_vars

-----------------------------------------------------------------------------
(* Properties.                                                             *)

LockedSteps ==
    {"prepare", "build", "stash", "mark", "swap", "swapFile", "swapSync", "apply",
     "applying", "health", "probation", "unmark", "blocklist", "rollback",
     "dropProbation", "restore", "partial", "partialDone", "dropMarker", "count",
     "resume", "recover", "probe", "promote", "promoteFile", "promoteCount", "checking"}

\* Type correctness; and upgrade.lock is held by exactly the process that is
\* past acquire_lock.
TypeOK ==
    /\ slot \in [Slots -> Venvs]
    /\ inflight \in [Slots -> Versions \cup {0}]
    /\ rolling \in [Slots -> Rollbacks \cup {NoRollback}]
    /\ link \in Slots /\ synced \in Slots /\ activeFile \in Slots
    /\ probation \in Probations \cup {NoProbation}
    /\ blocklist \subseteq Released
    /\ interrupted \subseteq Released
    /\ disk \in Disks /\ stash \in Disks
    /\ lock \in Procs \cup {Free}
    /\ pc \in [Procs -> LockedSteps \cup {"idle", "lock"}]
    /\ act \in [Procs -> Slots \cup {"none"}]
    /\ job \in [Procs -> Jobs]
    /\ misread \in BOOLEAN /\ partial \in BOOLEAN
    /\ \A p \in Procs : pc[p] \in LockedSteps <=> lock = p

\* env-active, as it is and as a power cut would leave it, always names a venv
\* that works: remove_slot never takes the slot the platform runs on, not even
\* for a shim that read the active slot before another one swapped.  And
\* env-active and active-slot only disagree, after a power cut too, where a
\* marker tells load_active_slot which to follow: otherwise every shim,
\* check-probation included, refuses to run.
LiveWorks ==
    /\ SlotWorks(link) /\ SlotWorks(synced)
    /\ link # activeFile \/ synced # activeFile => SwapMarked

\* While an unproven release is live there is a proven one to fall back to, and
\* a file that keeps the orphan cleanup and other upgrades off it.  A shim that
\* locked after a swap it had not seen may have taken the probation for a stale
\* one (see README).
FallbackKept ==
    ~misread /\ ~slot[link].proven =>
        /\ TargetOk(Other(link)) /\ slot[Other(link)].proven
        /\ \/ inflight[link] # 0
           \/ rolling[Other(link)] # NoRollback
           \/ probation.prev = Other(link)

\* What is on disk is what the release that comes back after a power cut wrote,
\* unless a marker makes check-probation put it right or a rollback reported
\* itself partial.
CrashConsistent ==
    \/ disk = DiskOf(slot[synced].ver)
    \/ inflight[synced] # 0 \/ RollbackPending \/ partial

Platform == INSTANCE PlatformSpec WITH
    live <- slot[link], standby <- slot[Other(link)], blind <- misread

\* Of the two venvs: while an unproven release is live, the one it replaced
\* stays as it was, and is what a rollback returns to; nothing is built or
\* removed beside it, by no shim, timer, resumption or power cut.
ImplementsPlatform == Platform!Spec

\* Any upgrade or rollback that was cut short is finished by the health timer.
MarkersResolved ==
    (RollbackPending \/ inflight[link] # 0) ~> ~(RollbackPending \/ inflight[link] # 0)

\* A release that an operator's command has accepted, or that was promoted, is
\* not rolled back automatically: no rollback of it begins (probation.py).
AcceptedStays ==
    [][\A s \in Slots :
         rolling[s] = NoRollback /\ rolling'[s] # NoRollback => ~slot[Other(s)].proven]_vars
=============================================================================
