# boxmunge in TLA+

boxmunge deploys and looks after docker-compose projects on one small server: an
operator's client uploads a release, the box checks it, snapshots the data, installs
it, reloads Caddy, and can roll it back. Everything is files and
subprocesses: there is no database and no daemon that owns the state, so every
guarantee rests on the order of small durable writes, on `flock`s, and on what the
next command does with the files a killed one left. That is what these modules are
about. TLC checks each of them on small instances; TLAPS proves the theorems listed
below for every value of the constants.

Paths below are relative to the repository's `src/boxmunge/` unless they say more.

## Contents

| module | what it is |
|---|---|
| `InstallRecord.tla` | the values an install writes (`live.json`, `previous.json`, `install.json`) and the questions the code asks of them (`release_txn.py`) |
| `InstallTxn.tla` | the install transaction, one action per durable write, with crashes between them |
| `InstallSafety.tla` | its invariants and action properties |
| `InstallSpec.tla` | the abstract install: release and rollback target change together |
| `InstallRefinement.tla` | the refinement mapping, the fairness and the liveness property |
| `InstallTxnProofs.tla` | the record, `TypeOK` and `NeverStale`; the files, `ClosedIsClean`, `TargetSurvives`, `RunsWholeReleases`, `ResumesCodeInPlace`, `AbandonRestores`; the data and the snapshots, `PairingSound`, `RollbackReturns`; and that the cores implement `InstallSpec`, proved |
| `CaddyJournal.tla` | Caddy's site files, their journal and the reload that validates them, with its properties |
| `CaddyJournalProofs.tla` | types and lock discipline, `LoadsValidated`, `Revertible`, `RestoresLastAccepted`, `WrittenOrTakenBack`, `RemovedStaysGone`, proved |
| `StagedSlot.tla` | the staged release's slot: stage, promote, unstage, and what a killed one leaves |
| `PromotionSpec.tla` | the abstract promotion: it ends once, and is announced only where it ended in production |
| `StagedSlotProofs.tla` | types, `NeverSwitchedAgain`, `SaysWhatHappened`, and that the slot implements `PromotionSpec`, proved |
| `Lifecycle.tla` | the holds over one project: pause, quarantine, the data copy's stop, the monitor's stop, and all that starts containers |
| `LifecycleProofs.tla` | types, `PoliciesKept`, `HeldStaysDown`; and of `HealthAlerts`, instantiated there, types and `AlertedIsTold`, proved |
| `HealthRecord.tla` | what is on record of a project's health and what its operator was told last, which must agree (`AlertedIsTold`) |
| `HealthAlerts.tla` | the health tick of one project and the alerts it owes |
| `CvePolicy.tla` | how a finding is judged: pure operators |
| `CveFleet.tla` | the fleet scan, its circuit breaker and the held quarantines |
| `CveFleetProofs.tla` | the order of postures, of services, of the two hardening rules; of the scan, types, `BlastRadius` and `HoldStands`, proved |
| `ContainerUpdate.tla` | the images of one project: the daily update and its rollback, the dry run, the guard on changed users, a deploy's candidates, and every restart |
| `ContainerUpdateProofs.tla` | types, `StartsAsDecided`, `FailedRunIsUndone`, proved |
| `UpgradeShim.tla` | the platform upgrade: venv slots, markers, swap, probation and rollback, with its properties |
| `PlatformSpec.tla` | the abstract upgrade: the live release, the one that stands by, and when the one may be touched |
| `UpgradeShimProofs.tla` | types and lock, `FallbackKept`, `CrashConsistent`, that markers can be resumed, `LiveWorks` with one shim or in view of the swaps, and that the shims implement `PlatformSpec`, proved |
| `UsernsMigration.tla` | the move of Docker to a remapped root and back, step by step |
| `UsernsMigrationProofs.tla` | types, `RunsOnItsData`, `MarkerCovers`, `NothingLost`, `ShiftsKeepModes`, proved |
| `MC*.tla` | symmetry sets and constant values for TLC |

Operators named `X_Y` beside an operator `X` ("Mutant: ...") are plausible bugs in the
code that `X` stands for. No specification uses them: substituted for `X`, each makes
a property of a run fail, which shows that the property depends on that code.

## Inventory

### Install transaction
*Code*: `release_txn.py`, `release_keep.py`, `release.py`, `commands/deploy_tree.py`,
`commands/deploy.py`, `commands/deploy_steps.py`, `commands/rollback.py`,
`commands/install_abandon.py`, `commands/install_txn_cmd.py`, `source.py`.

*State*: the project directory, `live.json` (what is in it), `previous/` with
`previous.json` (the rollback target and the snapshot it is paired with), `superseded/`
with its own record (what a fix-forward moved aside), `install.json` (the open
install: id, source, ref, phase, what it replaced and with which snapshot), the backups
directory, the deploy state.

*Operations*: `deploy` (fresh, resumed, fix-forward over a failed release),
`rollback`, `install-abandon`, `install-drop`, redeploy of the installed release.
Each is a sequence of renames and record writes; any of them may be the last before a
kill, and the next command reads the record and decides: resume, refuse, call the
record stale, or start afresh.

*Hard*: the pairing of code and data across a chain of half-done installs; a record
that its own steps could make look stale; losing the only release to go back to.

*Correct when*: the record is never taken for stale unless something else rewrote it;
a closed install leaves a whole release; a rollback pairs a release with data no newer
release wrote; the target survives until it is used; production never starts a
part-installed tree; an open install can always be closed.

### Caddy site journal and reload
*Code*: `caddy_journal.py`, `caddy.py`, `docker.py` (`caddy_config_lock`,
`caddy_reload`, `caddy_validate`); `commands/pause_cmd.py`, `cve/quarantine.py`,
`commands/security_resume.py`, `commands/project_delete_cmd.py` write site files too.

*State*: `caddy/sites/*.conf`, `caddy/.site-journal/*.json`, whether Caddy runs,
`state/.caddy.lock`.

*Operations*: `write_site`, `remove_site`, `restore_sites`, `commit_sites`,
`caddy_reload`, and the unjournaled writes of a maintenance page, of a lift and of a
deletion.

*Hard*: the files are global, the project locks are not. Operations of
several projects meet between one's write and its reload; some writers do not take the
Caddy lock; an entry and its site are two writes.

*Correct when*: a bad site file never outlives the reload that rejects it; Caddy loads
what was validated; an accepted reload holds what its operation wrote, or what Caddy accepted
before; a site that unstage removed stays gone.

### Staging slot and promote
*Code*: `staged_release.py`, `commands/stage_cmd.py`, `commands/promote_cmd.py`,
`commands/unstage_cmd.py`, `production_stopped.py`, `staging_*.py`.

*State*: `.releases/staged/` with its tree and `meta.json`, the names the slot is moved
to on its way out, staging's containers and site, the open install, the copies of
production's data and the `production_stopped` marker.

*Operations*: `stage`, `promote` (install, retire, announce, drop), `unstage`, the data
copy that stops production.

*Hard*: a promote resumed after a kill: has the switch been made, was it announced, is
the slot on disk still the one the open install came from?

*Correct when*: a slot's release is switched to once; a promotion is announced at most
once and only when it succeeded; a retired slot goes; production is started again
whatever fails while it is stopped.

### Lifecycle holds
*Code*: `lifecycle.py`, `pause.py`, `restart_hold.py`, `commands/pause_cmd.py`,
`commands/resume_cmd.py`, `commands/recover_cmd.py`, `cve/quarantine.py`,
`commands/security_resume.py`, `production_stopped.py`.

*State*: the pause and the quarantine record (each with the restart policies it saved),
the containers and their policies, the maintenance page, the data copy's marker, the
monitor's stop.

*Operations*: pause and resume, quarantine and lift, a deploy that may lift, recover, the
health tick, an upgrade's restart, Docker's restart after a reboot.

*Hard*: holds overlap: each saves policies the other may have set to `no`, each writes
the page, and a kill falls between any two of their steps.

*Correct when*: what is held stays down across a reboot; the policies of the release come
back with the last hold; an exploitable project does not come back without a
scan; a copy's stop ends.

### Health checks
*Code*: `commands/check.py`, `commands/health_state.py`, `commands/check_holds.py`,
`notify.py`.

*State*: `health.json` of a project: status, failures, what has been alerted.

*Operations*: the tick of the timer, `recover`, whatever starts the project.

*Hard*: an alert may not be delivered, and the reason changes in between; a tick is
killed between the message and the record; two commands' time stamps decide whether a
stop still stands.

*Correct when*: what is recorded as told was told; the reason that stays is told.

### CVE scanning and quarantine
*Code*: `cve/*.py`, `commands/security_scan_core.py`, `commands/security_actions.py`,
`commands/security_fleet_enforce.py`.

*State*: per project the scan state and the quarantine record; for the fleet the KEV
catalog, the grace period, the breaker's held set and whether its alert is owed.

*Operations*: the nightly and the manual scan, `--apply-held`, suppressions, resume.

*Hard*: the breaker decides on one run's candidates and remembers the held ones for the
next; scans of one project come between; the alert of a hold may not be delivered.

*Correct when*: one run never stops too much of the fleet; a held project is neither
forgotten nor stopped by a scan that does not see the fleet; an exploited CVE is acted
on whatever is held; a stricter setting never tolerates more.

### Git install
`commands/git_deploy.py`, `git_slot.py`, `commands/rollback_git.py`: a second source
for the same transaction, with the work tree's checkout instead of renamed
directories. Not modelled.

### Backup and restore
`backup.py`, `commands/restore.py`, `restore_safety.py`: snapshots, retention, restore.
In the install model: the pre-deploy snapshot, its pruning, the restore of a rollback.

### Upgrade shim and self-update
*Code*: `scripts/boxmunge-upgrade` and `scripts/boxmunge-upgrade.d/`,
`commands/upgrade_cmd.py`, `upgrade_state.py`, `probation.py`, `stash.py`.

*State*: two venv slots and the `env-active` link, `active-slot`, a marker in a slot for
an upgrade or a rollback in progress, `probation.json`, the blocklist and the
interruption counts, the stash, the migrated and generated files, `upgrade.lock`.

*Operations*: `auto`, `target`, `force-target`, `check-probation` (resume, recover,
promote, roll back, clean up), `clear-blocklist`; a deploy, backup or restore ends a
probation.

*Hard*: power cuts between the link, the file and the sync; a rollback that is itself
cut short; a timer that deletes what it takes for an orphan; the active slot is read
before the lock is held.

*Correct when*: the live slot always works and the shim never refuses to run; an
unproven release keeps a proven one beside it; code and files belong together after any
power cut or the timer puts them right; every interrupted swap is finished; a release
that was accepted stays.

### User-namespace migration
*Code*: `userns/*.py`, `commands/userns_cmd.py`.

*State*: the journal, `daemon.json` and the offset record, the running daemon, the
marker that refuses every other command, the timers, the volumes and bind sources with
their owners and modes, the containers of the old and of the new root.

*Operations*: `userns-migrate`, `userns-rollback` (also from the middle of a migration),
`userns-commit`, each resumed by running it again.

*Hard*: a kill or a reboot between any two steps, in either direction; the new root has
been used for days before a rollback; a volume may be in neither root for a moment.

*Correct when*: no data is lost or run by the wrong daemon; a shift of owners keeps
setuid bits; the marker covers every state in which projects may not run, and comes down.

### Container updates
*Code*: `container_update.py`, `commands/container_update_cmd.py`,
`container_update_targets.py`, `user_drift.py`, and what else pulls or decides: `commands/resume_cmd.py`,
`commands/deploy.py`.

*State*: the tags of the local image store, which are global; the images the containers
were made from; the users the last deploy decided; the services held back for the next
one; candidate tags; the last update's record.

*Operations*: the daily `container-update` (pull, guard, backup, recreate, health check,
roll back), its dry run, the pull of `resume`, a deploy's second pull of what is held back,
every restart.

*Hard*: a tag says what the *next* start of any kind runs, so a run that is cut between
its pull and what it does about it has changed a later command; another project pulls
the same tag; what is compared with what (the containers, the tags, the users) differs
from command to command.

*Correct when*: a service that runs as its image's user starts as the user a deploy
decided; an update that is held back or rolled back leaves nothing behind; a published
image arrives, or the daily run says why not.

### Everything else
The legacy stage conversion, the lock order, project registry and
secrets, log rotation, the API's job store, compose validation, manifests,
reception, the client, the version-check service, the bootstrap scripts:
`PROJECT.json` lists each with its sources and why it is, or is not yet, modelled.

### How the parts interact
- A project lock (`fileutil.project_lock`) serialises the commands on one project. The
  install and lifecycle models therefore have one operation at a time per project; what
  interleaves with it are the commands that do not take it (`inbox clean`), the other
  projects, the timers and kills.
- The Caddy lock is global and short, taken inside a project lock, never nested.
- Installs call `backup` for the snapshot and `restore` for a rollback, and write Caddy's
  site, then reload. Every command that starts containers first asks the install record
  whether an install is open (`compose_guard.py`).
- Promote hands its staged tree to the install transaction; upgrade and migration stop
  every project and restart it through the same guard.
- Update, resume and restart share the image tags: what one leaves named the others start
  (`ContainerUpdate`); only a deploy decides which users run.
- The scan decides who is quarantined (`CveFleet`), the quarantine takes the project down
  and keeps it down (`Lifecycle`), its page goes through Caddy's files (`CaddyJournal`).
- A command that starts a project ends the monitor's stop by a newer `last_started_at`
  (`Lifecycle`, `HealthAlerts`); the tick leaves held projects alone.

## The install transaction

### State and code

| variable | in the code |
|---|---|
| `code`, `liveJson` | the project dir; the ref in `live.json` |
| `prev`, `prevMeta` | `previous/`, `previous.json` |
| `sup`, `supMeta` | `superseded/`, its record |
| `txn` | `install.json`; id 0 when there is none |
| `snaps`, `data` | the pre-deploy snapshots still kept; the newest install whose release has written the data |
| `running` | the tree the production containers run |
| `recorded` | the deploy state's ref |
| `inbox` | the uploaded bundles |
| `pc`, `op` | the running core: its next write and its local variables |
| `base`, `tampered` | history: the state when the install's first attempt began; has something else rewritten a record? |

A tree has its release, the id of the install that put it there (`gen`), whether it
is whole and whether `manifest.yml` is in it. The last is what the commands take for "the
project has been deployed" (`Deployed`), and a kill inside the install of one entry can
leave a tree without it (`Bare`, beside `Mixed`: `release.py:241`). `Deploy`, `Rollback`, `Abandon`, `Drop` and `Redeploy` are the commands: each
evaluates the checks its code makes before its first write, in that order. From there `pc`
walks through the core's writes, one action each. `Crash` stops the core at any of them;
it also stands for every failure after which the code leaves the install open, since
both leave the same files.

### Abstractions
- Bundle releases only. A git install and a promote share the record but not the
  writes (planned).
- One ref stands for the request as the code compares it: source, ref and staged id.
- Data is its high-water mark: the newest install whose release has written it. A restore
  in progress has the mark of the rollback that runs it.
- `previous.building` and incoming debris, which every command clears before use, are
  left out, and so are records that do not parse: the code refuses them everywhere.
- `backup.type: none`, where there is nothing to pair, is not modelled.
- Lifecycle holds (a paused project is not started by a deploy) are in `Lifecycle`.
- `Upload` may bring a name a second time. `receive_bundle` names every upload anew; a bundle
  that somebody copies into the inbox by hand keeps its name.

### Runs

| run | bounds | asks |
|---|---|---|
| `install_txn` | 2 refs, 4 installs, 2 snapshots of which 1 is kept; 2.5 M states | the invariants of `InstallSafety`, both action properties and the refinement, with crashes |
| `install_liveness` | 2 refs, 4 installs, 1 snapshot, `InboxCleans`, `Tampering`, within `LivenessBounds`; 553 k | does every open install close, also when its bundle vanishes, when its record is made stale and dropped, or when a kill makes its own command refuse it? |
| `install_inbox_clean` | 2 installs, 1 snapshot, `InboxCleans`; violation | the first finding below |
| `install_rollback_refused` | 1 ref, 3 installs, 1 snapshot; violation | the second |

`MaxTxn` bounds the installs ever begun, `MaxSnaps` the snapshots ever taken. Two refs are
enough for "another release than the open one"; three installs give a target, a
failed release over it and a fix-forward or a rollback, and the fourth what the next
install makes of the result. `Retention` is 5 in the code. In `install_txn` it is 1 with two
snapshots, so that the second prunes the first: a redeploy, or a kill between a deploy's snapshot
and its keep, then leaves a target whose snapshot is gone. In the liveness run one snapshot is taken at
most and nothing is pruned. `PairingSoundHolds` is proved for every retention and every number.

`LivenessBounds` is the action constraint that makes the liveness graph small enough: a new install is
of one release and a fix of any, uploads come one at a time and under names that are not being
installed, and the last of the four ids is left to the fix that an open install may
need, so no bundle is removed and no record rewritten once only it is left. In no reachable state is
`Rerun` enabled and every one of its steps outside these bounds, so they take
nothing from what fairness asks for. They do keep `Tamper` away from an open rollback (divergence 24).

The runs set `CHECK_DEADLOCK FALSE` because a box whose last install is closed and whose bounds
are used up has nothing left to do.

### Properties
- `NeverStale`: `stale_reason` compares the files with what the record says a step
  leaves. No step, and no crash between two, makes the next command misjudge its own
  unfinished work as something else's.
- `ClosedIsClean`, `RunsWholeReleases`, `PairingSound`, `TargetSurvives`: what a closed
  install leaves; what runs; that code and data of a rollback belong together; that
  the target is there in every state where the code would use it.
- `AbandonRestores`, `RollbackReturns`: a closed abandon is the state before the install's
  first attempt, whatever attempts, fix-forwards and kills came between; a closed rollback
  runs the target on data no newer release wrote.
- `ImplementsInstall`: under the mapping in `InstallRefinement`, every step is a step of
  `InstallSpec` or changes nothing there. `base` hides what an open install has done;
  the abstract install happens when the record is removed.
- `InstallCloses`: fairness is weak fairness of a core's next step (a process that is not
  killed goes on), of `Rerun` (the code retries nothing by itself), and faults that end. `Rerun` is
  what the refusals name: `Resume`, the install's own command, or `install-txn --drop` for a stale
  record; and only where that is refused, because the bundle is gone or because a kill left the
  project dir without a manifest under a rollback (the second finding), `Fix`, the deploy of
  another bundle over the open install, uploaded first if the inbox is empty (`options_text` names
  this way out). Without `Fix` the property fails. Faults end means: from some moment on nothing
  but the cores' own steps happens, so neither kills, nor `inbox clean`, nor tampering. Without
  `Rerun` nothing closes an install; with faults for ever a kill may come each time.
- `RollbackResumes` (`install_rollback_refused`): a rollback that was cut short can be run
  again. It does not hold: see the findings.

## Caddy's site files

### State and code

| variable | in the code |
|---|---|
| `site`, `entry` | `caddy/sites/<name>.conf`, `caddy/.site-journal/<name>.conf.json` (`previous`, `written`) |
| `host` | the host of the project's manifest |
| `up` | does Caddy run? |
| `lock` | the holder of `state/.caddy.lock` |
| `pc`, `content`, `look` | one operation per site: its next step, what it writes, the comparison a restore has made |
| `accepted`, `removed`, `past` | history: the files the last accepted reload had; the sites unstage removed and nothing has written since; the disturbances so far |

`Prepare`, `WriteEntry`, `WriteSite` are `write_site`; `RemoveSite`, `RemoveEntry`
`remove_site`; `Validate`, `CommitEntry`, `Committed`, `Load`, `LoadFails`, `RestoreRead`,
`RestoreSite`, `RestoreEntry`, `Rejected` are `caddy_reload` with `commit_sites` and
`restore_sites`, each write of the loop its own step. `Page`, `Delete`, `ReadSite`,
`Lift` are the writers that take no lock.

### Abstractions
- A site file is its host, whether it parses and whether it is a maintenance page. Caddy
  accepts files that all parse and name no host twice; that is the one way in which two
  good files make a bad set, and nothing in boxmunge checks it before Caddy does.
- A project's production and staging sites are two members of `Sites`, each with an
  operation of its own; the project lock would serialise them, so the model has more
  interleavings than the code.
- A restore takes the entries in any order; the code takes them by name.
- A validation that times out counts as a rejection.
- Releases change hosts and operations are killed anywhere, always. Three things are counted as
  `Disturbances`, `MaxDisturbances` of them: a maintenance page and a lift, which write without
  the lock, and a kill between the two writes of one change of the journal (`Torn`). The
  properties say whether they survive them: `Calm` is "none so far", `LockedSoFar` "no page
  and no lift so far".
- What Caddy serves is not a variable: it is what the last `Load` found, and a restarted Caddy
  reads the files.
- Entries that fail the journal's own checks (`JournalError`) are not modelled: only
  something other than boxmunge writes such entries.
- Two sites: a third makes the graph too large to check. The theorems cover any number.

### Runs

| run | bounds | asks |
|---|---|---|
| `caddy_journal` | 2 sites, 2 hosts, one disturbance; 2.9 M states | all below |

`TypeOK` is proved and not repeated in a run; the same goes for the types of `InstallTxn`,
`CveFleet`, `HealthAlerts`, `ContainerUpdate`, `Lifecycle`, `StagedSlot` and `UsernsMigration`. That of
`UpgradeShim` says who holds the lock too, and is run.

- `Revertible`: whenever the Caddy lock is free, the files as `restore_sites` would leave them
  are accepted, while `Calm`. So whoever reloads next, accepted or rejected, leaves files on
  which Caddy can reload and start.
- `LoadsValidated`: nothing changes between a validation and its load that would make the load
  fail, torn kills included, while `LockedSoFar`. Unlocked deletions are in every run: removing a
  file never makes a set of files bad.
- `WrittenOrTakenBack`: what an accepted reload holds of its own operation's site is what the
  operation wrote, what Caddy accepted last, or nothing, while `Calm`. With two projects more
  cannot be promised: another's rejected reload takes back a good site between its write and
  its reload (divergence 1), and then the reload reports success for the older content. What is
  excluded is that it holds anything else: content that was never accepted, or an older one, from
  an entry that a commit should have forgotten.
- `RemovedStaysGone`: no restore brings back a site that unstage removed, whatever is killed and
  whatever writes without the lock. That is why `remove_site` takes the lock;
  `project-delete` does not, and its promise fails (divergence 23).

With pages and lifts only one project on the box would be safe: what `security resume` read back
may have been restored since, and another operation has validated. It needs two steps of the
other operation within milliseconds.

## The upgrade shim

### State and code

| variable | in the code |
|---|---|
| `slot` | `env-a`, `env-b`: the release built there; `proven` is history: has that build passed probation, or been accepted before it ended? |
| `inflight`, `rolling` | `upgrade-inflight`, `rollback-inflight` in a slot |
| `link`, `synced` | `env-active`, and what a power cut would leave of it |
| `activeFile`, `probation` | `upgrade-state/active-slot`, `probation.json` |
| `blocklist`, `interrupted` | `blocklist.json`, `upgrade-root/interrupted.json` |
| `disk`, `stash` | the inputs (by the schema of their manifests), the generated files (by the release that wrote them) and `config/version`; the latest stash |
| `lock` | the holder of `upgrade.lock` |
| `pc`, `act`, `job` | a process: its next step, its `ACTIVE_SLOT`, its locals |
| `misread`, `partial` | history: has a live probation been taken for a stale one; does `disk` come from a partial rollback? |

`Start` is `load_active_slot`; `Decline`, `TakeForUpgrade`, `TakeForCheck` are the lock and
what is asked under it. `Prepare` to `Unmark` are `upgrade_to` in its order; `MarkRollback`
to `CountInterruption` are `do_rollback`, `complete_rollback` and `rollback_partial`;
`ResumeRollback` to `CheckHealthCritical` are `cmd_check_probation`. `SwapLink`, `SwapFile`,
`SwapSync` are shared by both directions, as `swap_to` is, and so are `ApplyBegins`,
`ApplyEnds`, `ApplyFails`. `Interact` is `clear_probation_if_active`. `Kill` ends one process
anywhere, `PowerCut` all of them, losing the link's change if it was not synced.

### Abstractions
- A release is its version, and a venv works when it was built. The schema of its
  manifests is all that one release can hold against another (`Schema`): a release
  refuses manifests newer than itself.
- A marker is written and synced in one step; torn markers are not modelled. A removed
  marker stays removed. What a killed process wrote reaches the disk before the next
  power cut, since the kernel writes back within seconds.
- The lock and the checks right after it (policy, probation) are one step.
- Which pip failure is a version's second is not counted: `GiveUp` and `PreflightFails`
  are both possible each time. The count of interruptions is kept as none, one, more.
- The refresh of the canary, of the shim itself, of sudoers and docs, the download and
  its signature, discovery, and the refusal during a user-namespace migration are left
  out: none touches the state above. `clear-blocklist` is one step.
- Releases are numbered; `MaxVersion` bounds those there are. A downgrade by force is
  possible once there are three.

### Runs

| run | bounds | asks |
|---|---|---|
| `upgrade` | one shim and the health timer, 2 releases, the second migrating manifests, kills and power cuts; 84 k states | all invariants, `ImplementsPlatform` and `MarkersResolved` |

Two releases are enough for an upgrade, its rollback, a retry and a second rollback, in
both slots: the release that failed may be installed again after `clear-blocklist`, or by
force.

### Properties
- `LiveWorks`: `env-active`, as it is and as a power cut would leave it, names a venv that
  works; `remove_slot` is what could break it.
- `FallbackKept`: an unproven live release has a proven, usable one beside it and a file
  that keeps the cleanup and other upgrades off it. It excepts `misread`: a shim that
  read the active slot, was overtaken by another one's whole upgrade, and locked
  afterwards sees a probation that names its own slot, and removes it as stale.
- `CrashConsistent`: the files belong to the release that a power cut would bring back,
  or a marker or a reported partial rollback says that they may not.
- `ImplementsPlatform`: the two venvs, whatever the processes, markers and files do, are the
  two releases of `PlatformSpec`: `live` is what the link names, `standby` the other one.
  While a release that has not proven itself is live, nothing is built or removed beside it;
  only a swap with one that can take over, or its acceptance, ends that; and no swap goes
  from one unproven release to another. `FallbackKept` looks at a state and at files;
  this says which steps there are between the states. `blind` is `misread`, the same
  exception.
- `MarkersResolved`: an interrupted upgrade or rollback is always finished. Fairness:
  a process that is not killed goes on, the health timer fires (a systemd timer), the six
  hours pass, and faults end. Nothing is assumed of the shims' start or of commands.
- `AcceptedStays`, which no run lists: an accepted release is not rolled back by itself
  (divergence 5).

With two shims beside the timer, two processes overtaken in turn can each act on a slot
the other has since left; this takes two processes stalled between two adjacent commands
for the length of an upgrade, and is not in the runs. The proofs cover it: everything
but the second half of `LiveWorks` holds for any number of shims, and that half fails with
two (divergence 22).

## The staged slot

### State and code

| variable | in the code |
|---|---|
| `slot` | `.releases/staged/` and its `meta.json`: staged id, state (`starting`, `ready`, `retired`), the exit code and the announcement a retired slot keeps |
| `building`, `debris` | `staged.building/`; `staged.discarded/`, `staged.promoted.discarded/` |
| `txn` | `install.json`: closed, begun, or past the switch, and the staged id it came from |
| `staging`, `site` | the slot whose release staging runs; staging's Caddy site |
| `op` | the command holding the project lock and its steps still to do |
| `result`, `over`, `told`, `said` | history: what `replace_release` returned, the slots switched to, the announcements, the promotes that returned 0 |

`Stage`, `Promote`, `Unstage`, `OtherInstall` are the commands up to their first write.
`Sweeps` to `MarksReady` are `stage_cmd`'s steps, `Decides` is what promote concludes from the
record and the open install, `Installs`, `Retires`, `Closes`, `TakesDown`, `Announces`, `Tells`,
`Drops`, `Discards` its steps in order; `Drops` and `Discards` are unstage's too. `StepFails`
and `Kill` end a command at any of them.

### Abstractions
- The install is open before or after its switch began; `InstallTxn` has its writes.
- What refuses a promote for other reasons (a hold, an unready staging), the copies of the
  data (their stop is in `Lifecycle`), `--dry-run` and the difference between git and bundle
  slots are left out. So are planted links in the slot, which the code refuses.
- A sweep of leftovers is one step: it only removes what nothing refers to.

### Run and properties
`staged`: three slots ever built, three kills or failures; 115 k states. Three slots are a
slot, its replacement while a promote is open, and one more after that.

- `NeverSwitchedAgain`: production is not switched again for a slot whose switch was
  recorded, or whose install closed: not by a rerun, nor through a stage that was cut short.
- `SaysWhatHappened`: a promotion is announced at most once; one that was announced, or
  whose promote returned 0, was installed by its last switch.
- `ImplementsPromotion`: the commands over the slot implement `PromotionSpec`. A slot's
  outcome is that of its last switch, from when it is on record: it is concluded
  once and stands, over re-stages and reruns; an announcement and a return of 0 are of
  a slot that ended in production.
- `RetiredSlotGoes`: a retired slot is removed. Fairness: a command that is not killed goes
  on, and the operator runs promote again and again, as its messages ask.

## The holds

### State and code

| variable | in the code |
|---|---|
| `hold.pause`, `hold.quar` | `pause.json`, `quarantine.json`: on, complete, the restart policies saved |
| `box` | the containers: up, stopped or gone, their restart policy, the one they were made with |
| `rel` | the policy the release's compose file names |
| `site`, `live` | the site file (the project's or the page), what Caddy serves |
| `clear` | would a scan quarantine the images? |
| `marker` | the slot's `production_stopped` |
| `stop` | the monitor's stop in `health.json`: standing, or superseded by a later start |
| `open` | an install is open |
| `op` | the command holding the project lock and its steps still to do |

Each command (`Pause`, `Resume`, `Scan`, `SecurityResume`, `Deploy`, `Copy`, the two ticks,
`Recover`, `Restart`) is its checks and a list of steps; the steps are shared, as the
functions are: `Down` is what `pause_cmd` and `quarantine` both do. `StepFails` goes to what
the code does after that failure (`AfterFailure`), `Kill` stops the command, `DaemonRestarts`
is Docker's restart, which starts what its policy says.

### Abstractions
- The project's containers are one, with one policy.
- A deploy is one of the install model, reduced to what it does to the containers; the
  first deploy, and the git deploys' path without a transaction, are left out.
- The refusals during a user-namespace migration are in `UsernsMigration`.

### Runs and properties

| run | bounds | asks |
|---|---|---|
| `lifecycle` | two policies, three kills, failures or Docker restarts; 161 k | all below |

- `PoliciesKept`: while containers are pinned at `no` that were made with another policy, a
  standing record keeps a real one to give back, through overlapping holds and hand-overs.
- `HeldStaysDown`: what a finished hold stopped is started by resume, a lift or the deploy
  that ships the fix, and by nothing else, Docker's restart included.
- `QuarantineHolds`: a quarantine ends up lifted, or finished: down, pinned, behind the page.
- `MarkerRestarts`: production that a data copy stopped runs again, or a hold or an open
  install has taken over. Fairness of both: commands go on; the nightly scan and the tick
  are timers.

Two remarks the model makes visible and no document contradicts: a resume that fails
between the start and Caddy's reload leaves a complete pause record over a running
project until it is run again; a failed fix deploy followed by `security resume` restores
the policy of the release before.

## Health and alerts

### State and code

| variable | in the code |
|---|---|
| `app`, `up` | what the smoke script would find; do the containers run? |
| `health` | `health.json`: status, failures, the reason, `alerted` and for which reason |
| `restarted`, `grace` | is `last_started_at` newer than the stop; is it less than a minute old? |
| `held` | a hold, an open install or a copy's stop: the tick skips the project |
| `notice` | the last message the operator got |

`Tick` is `check_project` and what `health_state` records; `TickCut` a tick killed between a
message and the write of the record, at the places `Kills` names. `Start`, `Hold`, `Recover`
are the commands as the tick sees them.

### Abstractions
- One project; a tick holds its lock from the first read to the write, so it is one step.
- A reason is the smoke's message and whether the stop failed too.
- `recover`'s start is inside the grace of a minute.

### Run and properties
`health`: two messages, threshold 2, six changes, three faults, kills after the message of
a stop; 140 k states.

- `AlertedIsTold`: what the record says was told is the last message the operator got.
- `ReasonIsTold`: a reason that stays is told in the end, though deliveries fail and the
  reason changes back and forth before. Fairness: the tick is a timer, and the minute ends.

## CVE policy and fleet scan

### State and code
`CvePolicy` has no state: `Base`, `Compared`, `OverThreshold`, `Judged`, `Dispose` are
`cve/policy.py`'s ladder, `LegacyProfile`, `StrictProfile`, `Penalty` are `cve/hardening.py`,
`Irrelevant` is `cve/relevance.py`, `DistroSeverity` the scanner's choice of a rating.

| variable of `CveFleet` | in the code |
|---|---|
| `carries` | the CVEs of each project's running images |
| `kev`, `suppressed`, `grace` | the cached KEV catalog, the suppressions, `cve-grace.json` |
| `quar`, `recorded` | the quarantine records; the quarantine-level CVEs in the scan states |
| `held`, `pending` | `cve-breaker.json`: the held projects with their CVEs, `alert_pending` |
| `job` | the scans under way, with what each read and decided |
| `onHold` | history: what a hold on record protected last |

`Start`, `ScanProject`, `SkipProject`, `Weigh` (the breaker's `decide`), `ApplyOne`,
`AlertHold`, `WriteHeld` are one `security scan` of a project or of all, in its order;
`StartApplyHeld`, `ApplyHeldOne`, `ApplyHeldDone` are `--apply-held`. The world's steps are
deploys, publications, suppressions and their end, and resume.

### Abstractions
- Whether a finding quarantines is taken from `CvePolicy`; the quarantine's action is in
  `Lifecycle`.
- Left out: alerts about changes and the warning ahead, a stale or missing KEV catalog, an
  unreadable breaker file, holds of the old staging.
- `Overlap` lets scans run side by side (nothing in the code prevents it), `Incomplete` lets
  a scan miss an image; both are off in the run and on in divergences 9 and 10.

### Run and properties
`cve`: three projects with two CVEs, one of which only some are stopped for; two changes,
one fault; 448 k states. Three projects are the fewest the breaker's limit (two, or a
third of the fleet) can tell apart. The safety properties were also checked
once with four changes (two projects, 1.7 M states) and with a fleet that starts with both
CVEs (2.5 M).

- `BlastRadius`: the projects without an exploited CVE that one scan stops are fewer than
  the breaker's limit, in all and for every single CVE.
- `HoldStands`: no later scan, of the fleet or of the project alone, stops a held project for
  the CVEs it is held for, until the operator applies the hold or one of them is on KEV.
- `KevActs`: a project that would be quarantined for an exploited CVE is quarantined, or
  stops carrying it, whatever is held. Fairness: a scan that is not killed goes on, the
  nightly scan comes, and the grace period ends.

## Image updates

### State and code

| variable | in the code |
|---|---|
| `registry`, `store` | the image each reference names in the registry and in the local store |
| `runs` | the image each service's containers were made from |
| `users`, `held` | the deploy state's image users; `<project>.user-drift.json` |
| `cand` | the candidate tags of a deploy |
| `paused`, `open` | the pause record; the open install: before its hook, or past it |
| `op` | the command that holds the project lock: its step, what it compares with, what changed, what drifted |
| `last` | the status of the last update that was recorded |
| `loose` | history: images that a cut pull, another project's pull, a cut deploy or a rollback across a decision left named |
| `published`, `faults` | bounds |

An image is its number, its `USER` and whether it works. `UpdateBegins`, `Pull`, `Detect`,
`Backup`, `Recreates`, `Verdict`, `Retag`, `BackVerdict` are the update in the order of
`update_project`; `HoldBack`, `RecordDrift`, `HoldRest` the guard; `DryRunBegins` and
`ResumeBegins` take the same pull and guard with another thing to compare with and another
end. `DeployBegins` to `Promoted` are a deploy as far as it touches images. `RestartBegins` is
everything that runs `up` without a pull. `StepFails` is a step that raises, `Kill` a process
that is gone, both anywhere.

### Abstractions
- One project: each command holds its lock from the first step to the last. Another
  project is `OtherPull`, on the references in `Shared`.
- Left out: replicas of one service on different images, services without containers,
  Caddy's own images and the abort of the run over projects, the skip of quarantined and
  monitor-stopped projects and of a box on probation, the retry of a project whose lock
  was busy, alerts.
- A published image has another `USER` only where a service follows it: nothing looks at
  it elsewhere.

### Run and properties
`container_update`: a database that follows its image's user and a web service that does
not and whose image another project pulls too; two published images, one kill or failed
step; 626 k states. Two images are an update and the next while the first is held back; one fault
comes at any step of any command. The safety properties were also checked once with
two faults and no shared image (1.0 M states).

- `StartsAsDecided`: a service that follows its image starts as the user that a deploy
  decided for it, or on an image left named as `loose` says.
- `FailedRunIsUndone`: an update recorded as held back or rolled back leaves every container
  and every tag on the image it found running. The model restores what `running_images` read
  of the containers; restoring what the tags named would not do, as an earlier dry run may
  have moved them.
- `UpdatesArrive`: again and again, everything published runs, or the daily run has said
  why not, or the project is paused or has an open install. Fairness: a command that is not
  killed goes on, and the daily run is a timer (strong, as other commands hold the lock in
  between).

## The user-namespace migration

### State and code

| variable | in the code |
|---|---|
| `run`, `pc`, `after`, `cur` | the command, its step, where `back_to_prior` goes on, the tree a loop is at |
| `j` | the journal: phase, inventories, the step each item has reached, the setuid lists, who was up |
| `conf`, `rec`, `daemon` | `daemon.json`, the offset record, the daemon that runs |
| `marker`, `timers` | the marker file; are the timers enabled? |
| `tree` | per tree: which root has its data, whose ids, its setuid bits, and what they should be |
| `box` | the containers of the old and of the new root |

`MigrateStart` to `Migrate` are `userns-migrate` phase by phase, `RollbackStart` to `Reverse`
`userns-rollback`, of a finished migration and of one in the middle, `Committable` and
`Commit` `userns-commit`. `Move`, `SaveItem`, `Chown`, `Chmod` are the steps of one tree, with a
journal save between any two; `Kill` and `Reboot` come anywhere.

### Abstractions
- A tree is a volume or a bind source; images, the network and the Caddyfile's mode are
  left out, as are the preflight's refusals.
- One box stands for all containers of a root; policies `always` and `unless-stopped` differ
  in `Restarts` alone.
- `Soak`, the days between migration and commit, drops a setuid bit and starts a new
  project, `New`: what the rollback may not overwrite.
- One run at a time, as `upgrade.lock` makes sure.

### Run and properties
`userns`: one volume, one bind source, one new volume, two faults; 857 k states. One
volume and one bind source take every step of either loop; the new volume is the one that a
rollback finds and the migration did not.

- `RunsOnItsData`: containers run only on the root that has all their data, with its ids,
  and the old daemon never runs while a volume of its own is in the other root.
- `NothingLost`: no command, resumed or reversed, deletes data that a project uses.
- `ShiftsKeepModes`: when the marker is down, setuid bits are what they were, or what the
  soak made of them.
- `MarkerCovers`: while commands are not refused, the timers run and the running daemon has
  every tree, with its ids: no deploy starts a project on an empty volume beside its data.
- `MarkerClears`: the marker comes down. Fairness: a command goes on, and the operator
  answers the marker's alert by running either command again.

## Proofs

| theorem | holds for |
|---|---|
| `InstallTxnProofs!TypeCorrect` : `Spec => []TypeOK` | every set of refs and every bound |
| `InstallTxnProofs!NeverStaleHolds` : `Spec => []NeverStale` | the same, every retention and both switches |
| `InstallTxnProofs!ClosedIsCleanHolds` : `Spec => []ClosedIsClean` | the same, no bundle removed under an open install (`~InboxCleans`) |
| `InstallTxnProofs!TargetSurvivesHolds` : `Spec => []TargetSurvives` | the same, `~InboxCleans` |
| `InstallTxnProofs!RunsWholeReleasesHolds` : `Spec => []RunsWholeReleases` | the same, `~InboxCleans` and no record rewritten by something else (`~Tampering`) |
| `InstallTxnProofs!ResumesCodeInPlaceHolds` : `Spec => ResumesCodeInPlace` | the same, `~InboxCleans`, `~Tampering` |
| `InstallTxnProofs!AbandonRestoresHolds` : `Spec => AbandonRestores` | the same, `~InboxCleans` |
| `InstallTxnProofs!PairingSoundHolds` : `Spec => []PairingSound` | the same, `~InboxCleans` |
| `InstallTxnProofs!RollbackReturnsHolds` : `Spec => RollbackReturns` | the same, `~InboxCleans` |
| `InstallTxnProofs!ImplementsInstallHolds` : `Spec => ImplementsInstall` | the same, `~InboxCleans`, `~Tampering`: the safety part of the refinement, all of `InstallSpec` |
| `CaddyJournalProofs!TypeCorrect` : `Spec => []TypeOK` | every set of sites and hosts, any number of disturbances |
| `CaddyJournalProofs!LoadsValidatedHolds` : `Spec => []LoadsValidated` | the same |
| `CaddyJournalProofs!RevertibleHolds` : `Spec => []Revertible` | the same |
| `CaddyJournalProofs!WrittenOrTakenBackHolds` : `Spec => WrittenOrTakenBack` | the same |
| `CaddyJournalProofs!RemovedStaysGoneHolds` : `Spec => []RemovedStaysGone` | the same |
| `CaddyJournalProofs!RestoresLastAcceptedHolds` : `Spec => []RestoresLastAccepted` | the same: a restore puts each journaled file back as Caddy accepted it last, or leaves it gone |
| `ContainerUpdateProofs!TypeCorrect` : `Spec => []TypeOK` | every set of services, references and shared references, every bound |
| `ContainerUpdateProofs!StartsAsDecidedHolds` : `Spec => StartsAsDecided` | the same, no two services with one reference (`OwnReferences`) |
| `ContainerUpdateProofs!FailedRunIsUndoneHolds` : `Spec => FailedRunIsUndone` | the same |
| `CveFleetProofs!TypeCorrect` : `Spec => []TypeOK` | every fleet, every set of CVEs, every policy |
| `CveFleetProofs!BlastRadiusHolds` : `Spec => []BlastRadius` | the same, scans side by side and incomplete ones included |
| `CveFleetProofs!HoldStandsHolds` : `Spec => HoldStands` | every fleet, scans one at a time that miss no image (`~Overlap`, `~Incomplete`: with either the property fails, divergences 9 and 10) |
| `UpgradeShimProofs!UpgradeTypes` : `Spec => []TypeOK` | any number of shims beside the timer, of releases and of schemas, with and without faults |
| `UpgradeShimProofs!LiveSlotWorks` : `Spec => [](SlotWorks(link) /\ SlotWorks(synced))` | the same |
| `UpgradeShimProofs!FallbackAlways` : `Spec => []FallbackKept` | the same |
| `UpgradeShimProofs!CrashesConsistent` : `Spec => []CrashConsistent` | the same |
| `UpgradeShimProofs!LiveWithOneShim` : `Spec => []LiveWorks` | the same, one shim beside the timer |
| `UpgradeShimProofs!LiveInView` : `Spec /\ [][UpgradesInView]_vars => []LiveWorks` | any number of shims, as long as no upgrade begins over a swap cut short (divergence 22) |
| `UpgradeShimProofs!ImplementsPlatformHolds` : `Spec => ImplementsPlatform` | any number of shims beside the timer, of releases and of schemas: the safety refinement, all of `PlatformSpec` |
| `UpgradeShimProofs!MarkersResumableHolds` : `Spec => []MarkersResumable` | the same: one rollback is marked at most and its slot can take over, beside an upgrade in flight there is one that can |
| `LifecycleProofs!LifecycleTypes` : `Spec => []TypeOK` | every set of restart policies, any number of failures, kills and daemon restarts |
| `LifecycleProofs!PoliciesKeptHolds` : `Spec => []PoliciesKept` | the same, no release names the policy `no` (`"no" \notin Policies`; with it the property fails, divergence 8) |
| `LifecycleProofs!HeldStaysDownHolds` : `Spec => HeldStaysDown` | every set of policies, any number of failures, kills and daemon restarts |
| `StagedSlotProofs!SlotTyped` : `Spec => []TypeOK` | any number of stages, kills and failed steps |
| `StagedSlotProofs!NeverSwitchedAgainHolds` : `Spec => []NeverSwitchedAgain` | the same |
| `StagedSlotProofs!SaysWhatHappenedHolds` : `Spec => []SaysWhatHappened` | the same |
| `StagedSlotProofs!ImplementsPromotionHolds` : `Spec => ImplementsPromotion` | the same: the refinement, all of `PromotionSpec` |
| `UsernsMigrationProofs!MigrationTypes` : `Spec => []TypeOK` | every set of volumes and bind sources, any number of kills, reboots and failed steps, `LateProjects` included |
| `UsernsMigrationProofs!RunsOnItsDataHolds` : `Spec => []RunsOnItsData` | the same, no project first deployed inside a run (`~LateProjects`) |
| `UsernsMigrationProofs!MarkerCoversHolds` : `Spec => []MarkerCovers` | the same, `~LateProjects` |
| `UsernsMigrationProofs!NothingLostHolds` : `Spec => []NothingLost` | the same, `~LateProjects` (with it the property fails, divergence 6) |
| `UsernsMigrationProofs!ShiftsKeepModesHolds` : `Spec => []ShiftsKeepModes` | the same, `~LateProjects` |
| `LifecycleProofs!AlertTypes` : `H!Spec => []H!TypeOK` (`H` is `HealthAlerts`) | every set of messages, every threshold and bound |
| `LifecycleProofs!AlertedIsToldHolds` : `H!Spec => []AlertedIsTold` | the same, kills only after the message of a stop (`Kills \subseteq {"down"}`) |
| `CveFleetProofs!StricterNeverMilder` | every finding, every number of vendors and runtimes: a stricter posture quarantines what a milder one does |
| `CveFleetProofs!AddedServiceNeverMilder` | the same for a project with one more service |
| `CveFleetProofs!UpcomingRuleOnlyAdds` | the same for the hardening rule that is announced |
| `CveFleetProofs!DangerKeepsInView` | `danger_accept_unpatched_cves` keeps a project up, and reports exactly what it keeps up |

*Install types.* `TypeOK` alone is not inductive: a core's local variables are only
meaningful at some of its steps. `OpOK` says which (a keep knows where it goes on, a
rollback about to restore holds a snapshot that was taken). One lemma per action;
lemmas about the record sets keep their many fields out of the provers' sight.

*Never stale.* Not inductive: whether `previous.json` is as the record expects depends on
what the keep, or the undo of one, has already moved aside. `RecordSound` says what is aside
(nothing, or what the first keep found) and what `previous.json` holds at each step of the
keep, the undo and the close; `PhaseSound` says which phase of which transaction a core at
each step works on. What a record expects is re-read at every write of it (`AdvanceFields`,
`FreshRecord`), and `ensure_kept_pairing` writes only what the keep writes (`PairingWrites`).

*Install files.* `FilesSound` says where each release is between any two writes. `Files`
takes the phases of the record: an install that nothing has run of (`Undoable`) has what it
found in its place or aside; one past its keep has the replaced release in `prev`, whole; a
rollback has its target until it drops `previous.json`; no open install means one whole release
(`Clean`). `Steps` takes the steps of the cores: which of the two moves of a keep, an undo or a
close is done, whether the code is `Mixed`, and that a core that runs the hook, switches or
closes works on whole code (`Ready`). What a superseding transaction needs is that this survives
a change of record: `before`, `had` and `touched` carry it, which is why `Undoable` looks at
`touched` and not only at the phase. `InboxCleans` has to be off: a reinstall passes through a
`Mixed` tree, and what makes that safe is that its code is in place or its bundle is still in the
inbox (`BundleFiles`). The finding `install_inbox_clean` is the state where neither holds.

*Install data.* `DataFiles` relates three things the code writes at different times: the
snapshot a record names, the tree it is paired with, and the newest release that may have
written the data. With no install open the data is no newer than the code, so a snapshot taken
then pairs with the code about to be kept; a rollback past `data_restored` has data no newer
than its target, so the snapshot a fix-forward takes there pairs with the target; before it the
fix-forward keeps the target's own snapshot. `DataSteps` carries the same through the
steps where the snapshot is only in memory (`op.snap`), and `Opened` says that every id on disk
is below the next one, so that a new release is newer than all the data there is. `Growing`:
snapshots are only added, so what pairs goes on pairing (pruning takes from the other end, and
`SnapKept` guards it).

*Refinement.* The step simulation splits on whether an install is open before and after a
step. Closed to open (`Opens`) is `Begin`; open to open leaves `base` alone (`OpenFrame`) and may
only go from clean to dirty (`StaysDirty`: this is what `TouchedBy` is for); open to closed
(`Closes`) is `GiveUp` where everything is as it was found (`UndoFiles`) and otherwise `Finish`:
`ClosedIsClean`'s invariant gives the whole release, `DataFiles` that the new target is one of
the two releases the install had behind it, with a snapshot that pairs.

*Caddy lock and types.* `TypeInv` adds what `look` and `content` hold at each step. The
lock clause of `TypeOK` is what makes each section of the lock exclusive, and the later
proofs use it in every step: an operation inside a section knows that no other is.

*Loads.* Between `Validate` and `Load` the lock is held, so only an unlocked write
could change a file: before the first page or lift that is a deletion, and by lemma `Fewer` a
subset of accepted files is accepted (`ValidInSection`). `PastGrows`: what is calm after a step
was calm before it.

*Revertible.* Not inductive: a restore in the middle has put back some files and not
others, a commit has forgotten some entries. `JournalInv` carries `Before`, the files with
every journaled write taken back, in the middle of a section too: each is as Caddy accepted it
last or gone, whatever has been restored so far (`BeforeLast`; during a commit the files
themselves are, `SiteLast`). An entry's `written` is what the file holds unless it is put back
already or gone (`WrittenOrGone`), which is where torn kills and pages would break it, and
`SectionOK` says what a restore in progress has compared. With the lock free `Before` and
`Reverted` differ only in deleted files (`RevertedLast`), and `Fewer` finishes.
`WrittenOrTakenBack` needs the same of the one site an operation has written and not
reloaded (`OwnSite`).

*Removed.* `RemovedStaysGone` needs only that a restore which has compared is not about to
put a removed site back (`RemovedInv`): the removal is made under the lock, and a restore of an
entry whose file is gone does not match it, as nobody writes `NoSite`. It therefore survives what
`Revertible` does not.

*Image updates.* `StartsAsDecided` is about a step and needs to know what every tag may
name: `TagsTame` says that a tag's image has the decided user, is `loose`, or is one that the
command under the lock has pulled and not yet judged, and what the command remembers
(`before`) is as tame. `UpdateUndone` follows a held or rolled-back run through its loops: what
is no longer in `todo` names again what it named before, what is in it is the rest.
One lemma per kind of step (pull, retag, recreate, decision, promotion, failure).
`OwnReferences` is necessary: with one reference for two services the tag cannot go back to
two images (divergence 19).

*Blast radius.* `ScanInv` says what a scan knows at each step: whom it will stop
(`apply`) and has stopped were candidates of its own scans, and `verdict`'s tests bound their
number and their number per CVE. `ApplyOne` moves one project from the first to the
second, so the bound on their union is inductive where the one on `stopped` is not. The
bound rests on the cardinality lemmas of the library, as does a lemma that a part of a
small set is small.

*Holds stand.* A scan decides on what the file said when it began and writes it back minutes
later, so the promise is about what is between a scan's steps. `OnFile`: a hold that protects a
project is in the file, and a project that is quarantined has none. `Sound` says what a scan in
progress knows of the holds it may lift: of a project it has scanned, that it found nothing
outside the hold; of one it will stop or drop from the file, that nothing holds it. `Verdict`
is the step from the one to the other: what the breaker does not find held already is not held.
`OneScan` keeps a second scan from lifting what the first has weighed. TLC checked the
invariant with three faults before it was proved.

*The upgrade.* The invariant, `Safe`, says what the holder of `upgrade.lock` has
established at each of its steps (`Preparing`, `Swapping`, `Upgraded`, `RolledBack`,
`RollingOut`, `Checking`), and of everyone else nothing but that it has a slot in mind,
which may be an old one. That is enough because of what the files promise between any two
processes: a marker's fallback works and was proven (`MarkersSound`), `probation.json` never
names the live slot unless a rollback is pending (`ProbationSound`), the live slot, and
the one a power cut returns to, are marked or proven (`LiveSound`). An upgrade whose view
is old stops at `prepare`, since `remove_slot` looks at the link again; only the timer may
go on with one, into a rollback, and `TimerSound` says that the upgrade's own marker then still
stands. A kill is the one step that leaves a holder's work as it is, so the files' part
holds at every step, and a power cut only differs from it by the link. One lemma per action.
That link and file agree where nothing is marked needs more (`Agreed`), and is false of one
step, an upgrade that begins over a swap cut short, which `UpgradesInView` names; with one
shim the timer alone can have been swapping, and `OneInv` follows its marker.

*The platform refinement.* `TwoVenvs` is the mapping written out; a step that leaves the link
and the venvs alone stutters, and one lemma per group of the shim's actions says which
step of `PlatformSpec` the others are. The work is in the guards, which no action of the
shim tests itself: that the live release has proven itself where `remove_slot` or
pip touches the other one is `UnmarkedProven` with what `Preparing` knows, that a swap goes to
a release that is there and never from unproven to unproven is `MarkersSound` and `LiveSound`,
and that a power cut takes back at most a swap is what `Safe` says of `synced`.
`MarkersResumable` is the safety that `MarkersResolved` rests on: what resumes a
rollback or recovers an upgrade finds a slot it can go to. That it does so in the end needs
fairness and stays with TLC.

*The holds.* A command of `Lifecycle` is a list of steps, and one step relies on what an
earlier one did, with kills, failures and daemon restarts in between. The invariant
therefore speaks of what the list still holds: `Owes(s, x, G)` says that an `x` is ahead with
no step of `G` before it. A pin that is ahead with no save before it has a policy saved
(`MayPin`); a record's removal ahead with no give-back and no handover before it is not needed
(`MayClear`), and leaves no record behind that knows only the other's `"no"` (`Alone`, `Saved`).
`PoliciesKept` alone is not inductive: it says nothing of what a step ahead will overwrite.
`TailOwes` carries all of these over a step, once; the `Whole...` lemmas say that each
command's list, and each list a failure leaves, begins with nothing owed. `HeldStaysDown`
needs of it that a list with a `compose up` in it belongs to a command that lifts the hold or
that found none (`Fits`, `Steady`). TLC checked the invariant on the run's instance with four faults,
and with the policies `no` and `always`, before it was proved.

*The staged slot.* The two promises are about a whole history of commands, so the invariant says
what the files carry from one to the next. `SlotSound`: a retired slot says how its switch
ended; one whose switch was recorded and that is not retired is `starting`, and no open install
is of it, so that nothing promotes it (a re-stage cut short leaves one). `ToldSound`: a slot put
aside as promoted was, and one that was told of is marked as announced. `Doing` says what a
command has seen to before each of its steps, by what it has left to do (`Ops` lists it: every
suffix of every command's steps), which is what makes a rerun that starts in the middle and one
that starts anew the same to the steps that follow. TLC checked the invariant with four stages
and four faults before it was proved.

The refinement maps a slot's outcome to `result` once the slot is in `over`, which is history:
`over` grows at the retirement, once, and the close that follows ends nothing (`ClosesMaps`). A
rerun that is about to switch works on a slot that is not in `over` (`InstallsMaps`), so what is
concluded stands. `PromoteDoing` gives `Announce` its guard, and `ToldSound` gives `Return` its own:
what is left under the promoted name was promoted.

*The migration.* Its properties look at the trees, but what a run does to a tree is decided by
the journal, and the run that reads it may be another than the one that wrote it, in the other
direction and after a kill between a move and its save. None of them is inductive, nor are all of
them together with the types. The invariant says what the journal means. `TreesOK`: where
a tree is in each phase and at each step of its item, `Carried` on the way there (an item `created`
has its data in either root, one `moved` only in the new one), `Returned` on the way back,
`Home` and `Abroad` at the ends; `ModesOK`: a tree whose shift was cut has lost its setuid bits,
and one of the two lists has each bit its owner gave, the forward list where the rollback did not
make its own. `MarkerOK`, `DaemonOK` and `BoxOK` say what the phase means for the host, and
`StepsOK` what the run at each step has seen to. A step of the loops touches one tree, so what
it keeps is shown of that tree and carried to the others once; then one lemma per step, and
kill and reboot, which leave the journal and the trees, need the part of the invariant that does
not mention the step. `~LateProjects` is what `SwitchedOK` needs: a volume that is not in the
inventory is not there. TLC checked the invariant on the run's instance with three faults
before it was proved.

*Alerts.* `AlertedIsTold` is inductive together with the types: `RecordTold` shows it of one
record, `TickTold` of every outcome of a tick. The property is stated in `HealthRecord`
over the record and the notice alone; the proof instantiates `HealthAlerts` over the same two beside
`Lifecycle`, whose holds the tick sees as one bit.

*Policy.* Severities are numbers and every comparison is monotone: lemmas say so of
`HighestSeverity`, `Elevate`, `Penalty` and `Compared`, and the theorems put them together
along the ladder. `paranoid` is the one posture that takes the highest rating of all
vendors, which is at least the rating the others take.

Assumptions: `MaxDisturbances` is a number, `"none"` is no host, `"free"` is no site, each
named in `CaddyJournal`; the other modules name theirs. TLC evaluates them.

Model-checked only: liveness under fairness, which with `ENABLED` is out of the prover's reach:
`InstallCloses`, `RetiredSlotGoes`, `MarkersResolved`, `MarkerClears`, `QuarantineHolds`,
`MarkerRestarts`, `KevActs`, `ReasonIsTold` and `UpdatesArrive`. Every other property of a
passing run has its theorem. Where a theorem has a switch as a hypothesis, "Divergences without a run" says
which properties fail without it.

## Findings

`install_inbox_clean`: a reinstall killed part-way leaves `live.json` naming a mixed
tree; if `inbox clean` then removes the bundle, a resume takes the tree for complete
(`commands/deploy_tree.py:359`). `PROJECT.json` quotes the sentence this contradicts.

`install_rollback_refused`: a rollback reinstalls the kept release entry by entry, removing
each before it copies it (`release.py:241`). Killed between the two for `manifest.yml`, it is
refused when it is run again, as "the project has not been deployed"
(`commands/rollback.py:103`, against `:294`), although its target is whole. What is left is the deploy
of another bundle, which takes the target over.

### Divergences without a run
Each is a counterexample TLC finds when the module is run with the constants named here. The
properties are in the modules; no `.cfg` lists them.

1. `ServesWhatItWrote` (`CaddyJournal`, two sites, two hosts, `MaxDisturbances` 0): another
   project's rejected reload puts back a good site whose own operation is between write and
   reload, and that operation then reports success (`caddy_journal.py:214`, against `:16`).
2. `Revertible` without `Calm`, one disturbance: a kill between the second write of an entry and
   of its site leaves a bad file no restore takes back (`caddy_journal.py:175`).
3. The same: a maintenance page for a host that another project serves is rejected and stays on
   disk, and every later reload is rejected (`commands/pause_cmd.py:122`). With a lift
   `LoadsValidated` without `LockedSoFar` fails (`commands/security_resume.py:200`).
4. `RedeployKeepsPairing` (`InstallSafety`, `Retention` 5, two installs, six snapshots):
   deploying the same release again five times prunes the snapshot its rollback target is
   paired with (`commands/deploy.py:127`).
5. `AcceptedStays` (`UpgradeShim`, no faults): a deploy that accepts the release on probation
   while the timer's health check runs does not stop the rollback the check then
   makes (`scripts/boxmunge-upgrade.d/probation.sh:182`, against `probation.py:4`).
6. `NothingLost` (`UsernsMigration`, `LateProjects` TRUE, one fault): a project first deployed
   after a run began and before its marker; the rollback takes its volume for one that the
   soak made (`userns/rollback.py:4`).
7. `AbandonedIsUp` (`UsernsMigration`, three faults): a rollback that abandons a migration
   journals each project it has started as `up`; killed after that, a box that has come down
   since is not started by the next run (`userns/rollback.py:57`).
8. `PoliciesKept` with the policies `no` and `always` (`Lifecycle`): a release that changes
   the policy under a hold is given back the older one (`restart_hold.py`, "A policy already
   saved is kept").
9. `HoldStands` with `Overlap` and two jobs (`CveFleet`): nothing locks the breaker's file
   between `read_held` and `write_held`, so a scan that ends later writes back what it read
   (`cve/breaker.py:20`).
10. `HoldStands` with `Incomplete`: a scan that misses an image drops the hold, and the next
    one stops the project.
11. `StopsOnlyAtRisk` (`CveFleet`): a suppression added between the scan of a project and
    the run's stops is not looked at again (`commands/security_fleet_enforce.py:60`, against
    `:7`).
12. `UndeliveredIsRetried` (`CveFleet`, two faults): `--apply-held` that fails for one project
    clears `alert_pending` (`docs/on-server/CVE_POLICY.md:925`).
13. `SlotReadable` (`StagedSlot`, two stages, two faults): `update_meta` keeps the announcement
    of a retired slot whose state goes back to `starting`, and `load_slot` refuses the
    result (`staged_release.py:158`).
14. `StopIsCritical` (`HealthAlerts`): a delivered warning with the same message suppresses the
    critical alert of the stop that follows (`commands/health_state.py`).
15. `RecoveryIsTold` (`HealthAlerts`): an undelivered critical alert takes the earlier one
    back, and `recover` clears it, so no RECOVERED follows
    (`docs/on-server/OPERATIONS.md:552`).
16. `ReasonIsTold` with `"alert"` in `Kills`, and a second RECOVERED with `"recovered"` there: a
    tick killed between the message and the record.

17. `OnlyDecidedStarts` (`ContainerUpdate`, one fault): a pull that fails for the second service, a kill
    between a pull and its guard, or another project's pull leaves an image with another
    user named, and any restart runs it (`user_drift.py:1`, "Every path that pulls without
    deciding users ... checks what it pulled").
18. `DryRunIsHarmless` (`ContainerUpdate`, no faults): what a dry run pulled runs at the next
    restart, with no health check and no rollback
    (`commands/container_update_cmd.py`, `run_container_update`: "harmless").
19. `FailedRunIsUndone` and `StartsAsDecided` with one reference for two services (`RefOf`
    constant, two faults): after a deploy that failed half-way the services run two images
    of one tag, and an update that is held back can name only one of them.
20. A deploy whose `promote_candidates` fails has recorded its users and closes its
    install with the tags on the older images (`commands/deploy.py:325`), and a rollback may
    return to an image older than the recorded decision. Both are in `loose`: without those
    two entries `StartsAsDecided` fails.
21. `NoStopOverRunning` (`Lifecycle`, no faults): a quarantine over a project that the monitor had
    stopped is lifted; the lift starts the containers and does not write `last_started_at`, so
    the stop still stands over a running project and ticks skip it
    (`commands/security_resume.py:203`; `commands/upgrade_steps.py:431` avoids the same start for
    that reason).
22. `LiveWorks` (`UpgradeShim`, two shims, two releases, faults): a shim's upgrade to slot b
    fails and its rollback is killed between the link and `active-slot`; the timer, which
    had loaded slot a before, finishes the rollback without a swap and takes its marker away;
    a second shim, which had loaded a before too, takes the lock and removes the standby
    with the upgrade's marker. `env-active` says a, `active-slot` b, nothing is marked, and
    every later shim refuses to run (`scripts/boxmunge-upgrade.d/state.sh:69`, "written before
    any swap"). The slot is read before the lock is taken (`LiveInView` proves that this
     step is the only way there).
23. `DeletedStaysGone` (`CaddyJournal`, two sites, `MaxDisturbances` 0): `project-delete` unlinks its
    site without the Caddy lock; a restore that has compared the file before puts it back
    (`commands/project_delete_cmd.py:201`).
24. `InstallCloses` without the second line of `LivenessBounds`: something else removes
    `previous.json` under a rollback that has not switched. The record is not stale
    (`release_txn.py:256` accepts a missing one of a rollback), `rollback` finds no target,
    and a fix-forward over it finds none either (`commands/deploy_tree.py:321`): no command
    closes the install.
25. A resume whose bundle is gone asks to upload `<ref>.tar.gz` again and to rerun the deploy
    (`commands/deploy_tree.py:357`), but `receive_bundle` gives every upload a new name and so a
    new ref (`reception.py:92`): over the shell that is always a fix-forward. The model's
    `Upload` allows both.

## Not modelled

What is left out of a modelled component is listed under its abstractions. Left out as a
whole: Git installs, whose transaction is the next to model; the
legacy stage conversion, which runs once; the order of the locks as a whole; the registry,
the secrets and the job store, whose records are rewritten under one short lock each;
parsing and generation of documents (manifests, compose files, site text); file
ownership and copying; log rotation and the delivery of notifications; the external
programs (docker, Caddy, the vulnerability scanner) beyond their verdicts; the client, the
version-check service and the bootstrap.

## Plan

The order in which the modules were written is the order of what a mistake costs: the
install and Caddy's files, the upgrade, the migration, the holds and the slot, the scan, the
alerts, the image updates. Each is parameterised by constants with named assumptions, has one action per
operation and no `RECURSIVE` operator. What is left, most important first:

1. `GitInstall`: the second source of the install transaction.
2. `LockOrder`: which command takes which lock in what order.
3. Smaller ones: backup retention and restore, log rotation against writers, the job store.

What is left to prove, beside liveness, is `LiveWorks` with several shims from a weaker hypothesis than
`UpgradesInView`, and the theorems of the modules above.
