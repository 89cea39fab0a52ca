----------------------------- MODULE InstallTxn -----------------------------
(***************************************************************************)
(* The install transaction of a bundle project: a deploy                   *)
(* (commands/deploy_tree.py), its rollback (commands/rollback.py), its     *)
(* abandonment (install_abandon.py) and the dropping of a stale record     *)
(* (install_txn_cmd.py), over the files that survive a crash.              *)
(*                                                                         *)
(* One core runs at a time (each holds the project lock); `pc` says which  *)
(* durable write comes next and `op` holds what the core keeps in memory.  *)
(* A step is one durable write (a rename, an unlink, an atomic write of a  *)
(* record) or one change of the containers or the data.  Crash drops the   *)
(* core between any two of them; a failure the code reports by leaving the *)
(* transaction open has the same effect on what is durable.                *)
(***************************************************************************)
EXTENDS InstallRecord, Sequences

CONSTANTS Retention,    \* pre-deploy snapshots kept (SNAPSHOT_RETENTION[PREDEPLOY])
          InboxCleans,  \* may `inbox clean` remove bundles in this run?
          Tampering     \* may something else rewrite a release's records?

ASSUME RetentionAssumption == Retention \in Nat \ {0}
ASSUME SwitchAssumption == InboxCleans \in BOOLEAN /\ Tampering \in BOOLEAN

VARIABLES
    code,      \* the release code in the project dir
    liveJson,  \* the ref in .releases/live.json
    prev,      \* .releases/previous/
    prevMeta,  \* .releases/previous.json
    sup,       \* .releases/previous.superseded/
    supMeta,   \* .releases/previous.superseded.json
    txn,       \* .releases/install.json
    nextId,    \* the id the next transaction gets
    snaps,     \* pre-deploy snapshots: the data mark each one holds
    data,      \* the newest transaction whose release may have written the data
    running,   \* the release production's containers run
    recorded,  \* current_ref in the deploy state
    inbox,     \* the bundles in the inbox
    pc, op,    \* the core that holds the project lock
    base,      \* what the first of a chain of transactions found
    tampered   \* something else rewrote a record

disk == <<code, liveJson, prev, prevMeta, sup, supMeta>>
log == <<txn, nextId, base>>
world == <<snaps, data, running, recorded, inbox>>
vars == <<disk, log, world, pc, op, tampered>>

NoOp == [ref |-> None, tree |-> FALSE, snap |-> 0, then |-> "", ok |-> FALSE]
NoBase == [code |-> NoTree, live |-> None, prev |-> NoTree, meta |-> NoMeta,
           running |-> NoTree, data |-> 0]

\* Is there a manifest.yml in the project dir?  The commands take that for "the
\* project has been deployed".
Deployed == code.manifest

Stale == txn.id # 0 /\ IsStale(txn, liveJson, prevMeta, supMeta)

SnapKept(s) == s \in 1 .. Len(snaps) /\ s > Len(snaps) - Retention

\* The release `t` writes the data: it may now hold what t's release wrote.
WrittenBy(t) == IF t.gen > data THEN t.gen ELSE data

Init ==
    /\ code = NoTree /\ liveJson = None
    /\ prev = NoTree /\ prevMeta = NoMeta
    /\ sup = NoTree /\ supMeta = NoMeta
    /\ txn = NoTxn /\ nextId = 1 /\ base = NoBase
    /\ snaps = <<>> /\ data = 0 /\ running = NoTree /\ recorded = None
    /\ inbox = {}
    /\ pc = "idle" /\ op = NoOp
    /\ tampered = FALSE

-----------------------------------------------------------------------------
(* Steps every core is made of. *)

Goto(next) == pc' = next

Done == pc' = "idle" /\ op' = NoOp

\* advance, mark_abandon: every write of the record re-reads the files.
AdvanceTo(phase) ==
    txn' = [txn EXCEPT !.phase = phase, !.expLive = liveJson, !.expPrev = prevMeta]

\* ensure_kept_pairing: previous.json after it.
PairedMeta(t) == IF PairsKept(t) /\ prev # NoTree THEN KeptMeta(t) ELSE prevMeta

\* A pre-deploy snapshot of the live data; it may be skipped or fail.
TakeSnapshot ==
    \/ /\ Len(snaps) < MaxSnaps
       /\ snaps' = Append(snaps, data)
       /\ op' = [op EXCEPT !.snap = Len(snaps) + 1]
    \/ /\ UNCHANGED snaps
       /\ op' = [op EXCEPT !.snap = 0]

\* The core is killed, or reports a failure and leaves the install open.
Crash ==
    /\ pc # "idle"
    /\ Done
    /\ UNCHANGED <<disk, log, world, tampered>>

-----------------------------------------------------------------------------
(* prod-deploy: deploy_tree_locked and what it dispatches to. *)

\* Without a bundle only an install whose code is in place resumes.
ResumesWithoutBundle(r) ==
    /\ txn.source = "bundle" /\ txn.ref = r
    /\ Reached(txn, "installed")
    /\ liveJson = r
    /\ Deployed

\* Mutants: a fix-forward always takes a snapshot of its own; it undoes the keep
\* of an install that has gone further.
FixForwardStep_Fresh == "overRollback"
FixForwardStep_Undo == IF txn.source = "bundle" THEN "undoDir" ELSE "supersede"

\* _fix_forward, _over_rollback: a different deploy over an open install.
FixForwardStep ==
    IF txn.source = "rollback" /\ Reached(txn, "data_restored") THEN "overRollback"
    ELSE IF txn.source = "bundle" /\ ~Reached(txn, "previous_kept") THEN "undoDir"
    ELSE "supersede"

DeployStep(r) ==
    CASE txn.id = 0 -> "snapshot"
      [] txn.id # 0 /\ txn.source = "bundle" /\ txn.ref = r ->
           IF txn.phase = "committed"
           THEN IF txn.replaced = None THEN "kept" ELSE "undoDir"
           ELSE IF txn.phase = "switching" THEN "generate" ELSE "install"
      [] OTHER -> FixForwardStep

Deploy(r) ==
    /\ pc = "idle"
    /\ \/ r \in inbox
       \/ r \notin inbox /\ txn.id # 0 /\ ResumesWithoutBundle(r)
    /\ ~Stale /\ ~Abandoning(txn)
    /\ txn.source = "rollback" => prev # NoTree /\ prevMeta # NoMeta
    /\ txn.source = "rollback" \/ txn.ref # r => nextId <= MaxTxn
    /\ prevMeta' = PairedMeta(txn)
    /\ Goto(DeployStep(r))
    /\ op' = [NoOp EXCEPT !.ref = r, !.tree = (r \in inbox), !.snap = txn.snap,
                          !.then = IF DeployStep(r) = "undoDir" /\ txn.ref # r
                                   THEN "reopen" ELSE "keep"]
    /\ UNCHANGED <<code, liveJson, prev, sup, supMeta, log, world, tampered>>

\* _open: the outgoing release's data is saved before the transaction opens.
PreDeploySnapshot ==
    /\ pc = "snapshot"
    /\ IF Deployed THEN TakeSnapshot
       ELSE UNCHANGED snaps /\ op' = [op EXCEPT !.snap = 0]
    /\ Goto("open")
    /\ UNCHANGED <<disk, log, data, running, recorded, inbox, tampered>>

NewTxn(source, ref, replaced, phase, before, had, touched) ==
    /\ nextId <= MaxTxn    \* the bound (Deploy and Rollback ask for it too)
    /\ nextId' = nextId + 1
    /\ txn' = [id |-> nextId, source |-> source, ref |-> ref, replaced |-> replaced,
               snap |-> op.snap, phase |-> phase, expLive |-> liveJson,
               expPrev |-> prevMeta, before |-> before, had |-> had, touched |-> touched]

\* open_txn: nothing to inherit; what is on disk is what an abandon puts back.
OpenNew(source, ref, replaced) ==
    /\ NewTxn(source, ref, replaced, "committed", prevMeta, prev # NoTree, "")
    /\ base' = [code |-> code, live |-> liveJson, prev |-> prev, meta |-> prevMeta,
                running |-> running, data |-> data]

\* Mutant: what is on disk now is what an abandon puts back.
SupersedeBy_Forget(source, ref, replaced, phase) ==
    /\ NewTxn(source, ref, replaced, phase, prevMeta, prev # NoTree, TouchedBy(txn))
    /\ UNCHANGED base

\* supersede_txn: what the first keep found and what may have run carry over.
SupersedeBy(source, ref, replaced, phase) ==
    /\ NewTxn(source, ref, replaced, phase, txn.before, txn.had, TouchedBy(txn))
    /\ UNCHANGED base

OpenTxn ==
    /\ pc = "open"
    /\ Deployed => liveJson # None
    /\ LET replaced == IF Deployed THEN liveJson ELSE None
       IN /\ OpenNew("bundle", op.ref, replaced)
          /\ Goto(IF replaced = None THEN "kept" ELSE "undoDir")
    /\ op' = [op EXCEPT !.then = "keep"]
    /\ UNCHANGED <<disk, world, tampered>>

-----------------------------------------------------------------------------
(* release_keep: restore_superseded ("undo..."), then the keep. *)

AfterUndo == IF op.then = "keep" THEN "keepAside" ELSE "closeDir"

UndoDropPrev ==
    /\ pc = "undoDir"
    /\ prev # NoTree /\ (sup # NoTree \/ ~txn.had)
    /\ prev' = NoTree
    /\ UNCHANGED <<code, liveJson, prevMeta, sup, supMeta, log, world, pc, op, tampered>>

UndoDir ==
    /\ pc = "undoDir"
    /\ \/ /\ sup # NoTree /\ prev = NoTree
          /\ prev' = sup /\ sup' = NoTree
       \/ /\ sup = NoTree /\ (txn.had \/ prev = NoTree)
          /\ UNCHANGED <<prev, sup>>
    /\ Goto("undoMeta")
    /\ UNCHANGED <<code, liveJson, prevMeta, supMeta, log, world, op, tampered>>

UndoDropMeta ==
    /\ pc = "undoMeta"
    /\ prevMeta # NoMeta /\ (supMeta # NoMeta \/ txn.before = NoMeta)
    /\ prevMeta' = NoMeta
    /\ UNCHANGED <<code, liveJson, prev, sup, supMeta, log, world, pc, op, tampered>>

UndoMeta ==
    /\ pc = "undoMeta"
    /\ \/ /\ supMeta # NoMeta /\ prevMeta = NoMeta
          /\ prevMeta' = supMeta /\ supMeta' = NoMeta
       \/ /\ supMeta = NoMeta /\ (txn.before # NoMeta \/ prevMeta = NoMeta)
          /\ UNCHANGED <<prevMeta, supMeta>>
    /\ Goto(AfterUndo)
    /\ UNCHANGED <<code, liveJson, prev, sup, log, world, op, tampered>>

\* keep_previous_release_txn: the old target aside, then the live code kept.
KeepAside ==
    /\ pc = "keepAside"
    /\ \/ prev = NoTree /\ UNCHANGED <<prev, sup>>
       \/ prev # NoTree /\ sup = NoTree /\ sup' = prev /\ prev' = NoTree
    /\ Goto("keepAsideMeta")
    /\ UNCHANGED <<code, liveJson, prevMeta, supMeta, log, world, op, tampered>>

KeepAsideMeta ==
    /\ pc = "keepAsideMeta"
    /\ IF prevMeta = NoMeta THEN UNCHANGED <<prevMeta, supMeta>>
       ELSE supMeta' = prevMeta /\ prevMeta' = NoMeta
    /\ Goto("keepDir")
    /\ UNCHANGED <<code, liveJson, prev, sup, log, world, op, tampered>>

KeepDir ==
    /\ pc = "keepDir"
    /\ prev' = code
    /\ Goto("keepMeta")
    /\ UNCHANGED <<code, liveJson, prevMeta, sup, supMeta, log, world, op, tampered>>

KeepMeta ==
    /\ pc = "keepMeta"
    /\ prevMeta' = KeptMeta(txn)
    /\ Goto("kept")
    /\ UNCHANGED <<code, liveJson, prev, sup, supMeta, log, world, op, tampered>>

\* Mutant: a failed keep closes the transaction without putting anything back.
KeepFails_Close ==
    /\ pc \in {"keepAside", "keepAsideMeta", "keepDir", "keepMeta"}
    /\ Goto("closeDir")
    /\ op' = [op EXCEPT !.then = "close"]
    /\ UNCHANGED <<disk, log, world, tampered>>

\* _keep: a failed keep puts everything back and closes the transaction.
KeepFails ==
    /\ pc \in {"keepAside", "keepAsideMeta", "keepDir", "keepMeta"}
    /\ Goto("undoDir")
    /\ op' = [op EXCEPT !.then = "close"]
    /\ UNCHANGED <<disk, log, world, tampered>>

AdvanceKept ==
    /\ pc = "kept"
    /\ AdvanceTo("previous_kept")
    /\ Goto("install")
    /\ UNCHANGED <<disk, nextId, base, world, op, tampered>>

-----------------------------------------------------------------------------
(* Fix-forward: a different deploy takes an open install over. *)

\* _over_rollback past data_restored: the data is the target's again.
OverRollbackSnapshot ==
    /\ pc = "overRollback"
    /\ TakeSnapshot
    /\ Goto("supersede")
    /\ UNCHANGED <<disk, log, data, running, recorded, inbox, tampered>>

Supersede ==
    /\ pc = "supersede"
    /\ SupersedeBy("bundle", op.ref,
                   IF txn.source = "rollback" THEN prevMeta.ref ELSE txn.replaced,
                   "previous_kept")
    /\ Goto("pair")
    /\ UNCHANGED <<disk, world, op, tampered>>

EnsurePairing ==
    /\ pc = "pair"
    /\ prevMeta' = PairedMeta(txn)
    /\ Goto("install")
    /\ UNCHANGED <<code, liveJson, prev, sup, supMeta, log, world, op, tampered>>

-----------------------------------------------------------------------------
(* Putting a release's code in the project dir: install_release, mark_live. *)

\* The tree that is installed: the bundle's, or (a rollback, an abandon) the
\* kept one, or nothing where an abandon removes a first deploy's code.
TreeToInstall ==
    IF Abandoning(txn) THEN IF txn.replaced = None THEN NoTree ELSE prev
    ELSE IF txn.source = "rollback" THEN prev
    ELSE [ref |-> txn.ref, gen |-> txn.id, whole |-> TRUE, manifest |-> TRUE]

\* Entries are removed and copied one by one, manifest.yml among them.
InstallBegin ==
    /\ pc = "install"
    /\ IF op.tree THEN code' \in {Mixed, Bare} /\ Goto("installing")
       ELSE UNCHANGED code /\ Goto("hook")
    /\ UNCHANGED <<liveJson, prev, prevMeta, sup, supMeta, log, world, op, tampered>>

InstallEnd ==
    /\ pc = "installing"
    /\ code' = TreeToInstall
    /\ Goto("markLive")
    /\ UNCHANGED <<liveJson, prev, prevMeta, sup, supMeta, log, world, op, tampered>>

MarkLive ==
    /\ pc = "markLive"
    /\ liveJson' = IF Abandoning(txn) THEN txn.replaced ELSE txn.ref
    /\ Goto(IF Abandoning(txn) THEN "codeRestored"
            ELSE IF Reached(txn, "installed") THEN "onInstalled" ELSE "installed")
    /\ UNCHANGED <<code, prev, prevMeta, sup, supMeta, log, world, op, tampered>>

AdvanceInstalled ==
    /\ pc = "installed"
    /\ AdvanceTo("installed")
    /\ Goto(IF txn.source = "rollback" THEN "restore" ELSE "onInstalled")
    /\ UNCHANGED <<disk, nextId, base, world, op, tampered>>

\* consume_bundle moves the bundle and the project's older ones away; a bundle
\* that is gone stops the deploy there.
OnInstalled ==
    /\ pc = "onInstalled"
    /\ IF op.ref \in inbox
       THEN /\ \E older \in SUBSET (inbox \ {op.ref}) : inbox' = inbox \ ({op.ref} \cup older)
            /\ Goto("hook") /\ UNCHANGED op
       ELSE UNCHANGED inbox /\ Done
    /\ UNCHANGED <<disk, log, snaps, data, running, recorded, tampered>>

-----------------------------------------------------------------------------
(* switch_and_close and start_rolled_back: the hook, the start, the close. *)

AdvanceHookStarted ==
    /\ pc = "hook"
    /\ IF Reached(txn, "hook_started") THEN UNCHANGED txn ELSE AdvanceTo("hook_started")
    /\ Goto("runHook")
    /\ UNCHANGED <<disk, nextId, base, world, op, tampered>>

\* The hook is the new release's code, run on the host before the switch.
RunHook ==
    /\ pc = "runHook"
    /\ data' = WrittenBy(code)
    /\ Goto("generate")
    /\ UNCHANGED <<disk, log, snaps, running, recorded, inbox, op, tampered>>

HookFails ==
    /\ pc = "runHook"
    /\ data' \in {data, WrittenBy(code)}
    /\ Done
    /\ UNCHANGED <<disk, log, snaps, running, recorded, inbox, tampered>>

\* The configs are generated, and the switch is recorded before it is made.
AdvanceSwitching ==
    /\ pc = "generate"
    /\ IF Reached(txn, "switching") THEN UNCHANGED txn ELSE AdvanceTo("switching")
    /\ Goto("replace")
    /\ UNCHANGED <<disk, nextId, base, world, op, tampered>>

\* replace_release: production's containers are replaced; anything that fails
\* from there on (compose, Caddy, the smoke test) leaves either release running.
StartRelease ==
    /\ pc = "replace"
    /\ \/ running' = code /\ op' = [op EXCEPT !.ok = TRUE] /\ data' = WrittenBy(code)
       \/ /\ op' = [op EXCEPT !.ok = FALSE]
          /\ \/ running' = code /\ data' = WrittenBy(code)
             \/ UNCHANGED <<running, data>>
    /\ Goto("record")
    /\ UNCHANGED <<disk, log, snaps, recorded, inbox, tampered>>

\* record_deploy_state, whatever the result, except for a failed first deploy;
\* then a successful rollback drops its target, and the transaction closes.
RecordDeploy ==
    /\ pc = "record"
    /\ recorded' = IF op.ok \/ recorded # None THEN txn.ref ELSE recorded
    /\ Goto(IF txn.source = "rollback" /\ op.ok THEN "discardMeta" ELSE "closeDir")
    /\ UNCHANGED <<disk, log, snaps, data, running, inbox, op, tampered>>

DiscardPreviousMeta ==
    /\ pc = "discardMeta"
    /\ prevMeta' = NoMeta
    /\ Goto("discardDir")
    /\ UNCHANGED <<code, liveJson, prev, sup, supMeta, log, world, op, tampered>>

DiscardPreviousDir ==
    /\ pc = "discardDir"
    /\ prev' = NoTree
    /\ Goto("closeDir")
    /\ UNCHANGED <<code, liveJson, prevMeta, sup, supMeta, log, world, op, tampered>>

CloseDir ==
    /\ pc = "closeDir"
    /\ sup' = NoTree
    /\ Goto("closeMeta")
    /\ UNCHANGED <<code, liveJson, prev, prevMeta, supMeta, log, world, op, tampered>>

CloseMeta ==
    /\ pc = "closeMeta"
    /\ supMeta' = NoMeta
    /\ Goto("closeRecord")
    /\ UNCHANGED <<code, liveJson, prev, prevMeta, sup, log, world, op, tampered>>

\* _fix_forward over an install that kept nothing goes on to open its own.
CloseRecord ==
    /\ pc = "closeRecord"
    /\ txn' = NoTxn /\ base' = NoBase
    /\ IF op.then = "reopen" THEN Goto("snapshot") /\ UNCHANGED op ELSE Done
    /\ UNCHANGED <<disk, nextId, world, tampered>>

-----------------------------------------------------------------------------
(* rollback: rollback_locked and _roll_back_release. *)

RollbackFinished ==
    txn.source = "rollback" /\ Reached(txn, "switching") /\ prevMeta = NoMeta

\* find_rollback_target: the snapshot that pairs with previous/.
PairedSnap == IF PairsKept(txn) THEN txn.snap ELSE prevMeta.snap

\* Mutant: a rollback whose code is installed resumes with the hook.
RollbackStep_NoRestore ==
    IF txn.source # "rollback" THEN "openRollback"
    ELSE IF ~Reached(txn, "installed") THEN "install"
    ELSE IF ~Reached(txn, "switching") THEN "hook" ELSE "generate"

RollbackStep ==
    IF txn.source # "rollback" THEN "openRollback"
    ELSE IF ~Reached(txn, "installed") THEN "install"
    ELSE IF ~Reached(txn, "data_restored") THEN "restore"
    ELSE IF ~Reached(txn, "switching") THEN "hook" ELSE "generate"

Rollback ==
    /\ pc = "idle"
    /\ txn.id # 0 => ~Stale /\ ~Abandoning(txn) /\ DataMayHaveChanged(txn)
    /\ \/ /\ RollbackFinished
          /\ Goto("discardMeta")
          /\ op' = NoOp
          /\ UNCHANGED prevMeta
       \/ /\ ~RollbackFinished
          /\ Deployed
          /\ prev # NoTree /\ PairedMeta(txn) # NoMeta
          /\ SnapKept(PairedSnap)
          /\ txn.source # "rollback" => nextId <= MaxTxn
          /\ prevMeta' = PairedMeta(txn)
          /\ Goto(RollbackStep)
          /\ op' = [NoOp EXCEPT !.ref = prevMeta'.ref, !.tree = TRUE, !.snap = PairedSnap]
    /\ UNCHANGED <<code, liveJson, prev, sup, supMeta, log, world, tampered>>

OpenRollback ==
    /\ pc = "openRollback"
    /\ liveJson # None
    /\ IF txn.id = 0 THEN OpenNew("rollback", op.ref, liveJson)
       ELSE SupersedeBy("rollback", op.ref, liveJson, "committed")
    /\ Goto("install")
    /\ UNCHANGED <<disk, world, op, tampered>>

\* restore_locked stops production before the data is replaced: until the
\* restore command has ended the data belongs to no release.
RestoreBegin ==
    /\ pc = "restore"
    /\ running' = NoTree
    /\ data' = txn.id
    /\ Goto("restoring")
    /\ UNCHANGED <<disk, log, snaps, recorded, inbox, op, tampered>>

\* Every service is started again on the restored data: the release's own.
RestoreEnd ==
    /\ pc = "restoring"
    /\ data' = IF snaps[op.snap] > code.gen THEN snaps[op.snap] ELSE code.gen
    /\ running' = code
    /\ Goto("restored")
    /\ UNCHANGED <<disk, log, snaps, recorded, inbox, op, tampered>>

\* The restore command failed: the project is started again as it is.
RestoreFails ==
    /\ pc = "restoring"
    /\ running' \in {NoTree, code}
    /\ Done
    /\ UNCHANGED <<disk, log, snaps, data, recorded, inbox, tampered>>

AdvanceDataRestored ==
    /\ pc = "restored"
    /\ AdvanceTo("data_restored")
    /\ Goto("hook")
    /\ UNCHANGED <<disk, nextId, base, world, op, tampered>>

-----------------------------------------------------------------------------
(* prod-deploy --abandon and install-txn --drop. *)

\* Mutant: an abandon that crashed cannot be run again.
Abandon_Once ==
    /\ pc = "idle"
    /\ txn.id # 0 /\ ~Stale /\ ~DataMayHaveChanged(txn) /\ ~Abandoning(txn)
    /\ IF txn.phase \in {"previous_kept", "installed"} THEN AdvanceTo("abandoning")
       ELSE UNCHANGED txn
    /\ Goto(IF txn'.phase = "abandoning" THEN "install"
            ELSE IF txn.phase = "committed" THEN "codeRestored" ELSE "undoDir")
    /\ op' = [NoOp EXCEPT !.tree = TRUE, !.then = "close"]
    /\ UNCHANGED <<disk, nextId, base, world, tampered>>

Abandon ==
    /\ pc = "idle"
    /\ txn.id # 0 /\ ~Stale /\ ~DataMayHaveChanged(txn)
    /\ IF txn.phase \in {"previous_kept", "installed"} THEN AdvanceTo("abandoning")
       ELSE UNCHANGED txn
    /\ Goto(IF txn'.phase = "abandoning" THEN "install"
            ELSE IF txn.phase = "committed" THEN "codeRestored" ELSE "undoDir")
    /\ op' = [NoOp EXCEPT !.tree = TRUE, !.then = "close"]
    /\ UNCHANGED <<disk, nextId, base, world, tampered>>

CodeRestored ==
    /\ pc = "codeRestored"
    /\ AdvanceTo("abandoned_code")
    /\ Goto("undoDir")
    /\ UNCHANGED <<disk, nextId, base, world, op, tampered>>

Drop ==
    /\ pc = "idle"
    /\ Stale
    /\ Goto("rescueDir")
    /\ UNCHANGED <<disk, log, world, op, tampered>>

RescueDir ==
    /\ pc = "rescueDir"
    /\ IF sup # NoTree /\ prev = NoTree THEN prev' = sup /\ sup' = NoTree
       ELSE UNCHANGED <<prev, sup>>
    /\ Goto("rescueMeta")
    /\ UNCHANGED <<code, liveJson, prevMeta, supMeta, log, world, op, tampered>>

RescueMeta ==
    /\ pc = "rescueMeta"
    /\ IF supMeta # NoMeta /\ prevMeta = NoMeta THEN prevMeta' = supMeta /\ supMeta' = NoMeta
       ELSE UNCHANGED <<prevMeta, supMeta>>
    /\ Goto("closeDir")
    /\ UNCHANGED <<code, liveJson, prev, sup, log, world, op, tampered>>

-----------------------------------------------------------------------------
(* What happens around the install cores. *)

\* prod-deploy with an empty inbox and no open install: the release on disk is
\* deployed again, outside any transaction, after a snapshot of its own.
RedeploySnapshot ==
    /\ pc = "idle"
    /\ txn.id = 0 /\ inbox = {} /\ Deployed /\ liveJson # None
    /\ TakeSnapshot
    /\ Goto("redeploy")
    /\ UNCHANGED <<disk, log, data, running, recorded, inbox, tampered>>

RedeployStart ==
    /\ pc = "redeploy"
    /\ \/ /\ running' = code
          /\ data' = WrittenBy(code)
          /\ recorded' = liveJson
       \/ /\ running' \in {running, code}
          /\ data' = WrittenBy(code)
          /\ recorded' = IF recorded # None THEN liveJson ELSE recorded
    /\ Done
    /\ UNCHANGED <<disk, log, snaps, inbox, tampered>>

\* Mutant: a start that does not go through compose_guard.
OtherStart_Unguarded ==
    /\ pc = "idle"
    /\ Deployed /\ running # code
    /\ running' = code
    /\ data' = WrittenBy(code)
    /\ UNCHANGED <<disk, log, snaps, recorded, inbox, pc, op, tampered>>

\* Any other start (resume, recover, an upgrade, a container update) goes
\* through compose_guard, which refuses it while an install is open.
OtherStart ==
    /\ pc = "idle"
    /\ txn.id = 0
    /\ Deployed /\ running # code
    /\ running' = code
    /\ data' = WrittenBy(code)
    /\ UNCHANGED <<disk, log, snaps, recorded, inbox, pc, op, tampered>>

Upload(r) ==
    /\ r \notin inbox
    /\ inbox' = inbox \cup {r}
    /\ UNCHANGED <<disk, log, snaps, data, running, recorded, pc, op, tampered>>

\* `inbox clean` takes no lock.
InboxClean ==
    /\ InboxCleans
    /\ inbox # {}
    /\ inbox' = {}
    /\ UNCHANGED <<disk, log, snaps, data, running, recorded, pc, op, tampered>>

\* An older boxmunge after a platform rollback, or a hand edit, rewrites a
\* release's record while an install is open.
Tamper ==
    /\ Tampering /\ ~tampered
    /\ pc = "idle" /\ txn.id # 0
    /\ tampered' = TRUE
    /\ \/ \E r \in Refs : liveJson' = r /\ UNCHANGED prevMeta
       \/ prevMeta' = NoMeta /\ UNCHANGED liveJson
    /\ UNCHANGED <<code, prev, sup, supMeta, log, world, pc, op>>

-----------------------------------------------------------------------------
\* What the operator and the rest of the box start.
Request == \/ \E r \in Refs : Deploy(r) \/ Upload(r)
           \/ Rollback \/ Abandon \/ Drop
           \/ RedeploySnapshot \/ OtherStart \/ InboxClean \/ Tamper

\* What goes wrong while a core runs.
Fault == Crash \/ KeepFails \/ HookFails \/ RestoreFails

\* The next write of the core that holds the lock.
CoreStep ==
    \/ PreDeploySnapshot \/ OpenTxn
    \/ UndoDropPrev \/ UndoDir \/ UndoDropMeta \/ UndoMeta
    \/ KeepAside \/ KeepAsideMeta \/ KeepDir \/ KeepMeta \/ AdvanceKept
    \/ OverRollbackSnapshot \/ Supersede \/ EnsurePairing
    \/ InstallBegin \/ InstallEnd \/ MarkLive \/ AdvanceInstalled \/ OnInstalled
    \/ AdvanceHookStarted \/ RunHook \/ AdvanceSwitching
    \/ StartRelease \/ RecordDeploy \/ DiscardPreviousMeta \/ DiscardPreviousDir
    \/ CloseDir \/ CloseMeta \/ CloseRecord
    \/ OpenRollback \/ RestoreBegin \/ RestoreEnd \/ AdvanceDataRestored
    \/ CodeRestored \/ RescueDir \/ RescueMeta \/ RedeployStart

Next == Request \/ Fault \/ CoreStep

Spec == Init /\ [][Next]_vars
=============================================================================
