--------------------------- MODULE InstallSafety ---------------------------
(***************************************************************************)
(* What the install transaction guarantees.  Every invariant holds in each *)
(* state, and so at each point where a crash may leave the files.          *)
(***************************************************************************)
EXTENDS InstallTxn

Pcs == {"idle", "snapshot", "open", "undoDir", "undoMeta", "keepAside", "keepAsideMeta",
        "keepDir", "keepMeta", "kept", "overRollback", "supersede", "pair", "install",
        "installing", "markLive", "installed", "onInstalled", "hook", "runHook",
        "generate", "replace", "record", "discardMeta", "discardDir", "closeDir",
        "closeMeta", "closeRecord", "openRollback", "restore", "restoring", "restored",
        "codeRestored", "rescueDir", "rescueMeta", "redeploy"}

Ops == [ref : OptRef, tree : BOOLEAN, snap : SnapIds,
        then : {"", "keep", "reopen", "close"}, ok : BOOLEAN]

Bases == [code : Trees, live : OptRef, prev : Trees, meta : Metas,
          running : Trees, data : Ids]

\* The types of the files, the record and the core: each field holds what the
\* code can write into it, and counters stay within the run's bounds.
TypeOK ==
    /\ code \in Trees /\ prev \in Trees /\ sup \in Trees /\ running \in Trees
    /\ liveJson \in OptRef /\ recorded \in OptRef
    /\ prevMeta \in Metas /\ supMeta \in Metas
    /\ txn \in Txns
    /\ nextId \in 1 .. MaxTxn + 1
    /\ snaps \in Seq(Ids) /\ Len(snaps) <= MaxSnaps
    /\ data \in Ids
    /\ inbox \subseteq Refs
    /\ pc \in Pcs /\ op \in Ops
    /\ base \in Bases
    /\ tampered \in BOOLEAN

\* No step of an install, and no crash between two of them, makes the next
\* command take the record for stale (release_txn.stale_reason): its files are
\* always as the transaction left them, or as one of its own steps writes them.
NeverStale == ~tampered => ~Stale

\* With no install open the project dir holds one whole release, the one
\* live.json names; nothing superseded is left; a recorded rollback target is a
\* whole release of that name; the deploy state names the release on disk.
ClosedIsClean ==
    txn.id = 0 /\ ~tampered =>
        /\ code.whole /\ liveJson = code.ref
        /\ sup = NoTree /\ supMeta = NoMeta
        /\ prev.whole /\ prevMeta.ref = prev.ref
        /\ recorded \in {None, liveJson}

MayRollBack == txn.id = 0 \/ (~Stale /\ ~Abandoning(txn) /\ DataMayHaveChanged(txn))

\* Whenever `rollback` would run, what it returns to belongs together: the kept
\* release is whole and the one previous.json names, and the snapshot it would
\* restore holds nothing that a newer release wrote (find_rollback_target).
PairingSound ==
    MayRollBack /\ ~tampered /\ prev # NoTree /\ prevMeta # NoMeta =>
        /\ prev.whole /\ prev.ref = prevMeta.ref
        /\ PairedSnap # 0 => /\ PairedSnap <= Len(snaps)
                             /\ snaps[PairedSnap] <= prev.gen

\* Once a hook may have changed the data, an install that replaced a release
\* always has that release, whole, to roll back to, whatever crashed since
\* (options_text offers that rollback in every such state); and a rollback has
\* the release it installs until it records that it has used it.
TargetSurvives ==
    txn.id # 0 /\ ~tampered =>
        /\ txn.source = "bundle" /\ txn.replaced # None /\ DataMayHaveChanged(txn)
           => prev # NoTree /\ prev.whole /\ prev.ref = txn.replaced
        /\ txn.source = "rollback" /\ prevMeta # NoMeta
           => prev # NoTree /\ prev.whole /\ prev.ref = txn.ref

\* Production never runs code that is only partly installed (compose_guard and
\* the phases of deploy_tree).
RunsWholeReleases == running.whole

\* When an abandoned install closes, everything is as its first attempt found
\* it: the code, live.json, the rollback target, and the containers and data.
AbandonRestores ==
    [][ (txn.phase = "abandoned_code" /\ txn'.id = 0 /\ ~tampered)
        => base = [code |-> code', live |-> liveJson', prev |-> prev',
                   meta |-> prevMeta', running |-> running', data |-> data'] ]_vars

\* A rollback that drops its target has put production on that release, running
\* on data that no newer release wrote.
RollbackReturns ==
    [][ (txn.source = "rollback" /\ prevMeta # NoMeta /\ prevMeta' = NoMeta /\ ~tampered')
        => /\ running = prev /\ code = prev /\ liveJson = prev.ref
           /\ data <= prev.gen ]_vars

\* Without a bundle, an install resumes from the project dir only when its code
\* is in place there.
ResumesCodeInPlace ==
    [][ (pc = "install" /\ ~op.tree /\ pc' = "hook") => code.whole ]_vars

\* A rollback that a crash left open can be run again: `rollback` finds the target
\* that is still in previous/ (the docstring of _roll_back_release).
RollbackResumes ==
    txn.source = "rollback" /\ pc = "idle" /\ ~tampered => ENABLED Rollback

\* Deploying the same release again keeps the pairing of the kept release: the
\* snapshot a rollback would restore is still there afterwards.
RedeployKeepsPairing ==
    [][ (pc = "idle" /\ pc' = "redeploy" /\ prevMeta # NoMeta /\ SnapKept(prevMeta.snap))
        => SnapKept(prevMeta.snap)' ]_vars
=============================================================================
