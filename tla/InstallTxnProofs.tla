-------------------------- MODULE InstallTxnProofs --------------------------
(*************************************************************************)
(* What is proved of the install transaction for every set of refs,      *)
(* every retention and every bound, and for a kill between any two       *)
(* writes: the types, that the record is never taken for stale           *)
(* (NeverStale), that no open install means a clean project dir, that    *)
(* the rollback target survives, that only whole releases run, that an   *)
(* abandon restores what was found, that a deploy without a bundle       *)
(* resumes from whole code; then, of the data and the snapshots, that    *)
(* what a rollback returns to belongs together (PairingSound) and that   *)
(* it puts the target's data back (RollbackReturns); and that the        *)
(* install cores implement InstallSpec.                                  *)
(*                                                                       *)
(* TypeOK is not inductive by itself. A rollback puts back the data of   *)
(* snaps[op.snap], so a step's type depends on that snapshot existing,   *)
(* and whether it does depends on which core is at the step. OpOK adds   *)
(* that.                                                                 *)
(*                                                                       *)
(* NeverStale is not inductive either. Whether previous.json is as       *)
(* expected depends on what the keep, or its undo, has moved aside       *)
(* already, and on which step the core at work has reached: RecordSound  *)
(* says both.                                                            *)
(*                                                                       *)
(* Nor is any property of the files. FilesSound says, between the writes *)
(* too, where each release is: Files for an install in each phase, Steps *)
(* for a core that has got to each step. It holds where no bundle is     *)
(* removed from the inbox under an open install (~InboxCleans; with it   *)
(* the run InstallInboxClean finds the half-installed release that       *)
(* starts), and as long as nothing else has rewritten a release's record *)
(* (~tampered).                                                          *)
(*                                                                       *)
(* Nor are the properties of the data. That a snapshot pairs with the    *)
(* kept release rests on the data as it was when the snapshot was taken, *)
(* and so on which release could have written it by then; a rollback     *)
(* that is superseded hands its target on with a snapshot of its own.    *)
(* DataFiles says what each phase of the record means for the data and   *)
(* for the snapshots, DataSteps what the core at work relies on between  *)
(* two writes, and Opened that the ids compared belong to transactions   *)
(* opened before. They build on FilesSound.                              *)
(*                                                                       *)
(* The lemmas before TypeStep keep the record sets (Txns, Ops, Metas)    *)
(* opaque to the provers: each says what one operator returns. TypeStep  *)
(* and RecordStep take the actions of Next one by one.                   *)
(*************************************************************************)
EXTENDS InstallSafety, InstallRefinement, TLAPS

\* What the core in memory may hold at each step: only a deploy or an abandon
\* (op.then # "") undoes and keeps, and a rollback that goes on to the restore
\* has a snapshot that was taken (required_snapshot, find_rollback_target).
OpOK ==
    /\ op.then # "" /\ pc \notin {"idle", "snapshot", "open", "overRollback", "supersede"}
       => txn.source = "bundle"
    /\ pc \in {"idle", "openRollback", "restore", "restoring"} => op.then = ""
    /\ pc \in {"snapshot", "open", "keepAside", "keepAsideMeta", "keepDir", "keepMeta",
               "kept", "pair", "supersede", "overRollback"} => op.then # ""
    /\ (/\ pc \in {"openRollback", "install", "installing", "markLive", "installed",
                   "restore", "restoring"}
        /\ op.then = "")
       => op.snap \in 1 .. Len(snaps)

\* The absent files and records (None in the Python code) are values of their types.
LEMMA Blanks ==
    /\ NoTree \in Trees /\ Mixed \in Trees /\ Bare \in Trees
    /\ NoMeta \in Metas /\ NoTxn \in Txns /\ NoOp \in Ops
    /\ None \in OptRef /\ 0 \in Ids /\ 0 \in SnapIds /\ Refs \subseteq OptRef
<1>1. NoTree \in Trees /\ Mixed \in Trees /\ Bare \in Trees
  BY MaxAssumption DEF NoTree, Mixed, Bare, Trees, OptRef, Ids
<1>2. NoMeta \in Metas /\ NoOp \in Ops
  BY MaxAssumption DEF NoMeta, Metas, NoOp, Ops, OptRef, Ids, SnapIds
<1>3. NoTxn \in Txns
  BY <1>2, MaxAssumption DEF NoTxn, Txns, Phases, OptRef, Ids, SnapIds
<1>4. QED
  BY <1>1, <1>2, <1>3, MaxAssumption DEF OptRef, Ids, SnapIds

\* The fields of the blank values that the steps read.
LEMMA BlankFields ==
    NoTxn.source = "bundle" /\ NoTxn.id = 0 /\ NoOp.then = "" /\ NoBase \in Bases
<1>1. NoBase \in Bases
  BY Blanks DEF NoBase, Bases
<1>2. QED
  BY <1>1 DEF NoTxn, NoOp

\* A release tree names a release and the transaction that unpacked it.
LEMMA TreeFields == ASSUME NEW t \in Trees PROVE t.ref \in OptRef /\ t.gen \in Ids
  BY DEF Trees

\* A whole release has a manifest (validate_release_tree).
LEMMA WholeRelease == ASSUME NEW t \in Trees, t.whole PROVE t.manifest \/ t = NoTree
  BY DEF Trees

\* What install_release unpacks is a release tree.
LEMMA NewTree ==
    ASSUME NEW r \in OptRef, NEW g \in Ids
    PROVE  [ref |-> r, gen |-> g, whole |-> TRUE, manifest |-> TRUE] \in Trees
  BY DEF Trees

\* previous.json names a release and a snapshot (PreviousRelease).
LEMMA MetaFields == ASSUME NEW m \in Metas PROVE m.ref \in OptRef /\ m.snap \in SnapIds
  BY DEF Metas

\* The fields of install.json (InstallTxn), and previous.json as its keep writes
\* it (kept_previous_text).
LEMMA TxnFields ==
    ASSUME NEW t \in Txns
    PROVE  /\ t.id \in Ids /\ t.source \in {"bundle", "rollback"}
           /\ t.ref \in OptRef /\ t.replaced \in OptRef /\ t.snap \in SnapIds
           /\ t.phase \in Phases /\ t.before \in Metas /\ t.had \in BOOLEAN
           /\ KeptMeta(t) \in Metas
  BY DEF Txns, KeptMeta, Metas

\* What a superseding transaction inherits is a phase or nothing (_touched_by).
LEMMA TouchedType ==
    ASSUME NEW t \in Txns
    PROVE  TouchedBy(t) \in {"", "hook_started", "switching"}
  BY DEF TouchedBy

\* advance and mark_abandon change the phase and keep whose transaction it is.
LEMMA AdvanceType ==
    ASSUME txn \in Txns, liveJson \in OptRef, prevMeta \in Metas, NEW phase \in Phases,
           AdvanceTo(phase)
    PROVE  txn' \in Txns /\ txn'.source = txn.source /\ txn'.id = txn.id
  BY DEF Txns, AdvanceTo

\* What a core keeps in memory, field by field.
LEMMA OpFields ==
    ASSUME NEW o \in Ops
    PROVE  /\ o.ref \in OptRef /\ o.tree \in BOOLEAN /\ o.snap \in SnapIds
           /\ o.then \in {"", "keep", "reopen", "close"}
  BY DEF Ops

\* A core that notes its snapshot keeps the rest of what it knows (_open).
LEMMA OpSnap ==
    ASSUME NEW o \in Ops, NEW s \in SnapIds
    PROVE  /\ [o EXCEPT !.snap = s] \in Ops
           /\ [o EXCEPT !.snap = s].then = o.then
           /\ [o EXCEPT !.snap = s].snap = s
  BY DEF Ops

\* A core that notes the start's result keeps the rest (switch_and_close).
LEMMA OpOk ==
    ASSUME NEW o \in Ops, NEW b \in BOOLEAN
    PROVE  /\ [o EXCEPT !.ok = b] \in Ops
           /\ [o EXCEPT !.ok = b].then = o.then
           /\ [o EXCEPT !.ok = b].snap = o.snap
  BY DEF Ops

\* A core that notes what follows the undo keeps the rest (_keep, _fix_forward).
LEMMA OpThen ==
    ASSUME NEW o \in Ops, NEW s \in {"", "keep", "reopen", "close"}
    PROVE  /\ [o EXCEPT !.then = s] \in Ops
           /\ [o EXCEPT !.then = s].then = s
           /\ [o EXCEPT !.then = s].snap = o.snap
  BY DEF Ops

\* A release that writes the data leaves it marked by a transaction.
LEMMA Writes == ASSUME data \in Ids, NEW t \in Trees PROVE WrittenBy(t) \in Ids
  BY DEF WrittenBy, Trees

\* ensure_kept_pairing leaves a previous.json that the keep could have written.
LEMMA Paired == ASSUME prevMeta \in Metas, NEW t \in Txns PROVE PairedMeta(t) \in Metas
  BY TxnFields DEF PairedMeta

\* A pre-deploy snapshot is numbered within the bound, or is none at all
\* (take_pre_deploy_snapshot).
LEMMA Snapshot ==
    ASSUME TypeOK, TakeSnapshot
    PROVE  /\ snaps' \in Seq(Ids) /\ Len(snaps') <= MaxSnaps
           /\ op' \in Ops /\ op'.then = op.then
<1>1. CASE /\ Len(snaps) < MaxSnaps
           /\ snaps' = Append(snaps, data) /\ op' = [op EXCEPT !.snap = Len(snaps) + 1]
  <2>1. snaps' \in Seq(Ids) /\ Len(snaps') = Len(snaps) + 1
    BY <1>1 DEF TypeOK
  <2>2. Len(snaps) + 1 \in SnapIds
    BY <1>1, MaxAssumption DEF TypeOK, SnapIds
  <2>3. QED
    BY <1>1, <2>1, <2>2, OpSnap, MaxAssumption DEF TypeOK
<1>2. CASE UNCHANGED snaps /\ op' = [op EXCEPT !.snap = 0]
  <2>1. 0 \in SnapIds
    BY MaxAssumption DEF SnapIds
  <2>2. QED
    BY <1>2, <2>1, OpSnap DEF TypeOK
<1>3. QED
  BY <1>1, <1>2 DEF TakeSnapshot

\* The transaction ids stay within the bound plus one.
LEMMA NextNumber ==
    ASSUME NEW m \in Nat, NEW n \in 1 .. m + 1, n <= m
    PROVE  n \in 0 .. m /\ n + 1 \in 1 .. m + 1
  OBVIOUS

\* A record that open_txn or supersede_txn writes is a transaction (_new).
LEMMA NewTxnType ==
    ASSUME TypeOK,
           NEW source \in {"bundle", "rollback"}, NEW ref \in OptRef, NEW replaced \in OptRef,
           NEW phase \in Phases, NEW before \in Metas, NEW had \in BOOLEAN,
           NEW touched \in {"", "hook_started", "switching"},
           NewTxn(source, ref, replaced, phase, before, had, touched)
    PROVE  txn' \in Txns /\ txn'.source = source /\ nextId' \in 1 .. MaxTxn + 1
<1>1. nextId \in Ids /\ nextId' \in 1 .. MaxTxn + 1
  <2>1. nextId \in 1 .. MaxTxn + 1 /\ nextId <= MaxTxn /\ nextId' = nextId + 1
    BY DEF TypeOK, NewTxn
  <2>2. MaxTxn \in Nat
    BY MaxAssumption
  <2>3. QED
    BY <2>1, <2>2, NextNumber DEF Ids
<1>2. op.snap \in SnapIds
  BY OpFields DEF TypeOK
<1>3. QED
  BY <1>1, <1>2 DEF TypeOK, NewTxn, Txns

\* open_txn writes a transaction and notes what it found.
LEMMA OpenNewType ==
    ASSUME TypeOK,
           NEW source \in {"bundle", "rollback"}, NEW ref \in OptRef, NEW replaced \in OptRef,
           OpenNew(source, ref, replaced)
    PROVE  /\ txn' \in Txns /\ txn'.source = source
           /\ nextId' \in 1 .. MaxTxn + 1 /\ base' \in Bases
<1>1. base' \in Bases
  BY DEF TypeOK, OpenNew, Bases
<1>2. QED
  BY <1>1, NewTxnType DEF OpenNew, Phases, TypeOK

\* supersede_txn writes a transaction that carries over what the first keep found.
LEMMA SupersedeType ==
    ASSUME TypeOK,
           NEW source \in {"bundle", "rollback"}, NEW ref \in OptRef, NEW replaced \in OptRef,
           NEW phase \in Phases, SupersedeBy(source, ref, replaced, phase)
    PROVE  /\ txn' \in Txns /\ txn'.source = source
           /\ nextId' \in 1 .. MaxTxn + 1 /\ base' \in Bases
<1>1. txn \in Txns /\ base' \in Bases
  BY DEF SupersedeBy, TypeOK
<1>2. txn.before \in Metas /\ txn.had \in BOOLEAN
  BY <1>1, TxnFields
<1>3. TouchedBy(txn) \in {"", "hook_started", "switching"}
  BY <1>1, TouchedType
<1>4. NewTxn(source, ref, replaced, phase, txn.before, txn.had, TouchedBy(txn))
  BY DEF SupersedeBy
<1>5. \A before \in Metas, had \in BOOLEAN, touched \in {"", "hook_started", "switching"} :
        NewTxn(source, ref, replaced, phase, before, had, touched)
        => txn' \in Txns /\ txn'.source = source /\ nextId' \in 1 .. MaxTxn + 1
  BY NewTxnType
<1>6. QED
  BY <1>1, <1>2, <1>3, <1>4, <1>5

\* Every write of a core, every crash and everything around the cores keeps the
\* types (all of release_txn.py's callers).
LEMMA TypeStep == TypeOK /\ OpOK /\ [Next]_vars => (TypeOK /\ OpOK)'
<1> SUFFICES ASSUME TypeOK, OpOK, [Next]_vars PROVE (TypeOK /\ OpOK)'
  OBVIOUS
<1> USE DEF Goto, Done, disk, log, world
<1>1. CASE Crash
  <2>1. TypeOK'
    BY <1>1, Blanks DEF Crash, TypeOK, Pcs
  <2>2. OpOK'
    BY <1>1, BlankFields DEF Crash, OpOK, TypeOK
  <2>3. QED
    BY <2>1, <2>2
<1>2. CASE PreDeploySnapshot
  <2>1. TypeOK'
    <3>1. snaps' \in Seq(Ids) /\ Len(snaps') <= MaxSnaps /\ op' \in Ops
      <4>1. CASE Deployed
        BY <1>2, <4>1, Snapshot DEF PreDeploySnapshot
      <4>2. CASE ~Deployed
        BY <1>2, <4>2, Blanks, OpSnap DEF PreDeploySnapshot, TypeOK
      <4>3. QED
        BY <4>1, <4>2
    <3>2. QED
      BY <1>2, <3>1 DEF PreDeploySnapshot, TypeOK, Pcs
  <2>2. OpOK'
    <3>1. op'.then = op.then /\ op.then # ""
      <4>1. CASE Deployed
        BY <1>2, <4>1, Snapshot DEF PreDeploySnapshot, OpOK
      <4>2. CASE ~Deployed
        <5>1. op \in Ops /\ 0 \in SnapIds /\ op.then # ""
          BY <1>2, Blanks DEF PreDeploySnapshot, OpOK, TypeOK
        <5>2. op' = [op EXCEPT !.snap = 0]
          BY <1>2, <4>2 DEF PreDeploySnapshot
        <5>3. QED
          BY <5>1, <5>2, OpSnap
      <4>3. QED
        BY <4>1, <4>2
    <3>2. QED
      BY <1>2, <3>1 DEF PreDeploySnapshot, OpOK
  <2>3. QED
    BY <2>1, <2>2
<1>3. CASE OpenTxn
  <2>1. TypeOK'
    BY <1>3, Blanks, OpFields, OpenNewType, OpThen DEF OpenTxn, TypeOK, Pcs
  <2>2. OpOK'
    BY <1>3, Blanks, OpFields, OpenNewType, OpThen DEF OpenTxn, OpOK, TypeOK
  <2>3. QED
    BY <2>1, <2>2
<1>4. CASE UndoDropPrev
  <2>1. TypeOK'
    BY <1>4, Blanks DEF UndoDropPrev, TypeOK, Pcs
  <2>2. OpOK'
    BY <1>4 DEF UndoDropPrev, OpOK, TypeOK
  <2>3. QED
    BY <2>1, <2>2
<1>5. CASE UndoDir
  <2>1. TypeOK'
    BY <1>5 DEF UndoDir, TypeOK, Pcs
  <2>2. OpOK'
    BY <1>5 DEF UndoDir, OpOK, TypeOK
  <2>3. QED
    BY <2>1, <2>2
<1>6. CASE UndoDropMeta
  <2>1. TypeOK'
    BY <1>6, Blanks DEF UndoDropMeta, TypeOK, Pcs
  <2>2. OpOK'
    BY <1>6 DEF UndoDropMeta, OpOK, TypeOK
  <2>3. QED
    BY <2>1, <2>2
<1>7. CASE UndoMeta
  <2>1. TypeOK'
    BY <1>7 DEF UndoMeta, AfterUndo, TypeOK, Pcs
  <2>2. OpOK'
    BY <1>7 DEF UndoMeta, AfterUndo, OpOK, TypeOK
  <2>3. QED
    BY <2>1, <2>2
<1>8. CASE KeepAside
  <2>1. TypeOK'
    BY <1>8 DEF KeepAside, TypeOK, Pcs
  <2>2. OpOK'
    BY <1>8 DEF KeepAside, OpOK, TypeOK
  <2>3. QED
    BY <2>1, <2>2
<1>9. CASE KeepAsideMeta
  <2>1. TypeOK'
    BY <1>9, Blanks DEF KeepAsideMeta, TypeOK, Pcs
  <2>2. OpOK'
    BY <1>9 DEF KeepAsideMeta, OpOK, TypeOK
  <2>3. QED
    BY <2>1, <2>2
<1>10. CASE KeepDir
  <2>1. TypeOK'
    BY <1>10 DEF KeepDir, TypeOK, Pcs
  <2>2. OpOK'
    BY <1>10 DEF KeepDir, OpOK, TypeOK
  <2>3. QED
    BY <2>1, <2>2
<1>11. CASE KeepMeta
  <2>1. TypeOK'
    BY <1>11, TxnFields DEF KeepMeta, TypeOK, Pcs
  <2>2. OpOK'
    BY <1>11 DEF KeepMeta, OpOK, TypeOK
  <2>3. QED
    BY <2>1, <2>2
<1>12. CASE KeepFails
  <2>1. TypeOK'
    BY <1>12, OpThen DEF KeepFails, TypeOK, Pcs
  <2>2. OpOK'
    BY <1>12, OpThen DEF KeepFails, OpOK, TypeOK
  <2>3. QED
    BY <2>1, <2>2
<1>13. CASE AdvanceKept
  <2>1. TypeOK'
    BY <1>13, AdvanceType DEF AdvanceKept, Phases, TypeOK, Pcs
  <2>2. OpOK'
    BY <1>13, AdvanceType DEF AdvanceKept, Phases, OpOK, TypeOK
  <2>3. QED
    BY <2>1, <2>2
<1>14. CASE OverRollbackSnapshot
  <2>1. TypeOK'
    BY <1>14, Snapshot, OpSnap DEF OverRollbackSnapshot, TypeOK, Pcs
  <2>2. OpOK'
    BY <1>14, Snapshot, OpSnap DEF OverRollbackSnapshot, OpOK, TypeOK
  <2>3. QED
    BY <2>1, <2>2
<1>15. CASE Supersede
  <2>1. TypeOK'
    BY <1>15, OpFields, TxnFields, SupersedeType, MetaFields DEF Supersede, Phases,
       TypeOK, Pcs
  <2>2. OpOK'
    BY <1>15, OpFields, TxnFields, SupersedeType, MetaFields DEF Supersede, Phases, OpOK,
       TypeOK
  <2>3. QED
    BY <2>1, <2>2
<1>16. CASE EnsurePairing
  <2>1. TypeOK'
    BY <1>16, Paired DEF EnsurePairing, TypeOK, Pcs
  <2>2. OpOK'
    BY <1>16, Paired DEF EnsurePairing, OpOK, TypeOK
  <2>3. QED
    BY <2>1, <2>2
<1>17. CASE InstallBegin
  <2>1. TypeOK'
    BY <1>17, Blanks DEF InstallBegin, TypeOK, Pcs
  <2>2. OpOK'
    BY <1>17 DEF InstallBegin, OpOK, TypeOK
  <2>3. QED
    BY <2>1, <2>2
<1>18. CASE InstallEnd
  <2>1. TypeOK'
    BY <1>18, Blanks, TxnFields, NewTree DEF InstallEnd, TreeToInstall, TypeOK, Pcs
  <2>2. OpOK'
    BY <1>18, NewTree DEF InstallEnd, TreeToInstall, OpOK, TypeOK
  <2>3. QED
    BY <2>1, <2>2
<1>19. CASE MarkLive
  <2>1. TypeOK'
    BY <1>19, TxnFields DEF MarkLive, TypeOK, Pcs
  <2>2. OpOK'
    BY <1>19 DEF MarkLive, OpOK, TypeOK
  <2>3. QED
    BY <2>1, <2>2
<1>20. CASE AdvanceInstalled
  <2>1. TypeOK'
    BY <1>20, AdvanceType DEF AdvanceInstalled, Phases, TypeOK, Pcs
  <2>2. OpOK'
    BY <1>20, AdvanceType DEF AdvanceInstalled, Phases, OpOK, TypeOK
  <2>3. QED
    BY <2>1, <2>2
<1>21. CASE OnInstalled
  <2>1. TypeOK'
    BY <1>21, Blanks DEF OnInstalled, TypeOK, Pcs
  <2>2. OpOK'
    BY <1>21, BlankFields DEF OnInstalled, OpOK, TypeOK
  <2>3. QED
    BY <2>1, <2>2
<1>22. CASE AdvanceHookStarted
  <2>1. TypeOK'
    BY <1>22, AdvanceType DEF AdvanceHookStarted, Phases, TypeOK, Pcs
  <2>2. OpOK'
    BY <1>22, AdvanceType DEF AdvanceHookStarted, Phases, OpOK, TypeOK
  <2>3. QED
    BY <2>1, <2>2
<1>23. CASE RunHook
  <2>1. TypeOK'
    BY <1>23, Writes DEF RunHook, TypeOK, Pcs
  <2>2. OpOK'
    BY <1>23, Writes DEF RunHook, OpOK, TypeOK
  <2>3. QED
    BY <2>1, <2>2
<1>24. CASE HookFails
  <2>1. TypeOK'
    BY <1>24, Blanks, Writes DEF HookFails, TypeOK, Pcs
  <2>2. OpOK'
    BY <1>24, BlankFields, Writes DEF HookFails, OpOK, TypeOK
  <2>3. QED
    BY <2>1, <2>2
<1>25. CASE AdvanceSwitching
  <2>1. TypeOK'
    BY <1>25, AdvanceType DEF AdvanceSwitching, Phases, TypeOK, Pcs
  <2>2. OpOK'
    BY <1>25, AdvanceType DEF AdvanceSwitching, Phases, OpOK, TypeOK
  <2>3. QED
    BY <2>1, <2>2
<1>26. CASE StartRelease
  <2>1. TypeOK'
    BY <1>26, Writes, OpOk DEF StartRelease, TypeOK, Pcs
  <2>2. OpOK'
    BY <1>26, Writes, OpOk DEF StartRelease, OpOK, TypeOK
  <2>3. QED
    BY <2>1, <2>2
<1>27. CASE RecordDeploy
  <2>1. TypeOK'
    BY <1>27, TxnFields DEF RecordDeploy, TypeOK, Pcs
  <2>2. OpOK'
    BY <1>27 DEF RecordDeploy, OpOK, TypeOK
  <2>3. QED
    BY <2>1, <2>2
<1>28. CASE DiscardPreviousMeta
  <2>1. TypeOK'
    BY <1>28, Blanks DEF DiscardPreviousMeta, TypeOK, Pcs
  <2>2. OpOK'
    BY <1>28 DEF DiscardPreviousMeta, OpOK, TypeOK
  <2>3. QED
    BY <2>1, <2>2
<1>29. CASE DiscardPreviousDir
  <2>1. TypeOK'
    BY <1>29, Blanks DEF DiscardPreviousDir, TypeOK, Pcs
  <2>2. OpOK'
    BY <1>29 DEF DiscardPreviousDir, OpOK, TypeOK
  <2>3. QED
    BY <2>1, <2>2
<1>30. CASE CloseDir
  <2>1. TypeOK'
    BY <1>30, Blanks DEF CloseDir, TypeOK, Pcs
  <2>2. OpOK'
    BY <1>30 DEF CloseDir, OpOK, TypeOK
  <2>3. QED
    BY <2>1, <2>2
<1>31. CASE CloseMeta
  <2>1. TypeOK'
    BY <1>31, Blanks DEF CloseMeta, TypeOK, Pcs
  <2>2. OpOK'
    BY <1>31 DEF CloseMeta, OpOK, TypeOK
  <2>3. QED
    BY <2>1, <2>2
<1>32. CASE CloseRecord
  <2>1. TypeOK'
    BY <1>32, Blanks, BlankFields DEF CloseRecord, TypeOK, Pcs
  <2>2. OpOK'
    BY <1>32, BlankFields DEF CloseRecord, OpOK, TypeOK
  <2>3. QED
    BY <2>1, <2>2
<1>33. CASE Rollback
  <2>1. CASE RollbackFinished
    BY <1>33, <2>1, Blanks, BlankFields DEF Rollback, TypeOK, OpOK, Pcs
  <2>2. CASE ~RollbackFinished
    <3> DEFINE o == [NoOp EXCEPT !.ref = prevMeta'.ref, !.tree = TRUE, !.snap = PairedSnap]
    <3>1. prevMeta' \in Metas
      BY <1>33, <2>2, Paired DEF Rollback, TypeOK
    <3>2. PairedSnap \in 1 .. Len(snaps)
      BY <1>33, <2>2 DEF Rollback, SnapKept
    <3>3. PairedSnap \in SnapIds
      BY <3>2, MaxAssumption DEF TypeOK, SnapIds
    <3>4. o \in Ops /\ o.then = "" /\ o.snap = PairedSnap
      BY <3>1, <3>3, Blanks, BlankFields, MetaFields DEF Ops
    <3>5. op' = o /\ pc' = RollbackStep
      BY <1>33, <2>2 DEF Rollback
    <3> HIDE DEF o
    <3>6. RollbackStep \in {"openRollback", "install", "restore", "hook", "generate"}
      BY DEF RollbackStep
    <3>7. TypeOK'
      BY <1>33, <3>1, <3>4, <3>5, <3>6 DEF Rollback, TypeOK, Pcs
    <3>8. OpOK'
      BY <1>33, <3>2, <3>4, <3>5, <3>6 DEF Rollback, OpOK
    <3>9. QED
      BY <3>7, <3>8
  <2>3. QED
    BY <2>1, <2>2
<1>34. CASE OpenRollback
  <2>1. TypeOK'
    BY <1>34, OpFields, TxnFields, OpenNewType, SupersedeType DEF OpenRollback, Phases,
       TypeOK, Pcs
  <2>2. OpOK'
    BY <1>34, OpenNewType, SupersedeType DEF OpenRollback, Phases, OpOK, TypeOK
  <2>3. QED
    BY <2>1, <2>2
<1>35. CASE RestoreBegin
  <2>1. TypeOK'
    BY <1>35, Blanks, TxnFields DEF RestoreBegin, TypeOK, Pcs
  <2>2. OpOK'
    BY <1>35 DEF RestoreBegin, OpOK, TypeOK
  <2>3. QED
    BY <2>1, <2>2
<1>36. CASE RestoreEnd
  <2>1. TypeOK'
    <3>1. op.snap \in 1 .. Len(snaps) /\ snaps \in Seq(Ids)
      BY <1>36 DEF RestoreEnd, OpOK, TypeOK
    <3>2. snaps[op.snap] \in Ids
      BY <3>1
    <3>3. data' \in Ids
      BY <1>36, <3>2, TreeFields DEF RestoreEnd, TypeOK
    <3>4. QED
      BY <1>36, <3>3 DEF RestoreEnd, TypeOK, Pcs
  <2>2. OpOK'
    BY <1>36 DEF RestoreEnd, OpOK, TypeOK
  <2>3. QED
    BY <2>1, <2>2
<1>37. CASE RestoreFails
  <2>1. TypeOK'
    BY <1>37, Blanks DEF RestoreFails, TypeOK, Pcs
  <2>2. OpOK'
    BY <1>37, BlankFields DEF RestoreFails, OpOK, TypeOK
  <2>3. QED
    BY <2>1, <2>2
<1>38. CASE AdvanceDataRestored
  <2>1. TypeOK'
    BY <1>38, AdvanceType DEF AdvanceDataRestored, Phases, TypeOK, Pcs
  <2>2. OpOK'
    BY <1>38, AdvanceType DEF AdvanceDataRestored, Phases, OpOK, TypeOK
  <2>3. QED
    BY <2>1, <2>2
<1>39. CASE Abandon
  <2> DEFINE o == [NoOp EXCEPT !.tree = TRUE, !.then = "close"]
  <2>1. o \in Ops /\ o.then = "close"
    BY Blanks DEF Ops
  <2>2. op' = o
    BY <1>39 DEF Abandon
  <2> HIDE DEF o
  <2>3. txn' \in Txns /\ txn'.source = txn.source
    BY <1>39, AdvanceType DEF Abandon, TypeOK, Phases
  <2>4. txn.source = "bundle"
    BY <1>39, TxnFields DEF Abandon, DataMayHaveChanged, TypeOK
  <2>5. pc' \in {"install", "codeRestored", "undoDir"}
    BY <1>39 DEF Abandon
  <2>6. TypeOK'
    BY <1>39, <2>1, <2>2, <2>3, <2>5 DEF Abandon, TypeOK, Pcs
  <2>7. OpOK'
    BY <1>39, <2>1, <2>2, <2>3, <2>4, <2>5 DEF Abandon, OpOK
  <2>8. QED
    BY <2>6, <2>7
<1>40. CASE CodeRestored
  <2>1. TypeOK'
    BY <1>40, AdvanceType DEF CodeRestored, Phases, TypeOK, Pcs
  <2>2. OpOK'
    BY <1>40, AdvanceType DEF CodeRestored, Phases, OpOK, TypeOK
  <2>3. QED
    BY <2>1, <2>2
<1>41. CASE Drop
  <2>1. TypeOK'
    BY <1>41 DEF Drop, TypeOK, Pcs
  <2>2. OpOK'
    BY <1>41 DEF Drop, OpOK, TypeOK
  <2>3. QED
    BY <2>1, <2>2
<1>42. CASE RescueDir
  <2>1. TypeOK'
    BY <1>42 DEF RescueDir, TypeOK, Pcs
  <2>2. OpOK'
    BY <1>42 DEF RescueDir, OpOK, TypeOK
  <2>3. QED
    BY <2>1, <2>2
<1>43. CASE RescueMeta
  <2>1. TypeOK'
    BY <1>43 DEF RescueMeta, TypeOK, Pcs
  <2>2. OpOK'
    BY <1>43 DEF RescueMeta, OpOK, TypeOK
  <2>3. QED
    BY <2>1, <2>2
<1>44. CASE RedeploySnapshot
  <2>1. TypeOK'
    BY <1>44, Snapshot, OpSnap DEF RedeploySnapshot, TypeOK, Pcs
  <2>2. OpOK'
    BY <1>44, Snapshot, OpSnap DEF RedeploySnapshot, OpOK, TypeOK
  <2>3. QED
    BY <2>1, <2>2
<1>45. CASE RedeployStart
  <2>1. TypeOK'
    BY <1>45, Blanks, Writes DEF RedeployStart, TypeOK, Pcs
  <2>2. OpOK'
    BY <1>45, BlankFields, Writes DEF RedeployStart, OpOK, TypeOK
  <2>3. QED
    BY <2>1, <2>2
<1>46. CASE OtherStart
  <2>1. TypeOK'
    BY <1>46, Writes DEF OtherStart, TypeOK, Pcs
  <2>2. OpOK'
    BY <1>46, Writes DEF OtherStart, OpOK, TypeOK
  <2>3. QED
    BY <2>1, <2>2
<1>47. CASE InboxClean
  <2>1. TypeOK'
    BY <1>47 DEF InboxClean, TypeOK, Pcs
  <2>2. OpOK'
    BY <1>47 DEF InboxClean, OpOK, TypeOK
  <2>3. QED
    BY <2>1, <2>2
<1>48. CASE Tamper
  <2>1. TypeOK'
    BY <1>48, Blanks DEF Tamper, TypeOK, Pcs
  <2>2. OpOK'
    BY <1>48 DEF Tamper, OpOK, TypeOK
  <2>3. QED
    BY <2>1, <2>2
<1>49. ASSUME NEW r \in Refs, Deploy(r) PROVE (TypeOK /\ OpOK)'
  <2> DEFINE o == [NoOp EXCEPT !.ref = r, !.tree = (r \in inbox), !.snap = txn.snap,
                           !.then = IF DeployStep(r) = "undoDir" /\ txn.ref # r
                                    THEN "reopen" ELSE "keep"]
  <2>1. o \in Ops /\ o.then # ""
    <3>1. r \in OptRef /\ (r \in inbox) \in BOOLEAN /\ txn.snap \in SnapIds
      BY Blanks, TxnFields DEF TypeOK
    <3>2. QED
      BY <3>1, Blanks DEF Ops
  <2>2. op' = o /\ pc' = DeployStep(r)
    BY <1>49 DEF Deploy
  <2> HIDE DEF o
  <2>3. prevMeta' \in Metas
    BY <1>49, Paired DEF Deploy, TypeOK
  <2>4. pc' \in {"snapshot", "kept", "undoDir", "generate", "install", "overRollback", "supersede"}
    BY <2>2 DEF DeployStep, FixForwardStep
  <2>5. pc' \notin {"snapshot", "overRollback", "supersede"} => txn.source = "bundle"
    BY <2>2, BlankFields, TxnFields DEF DeployStep, FixForwardStep, TypeOK
  <2>6. TypeOK'
    BY <1>49, <2>1, <2>2, <2>3, <2>4 DEF Deploy, TypeOK, Pcs
  <2>7. OpOK'
    BY <1>49, <2>1, <2>2, <2>4, <2>5 DEF Deploy, OpOK
  <2>8. QED
    BY <2>6, <2>7
<1>50. ASSUME NEW r \in Refs, Upload(r) PROVE (TypeOK /\ OpOK)'
  <2>1. TypeOK'
    BY <1>50 DEF Upload, TypeOK, Pcs
  <2>2. OpOK'
    BY <1>50 DEF Upload, OpOK, TypeOK
  <2>3. QED
    BY <2>1, <2>2
<1>51. CASE UNCHANGED vars
  <2>1. TypeOK'
    BY <1>51 DEF vars, TypeOK, Pcs
  <2>2. OpOK'
    BY <1>51 DEF vars, OpOK, TypeOK
  <2>3. QED
    BY <2>1, <2>2
<1>52. QED
  BY <1>1, <1>2, <1>3, <1>4, <1>5, <1>6, <1>7, <1>8, <1>9, <1>10, <1>11, <1>12, <1>13,
     <1>14, <1>15, <1>16, <1>17, <1>18, <1>19, <1>20, <1>21, <1>22, <1>23, <1>24, <1>25,
     <1>26, <1>27, <1>28, <1>29, <1>30, <1>31, <1>32, <1>33, <1>34, <1>35, <1>36, <1>37,
     <1>38, <1>39, <1>40, <1>41, <1>42, <1>43, <1>44, <1>45, <1>46, <1>47, <1>48, <1>49,
     <1>50, <1>51 DEF Next, Request, Fault, CoreStep

\* A new box holds nothing, and no core runs.
LEMMA TypeInit == Init => TypeOK /\ OpOK
<1> SUFFICES ASSUME Init PROVE TypeOK /\ OpOK
  OBVIOUS
<1>1. 1 \in 1 .. MaxTxn + 1
  BY MaxAssumption
<1>2. snaps \in Seq(Ids) /\ Len(snaps) <= MaxSnaps
  BY MaxAssumption DEF Init
<1>3. TypeOK
  BY <1>1, <1>2, Blanks, BlankFields DEF Init, TypeOK, Pcs
<1>4. OpOK
  BY BlankFields DEF Init, OpOK
<1>5. QED
  BY <1>3, <1>4

\* The files, the record and the core hold only what the code can write into
\* them, whatever is installed, rolled back, abandoned or dropped and wherever a
\* core is killed; and a rollback's snapshot exists when it is restored
\* (release_txn.py, deploy_tree.py, rollback.py, install_abandon.py).
THEOREM TypeCorrect == Spec => []TypeOK
<1>1. TypeOK /\ OpOK /\ [Next]_vars => (TypeOK /\ OpOK)'
  BY TypeStep
<1>2. QED
  BY <1>1, TypeInit, PTL DEF Spec

-----------------------------------------------------------------------------
(* The record. *)

Keeping == {"keepAside", "keepAsideMeta", "keepDir", "keepMeta"}
Closing == {"closeDir", "closeMeta", "closeRecord"}
OutsideTxn == {"idle", "snapshot", "open", "openRollback", "redeploy"}

\* Which transaction, in which phase, a core at a step works on.
PhaseSound ==
    /\ txn.id = 0 => txn = NoTxn
    /\ pc \in {"snapshot", "open"} => txn.id = 0
    /\ pc \notin OutsideTxn => txn.id # 0
    /\ pc \in {"undoDir", "undoMeta"} => txn.phase \in {"committed", "abandoned_code"}
    /\ pc \in {"undoDir", "undoMeta"} /\ op.then = "keep" => txn.phase = "committed"
    /\ pc \in Keeping => txn.phase = "committed"
    /\ pc \in {"replace", "record", "discardMeta", "discardDir"} => txn.phase = "switching"
    /\ pc \in {"restore", "restoring", "restored", "discardMeta", "discardDir"}
       => txn.source = "rollback"
    /\ txn.source = "bundle" => txn.phase # "data_restored"
    /\ pc = "pair" => txn.phase = "previous_kept"
    /\ pc = "codeRestored" => op.then = "close"
    /\ pc \in {"install", "installing", "markLive"} /\ Abandoning(txn) => op.then = "close"

\* A bundle's transaction that has not kept anything for good.
Uncommitted == txn.source = "bundle" /\ txn.phase = "committed"

\* live.json and previous.json are what the record expects; what is aside is
\* what the first keep found; and the steps in between know which is where.
RecordSound ==
    /\ supMeta \in {NoMeta, txn.before}
    /\ ~Stale
    /\ txn.id # 0 /\ Uncommitted /\ supMeta = NoMeta /\ txn.before # NoMeta => prevMeta = txn.before
    /\ pc \in {"keepAside", "keepAsideMeta"} => prevMeta = txn.before /\ supMeta = NoMeta
    /\ pc \in {"keepDir", "keepMeta"} => prevMeta = NoMeta /\ supMeta = txn.before
    /\ pc \in Closing => /\ prevMeta \in PrevExpected(txn)
                         /\ Uncommitted => prevMeta = txn.before
    /\ pc = "closeRecord" => supMeta = NoMeta
    /\ pc \notin {"rescueDir", "rescueMeta"}

RecordInv == TypeOK /\ OpOK /\ PhaseSound /\ (~tampered => RecordSound)

-----------------------------------------------------------------------------
(* The record, as the steps write it. *)

\* The record that is not there.
LEMMA NoTxnFields == NoTxn.phase = "committed" /\ NoTxn.before = NoMeta
  BY DEF NoTxn

\* The last phases of the order.
LEMMA LastPhases ==
    ASSUME NEW t \in Txns
    PROVE  /\ Reached(t, "switching") => t.phase = "switching"
           /\ ~Reached(t, "hook_started") => t.phase \notin {"hook_started", "switching"}
  BY DEF Reached, Rank

\* advance, mark_abandon: the phase changes, the files it expects are the ones
\* there, and the rest stays.
LEMMA AdvanceFields ==
    ASSUME txn \in Txns, NEW phase \in Phases, AdvanceTo(phase)
    PROVE  /\ txn'.id = txn.id /\ txn'.source = txn.source /\ txn'.before = txn.before
           /\ txn'.phase = phase
           /\ txn'.expLive = liveJson /\ txn'.expPrev = prevMeta
  BY DEF Txns, AdvanceTo

\* A transaction that is opened, or supersedes another, expects what is there.
LEMMA NewTxnFields ==
    ASSUME TypeOK, NEW source, NEW ref, NEW replaced, NEW phase, NEW before, NEW had, NEW touched,
           NewTxn(source, ref, replaced, phase, before, had, touched)
    PROVE  /\ txn'.id # 0 /\ txn'.source = source /\ txn'.phase = phase /\ txn'.before = before
           /\ txn'.expLive = liveJson /\ txn'.expPrev = prevMeta
  BY DEF NewTxn, TypeOK

\* open_txn's: nothing is aside, and what is there is what an abandon puts back.
LEMMA OpenNewFields ==
    ASSUME TypeOK, NEW source, NEW ref, NEW replaced, OpenNew(source, ref, replaced)
    PROVE  /\ txn'.id # 0 /\ txn'.source = source /\ txn'.phase = "committed"
           /\ txn'.before = prevMeta
           /\ txn'.expLive = liveJson /\ txn'.expPrev = prevMeta
<1>1. NewTxn(source, ref, replaced, "committed", prevMeta, prev # NoTree, "")
  BY DEF OpenNew
<1>2. QED
  BY <1>1, NewTxnFields

\* supersede_txn's: what the first keep found carries over.
LEMMA SupersedeFields ==
    ASSUME TypeOK, NEW source, NEW ref, NEW replaced, NEW phase,
           SupersedeBy(source, ref, replaced, phase)
    PROVE  /\ txn'.id # 0 /\ txn'.source = source /\ txn'.phase = phase
           /\ txn'.before = txn.before
           /\ txn'.expLive = liveJson /\ txn'.expPrev = prevMeta
<1>1. NewTxn(source, ref, replaced, phase, txn.before, txn.had, TouchedBy(txn))
  BY DEF SupersedeBy
<1>2. QED
  BY <1>1, NewTxnFields

\* A record is not stale that expects what is there.
LEMMA FreshRecord ==
    ASSUME txn'.expLive = liveJson, txn'.expPrev = prevMeta,
           UNCHANGED <<liveJson, prevMeta, supMeta>>
    PROVE  ~Stale'
  BY DEF Stale, IsStale, PrevExpected

\* A step that touches neither the record nor what it expects.
LEMMA SameRecord ==
    ASSUME ~Stale, UNCHANGED <<txn, liveJson, prevMeta, supMeta>>
    PROVE  ~Stale' /\ Uncommitted' = Uncommitted /\ PrevExpected(txn)' = PrevExpected(txn)
  BY DEF Stale, IsStale, Uncommitted, PrevExpected, KeptMeta, KeepInProgress

\* ensure_kept_pairing writes what the keep writes, past the keep alone.
LEMMA PairingWrites ==
    PairedMeta(txn) = prevMeta \/ (PairedMeta(txn) = KeptMeta(txn) /\ ~Uncommitted)
  BY DEF PairedMeta, PairsKept, Reached, Rank, Uncommitted

\* and so never makes the record stale.
LEMMA PairingKeepsRecord ==
    ASSUME ~Stale, prevMeta' = PairedMeta(txn), UNCHANGED <<txn, liveJson, supMeta>>
    PROVE  ~Stale'
<1>1. CASE prevMeta' = prevMeta
  BY <1>1, SameRecord
<1>2. CASE prevMeta' = KeptMeta(txn)
  BY <1>2 DEF Stale, IsStale, PrevExpected, KeptMeta
<1>3. QED
  BY <1>1, <1>2, PairingWrites

-----------------------------------------------------------------------------
(* Which transaction a step works on. *)

\* Every step leaves the core where its transaction's phase allows.
LEMMA PhaseStep == TypeOK /\ OpOK /\ PhaseSound /\ [Next]_vars => PhaseSound'
<1> SUFFICES ASSUME TypeOK, OpOK, PhaseSound, [Next]_vars PROVE PhaseSound'
  OBVIOUS
<1> USE DEF Goto, Done, disk, log, world
<1>0. txn \in Txns /\ op \in Ops
  BY DEF TypeOK
<1>1. CASE Crash
  BY <1>0, <1>1
     DEF Crash, PhaseSound, OutsideTxn, Keeping
<1>2. CASE PreDeploySnapshot
  BY <1>0, <1>2, Snapshot
     DEF PreDeploySnapshot, PhaseSound, OutsideTxn, Keeping
<1>3. CASE OpenTxn
  <2>1. txn'.id # 0 /\ txn'.source = "bundle" /\ txn'.phase = "committed"
    BY <1>3, OpenNewFields DEF OpenTxn
  <2>2. op'.then = "keep" /\ pc' \in {"kept", "undoDir"}
    BY <1>0, <1>3, OpThen DEF OpenTxn
  <2>3. QED
    BY <2>1, <2>2 DEF PhaseSound, OutsideTxn, Keeping
<1>4. CASE UndoDropPrev
  BY <1>0, <1>4
     DEF UndoDropPrev, PhaseSound, OutsideTxn, Keeping
<1>5. CASE UndoDir
  BY <1>0, <1>5
     DEF UndoDir, PhaseSound, OutsideTxn, Keeping
<1>6. CASE UndoDropMeta
  BY <1>0, <1>6
     DEF UndoDropMeta, PhaseSound, OutsideTxn, Keeping
<1>7. CASE UndoMeta
  BY <1>0, <1>7
     DEF UndoMeta, PhaseSound, OutsideTxn, Keeping, AfterUndo
<1>8. CASE KeepAside
  BY <1>0, <1>8
     DEF KeepAside, PhaseSound, OutsideTxn, Keeping
<1>9. CASE KeepAsideMeta
  BY <1>0, <1>9
     DEF KeepAsideMeta, PhaseSound, OutsideTxn, Keeping
<1>10. CASE KeepDir
  BY <1>0, <1>10
     DEF KeepDir, PhaseSound, OutsideTxn, Keeping
<1>11. CASE KeepMeta
  BY <1>0, <1>11
     DEF KeepMeta, PhaseSound, OutsideTxn, Keeping
<1>12. CASE KeepFails
  BY <1>0, <1>12, OpThen
     DEF KeepFails, PhaseSound, OutsideTxn, Keeping
<1>13. CASE AdvanceKept
  BY <1>0, <1>13, AdvanceFields
     DEF AdvanceKept, PhaseSound, OutsideTxn, Keeping, Phases, Reached, Rank, Abandoning,
         AbandonPhases
<1>14. CASE OverRollbackSnapshot
  BY <1>0, <1>14, Snapshot
     DEF OverRollbackSnapshot, PhaseSound, OutsideTxn, Keeping
<1>15. CASE Supersede
  BY <1>0, <1>15, NewTxnFields
     DEF Supersede, PhaseSound, OutsideTxn, Keeping, SupersedeBy, Abandoning, AbandonPhases
<1>16. CASE EnsurePairing
  BY <1>0, <1>16 DEF EnsurePairing, PhaseSound, OutsideTxn, Keeping, Abandoning, AbandonPhases
<1>17. CASE InstallBegin
  BY <1>0, <1>17
     DEF InstallBegin, PhaseSound, OutsideTxn, Keeping, Abandoning, AbandonPhases
<1>18. CASE InstallEnd
  BY <1>0, <1>18
     DEF InstallEnd, PhaseSound, OutsideTxn, Keeping
<1>19. CASE MarkLive
  BY <1>0, <1>19
     DEF MarkLive, PhaseSound, OutsideTxn, Keeping, Abandoning, AbandonPhases
<1>20. CASE AdvanceInstalled
  BY <1>0, <1>20, AdvanceFields
     DEF AdvanceInstalled, PhaseSound, OutsideTxn, Keeping, Phases, Reached, Rank, Abandoning,
         AbandonPhases
<1>21. CASE OnInstalled
  BY <1>0, <1>21
     DEF OnInstalled, PhaseSound, OutsideTxn, Keeping
<1>22. CASE AdvanceHookStarted
  BY <1>0, <1>22, AdvanceFields
     DEF AdvanceHookStarted, PhaseSound, OutsideTxn, Keeping, Phases, Reached, Rank, Abandoning,
         AbandonPhases
<1>23. CASE RunHook
  BY <1>0, <1>23
     DEF RunHook, PhaseSound, OutsideTxn, Keeping
<1>24. CASE HookFails
  BY <1>0, <1>24
     DEF HookFails, PhaseSound, OutsideTxn, Keeping
<1>25. CASE AdvanceSwitching
  BY <1>0, <1>25, AdvanceFields
     DEF AdvanceSwitching, PhaseSound, OutsideTxn, Keeping, Phases, Reached, Rank, Abandoning,
         AbandonPhases
<1>26. CASE StartRelease
  BY <1>0, <1>26
     DEF StartRelease, PhaseSound, OutsideTxn, Keeping
<1>27. CASE RecordDeploy
  BY <1>0, <1>27
     DEF RecordDeploy, PhaseSound, OutsideTxn, Keeping
<1>28. CASE DiscardPreviousMeta
  BY <1>0, <1>28
     DEF DiscardPreviousMeta, PhaseSound, OutsideTxn, Keeping
<1>29. CASE DiscardPreviousDir
  BY <1>0, <1>29
     DEF DiscardPreviousDir, PhaseSound, OutsideTxn, Keeping
<1>30. CASE CloseDir
  BY <1>0, <1>30
     DEF CloseDir, PhaseSound, OutsideTxn, Keeping
<1>31. CASE CloseMeta
  BY <1>0, <1>31
     DEF CloseMeta, PhaseSound, OutsideTxn, Keeping
<1>32. CASE CloseRecord
  BY <1>0, <1>32, BlankFields, NoTxnFields, OpFields
     DEF CloseRecord, PhaseSound, OutsideTxn, Keeping, Abandoning, AbandonPhases
<1>33. CASE Rollback
  <2>1. ~Abandoning(txn) /\ UNCHANGED txn
    BY <1>33, NoTxnFields DEF Rollback, PhaseSound, Abandoning, AbandonPhases
  <2>2. CASE RollbackFinished
    <3>1. txn.source = "rollback" /\ txn.phase = "switching" /\ pc' = "discardMeta"
      BY <1>0, <1>33, <2>2, LastPhases DEF Rollback, RollbackFinished
    <3>2. txn.id # 0
      BY <3>1, BlankFields DEF PhaseSound
    <3>3. QED
      BY <2>1, <3>1, <3>2 DEF PhaseSound, OutsideTxn, Keeping
  <2>3. CASE ~RollbackFinished
    <3>1. pc' = RollbackStep
      BY <1>33, <2>3 DEF Rollback
    <3>2. pc' # "openRollback" => txn.source = "rollback" /\ txn.id # 0
      BY <3>1, BlankFields DEF RollbackStep, PhaseSound
    <3>3. pc' \in {"openRollback", "install", "restore", "hook", "generate"}
      BY <3>1 DEF RollbackStep
    <3>4. QED
      BY <2>1, <3>2, <3>3 DEF PhaseSound, OutsideTxn, Keeping, Abandoning
  <2>4. QED
    BY <2>2, <2>3
<1>34. CASE OpenRollback
  <2>1. txn'.id # 0 /\ txn'.source = "rollback" /\ txn'.phase = "committed"
    BY <1>34, OpenNewFields, SupersedeFields DEF OpenRollback
  <2>2. pc' = "install"
    BY <1>34 DEF OpenRollback
  <2>3. QED
    BY <2>1, <2>2 DEF PhaseSound, OutsideTxn, Keeping, Abandoning, AbandonPhases
<1>35. CASE RestoreBegin
  BY <1>0, <1>35
     DEF RestoreBegin, PhaseSound, OutsideTxn, Keeping
<1>36. CASE RestoreEnd
  BY <1>0, <1>36
     DEF RestoreEnd, PhaseSound, OutsideTxn, Keeping
<1>37. CASE RestoreFails
  BY <1>0, <1>37
     DEF RestoreFails, PhaseSound, OutsideTxn, Keeping
<1>38. CASE AdvanceDataRestored
  BY <1>0, <1>38, AdvanceFields
     DEF AdvanceDataRestored, PhaseSound, OutsideTxn, Keeping, Phases, Reached, Rank,
         Abandoning, AbandonPhases
<1>39. CASE Abandon
  <2>1. op'.then = "close"
    BY <1>39, Blanks DEF Abandon, Ops
  <2>2. txn.id # 0 /\ txn.source = "bundle" /\ txn.phase \in Phases
        /\ txn.phase \notin {"hook_started", "switching", "data_restored"}
    BY <1>0, <1>39, TxnFields, LastPhases DEF Abandon, DataMayHaveChanged, PhaseSound
  <2>3. CASE txn.phase \in {"previous_kept", "installed"}
    <3>1. AdvanceTo("abandoning")
      BY <1>39, <2>3 DEF Abandon
    <3>2. txn'.id # 0 /\ txn'.source = "bundle" /\ txn'.phase = "abandoning"
      BY <1>0, <2>2, <3>1, AdvanceFields DEF Phases
    <3>3. pc' = "install"
      BY <1>39, <3>2 DEF Abandon
    <3>4. QED
      BY <2>1, <3>2, <3>3 DEF PhaseSound, OutsideTxn, Keeping
  <2>4. CASE txn.phase \notin {"previous_kept", "installed"}
    <3>1. UNCHANGED txn
      BY <1>39, <2>4 DEF Abandon
    <3>2. /\ pc' \in {"install", "codeRestored", "undoDir"}
          /\ pc' = "undoDir" => txn.phase = "abandoned_code"
      BY <1>39, <2>2, <2>4, <3>1 DEF Abandon, Phases
    <3>3. QED
      BY <2>1, <2>2, <3>1, <3>2 DEF PhaseSound, OutsideTxn, Keeping
  <2>5. QED
    BY <2>3, <2>4
<1>40. CASE CodeRestored
  BY <1>0, <1>40, AdvanceFields
     DEF CodeRestored, PhaseSound, OutsideTxn, Keeping, Phases, Reached, Rank, Abandoning,
         AbandonPhases
<1>41. CASE Drop
  BY <1>0, <1>41
     DEF Drop, PhaseSound, OutsideTxn, Keeping, Stale
<1>42. CASE RescueDir
  BY <1>0, <1>42
     DEF RescueDir, PhaseSound, OutsideTxn, Keeping
<1>43. CASE RescueMeta
  BY <1>0, <1>43
     DEF RescueMeta, PhaseSound, OutsideTxn, Keeping
<1>44. CASE RedeploySnapshot
  BY <1>0, <1>44, Snapshot
     DEF RedeploySnapshot, PhaseSound, OutsideTxn, Keeping
<1>45. CASE RedeployStart
  BY <1>0, <1>45
     DEF RedeployStart, PhaseSound, OutsideTxn, Keeping
<1>46. CASE OtherStart
  BY <1>0, <1>46
     DEF OtherStart, PhaseSound, OutsideTxn, Keeping
<1>47. CASE InboxClean
  BY <1>0, <1>47
     DEF InboxClean, PhaseSound, OutsideTxn, Keeping
<1>48. CASE Tamper
  BY <1>0, <1>48
     DEF Tamper, PhaseSound, OutsideTxn, Keeping
<1>49. ASSUME NEW r \in Refs, Deploy(r) PROVE PhaseSound'
  <2>1. /\ pc' = DeployStep(r) /\ UNCHANGED txn /\ ~Abandoning(txn)
    BY <1>49 DEF Deploy
  <2>2. /\ pc' \in {"snapshot", "kept", "undoDir", "generate", "install", "overRollback",
           "supersede"}
        /\ pc' = "snapshot" <=> txn.id = 0
    BY <2>1 DEF DeployStep, FixForwardStep
  <2>3. pc' = "undoDir" => txn.phase = "committed"
    BY <1>0, <2>1, TxnFields
       DEF DeployStep, FixForwardStep, Reached, Rank, Phases, Abandoning, AbandonPhases
  <2>4. QED
    BY <2>1, <2>2, <2>3 DEF PhaseSound, OutsideTxn, Keeping, Abandoning
<1>50. ASSUME NEW r \in Refs, Upload(r) PROVE PhaseSound'
  BY <1>50 DEF Upload, PhaseSound, OutsideTxn, Keeping
<1>51. CASE UNCHANGED vars
  BY <1>51 DEF vars, PhaseSound, OutsideTxn, Keeping
<1>52. QED
  BY <1>1, <1>2, <1>3, <1>4, <1>5, <1>6, <1>7, <1>8, <1>9, <1>10, <1>11, <1>12, <1>13, <1>14,
     <1>15, <1>16, <1>17, <1>18, <1>19, <1>20, <1>21, <1>22, <1>23, <1>24, <1>25, <1>26, <1>27,
     <1>28, <1>29, <1>30, <1>31, <1>32, <1>33, <1>34, <1>35, <1>36, <1>37, <1>38, <1>39, <1>40,
     <1>41, <1>42, <1>43, <1>44, <1>45, <1>46, <1>47, <1>48, <1>49, <1>50, <1>51
     DEF Next, Request, Fault, CoreStep

-----------------------------------------------------------------------------
(* What the record expects is there. *)

\* What was rewritten by something else stays so.
LEMMA TamperStays == [Next]_vars /\ tampered => tampered'
  BY
     DEF Next, Request, Fault, CoreStep, vars, Crash, PreDeploySnapshot, OpenTxn, UndoDropPrev,
         UndoDir, UndoDropMeta, UndoMeta, KeepAside, KeepAsideMeta, KeepDir, KeepMeta,
         KeepFails, AdvanceKept, OverRollbackSnapshot, Supersede, EnsurePairing, InstallBegin,
         InstallEnd, MarkLive, AdvanceInstalled, OnInstalled, AdvanceHookStarted, RunHook,
         HookFails, AdvanceSwitching, StartRelease, RecordDeploy, DiscardPreviousMeta,
         DiscardPreviousDir, CloseDir, CloseMeta, CloseRecord, Rollback, OpenRollback,
         RestoreBegin, RestoreEnd, RestoreFails, AdvanceDataRestored, Abandon, CodeRestored,
         Drop, RescueDir, RescueMeta, RedeploySnapshot, RedeployStart, OtherStart, InboxClean,
         Tamper, Deploy, Upload

\* Every step, and every kill, leaves the files as the record expects.
LEMMA SoundStep == RecordInv /\ [Next]_vars /\ ~tampered' => RecordSound'
<1> SUFFICES ASSUME RecordInv, [Next]_vars, ~tampered' PROVE RecordSound'
  OBVIOUS
<1> USE DEF Goto, Done, disk, log, world
<1>0. TypeOK /\ OpOK /\ PhaseSound /\ txn \in Txns /\ op \in Ops
  BY DEF RecordInv, TypeOK
<1>a. RecordSound
  BY TamperStays DEF RecordInv
<1>1. CASE Crash
  BY <1>0, <1>a, <1>1, SameRecord
     DEF Crash, RecordSound, Keeping, Closing
<1>2. CASE PreDeploySnapshot
  BY <1>0, <1>a, <1>2, SameRecord
     DEF PreDeploySnapshot, RecordSound, Keeping, Closing
<1>3. CASE OpenTxn
  <2>1. txn.id = 0 /\ supMeta = NoMeta
    BY <1>0, <1>a, <1>3, NoTxnFields DEF OpenTxn, PhaseSound, RecordSound
  <2>2. /\ txn'.before = prevMeta /\ txn'.expLive = liveJson /\ txn'.expPrev = prevMeta
        /\ UNCHANGED <<liveJson, prevMeta, supMeta>> /\ pc' \in {"kept", "undoDir"}
    BY <1>0, <1>3, OpenNewFields DEF OpenTxn
  <2>3. ~Stale'
    BY <2>2, FreshRecord
  <2>4. QED
    BY <2>1, <2>2, <2>3 DEF RecordSound, Keeping, Closing
<1>4. CASE UndoDropPrev
  BY <1>0, <1>a, <1>4, SameRecord
     DEF UndoDropPrev, RecordSound, Keeping, Closing
<1>5. CASE UndoDir
  BY <1>0, <1>a, <1>5, SameRecord
     DEF UndoDir, RecordSound, Keeping, Closing
<1>6. CASE UndoDropMeta
  <2>1. /\ prevMeta' = NoMeta /\ UNCHANGED <<txn, liveJson, supMeta, pc>> /\ pc = "undoMeta"
        /\ supMeta = NoMeta => txn.before = NoMeta
    BY <1>6 DEF UndoDropMeta
  <2>2. /\ supMeta \in {NoMeta, txn.before} /\ ~Stale
        /\ txn.phase \in {"committed", "abandoned_code"}
    BY <1>0, <1>a, <2>1 DEF RecordSound, PhaseSound
  <2>3. ~Stale'
    BY <2>1, <2>2 DEF Stale, IsStale, PrevExpected, KeepInProgress, AbandonPhases
  <2>4. QED
    BY <1>a, <2>1, <2>2, <2>3 DEF RecordSound, Keeping, Closing, Uncommitted
<1>7. CASE UndoMeta
  <2>1. /\ UNCHANGED <<txn, liveJson>> /\ pc = "undoMeta" /\ pc' = AfterUndo /\ UNCHANGED op
        /\ txn.id # 0 /\ supMeta' = NoMeta
    BY <1>0, <1>7 DEF UndoMeta, PhaseSound, OutsideTxn
  <2>2. /\ supMeta \in {NoMeta, txn.before} /\ ~Stale
        /\ Uncommitted /\ supMeta = NoMeta /\ txn.before # NoMeta => prevMeta = txn.before
    BY <1>a, <2>1 DEF RecordSound
  <2>3. prevMeta' \in PrevExpected(txn) /\ (Uncommitted => prevMeta' = txn.before)
    BY <1>7, <2>1, <2>2 DEF UndoMeta, Stale, IsStale, PrevExpected, KeepInProgress
  <2>4. ~Stale' /\ PrevExpected(txn)' = PrevExpected(txn) /\ Uncommitted' = Uncommitted
    BY <2>1, <2>2, <2>3 DEF Stale, IsStale, PrevExpected, KeptMeta, Uncommitted
  <2>5. pc' = "keepAside" \/ pc' = "closeDir"
    BY <2>1 DEF AfterUndo
  <2>6. pc' = "keepAside" => Uncommitted
    <3>1. pc' = "keepAside" => op.then = "keep"
      BY <2>1 DEF AfterUndo
    <3>2. QED
      BY <1>0, <2>1, <3>1 DEF OpOK, PhaseSound, Uncommitted
  <2>7. QED
    BY <2>1, <2>3, <2>4, <2>5, <2>6 DEF RecordSound, Keeping, Closing
<1>8. CASE KeepAside
  BY <1>0, <1>a, <1>8, SameRecord
     DEF KeepAside, RecordSound, Keeping, Closing
<1>9. CASE KeepAsideMeta
  <2>1. /\ prevMeta = txn.before /\ supMeta = NoMeta /\ UNCHANGED <<txn, liveJson>> /\ ~Stale
        /\ pc' = "keepDir" /\ txn.phase = "committed"
    BY <1>0, <1>a, <1>9 DEF KeepAsideMeta, RecordSound, PhaseSound, Keeping
  <2>2. prevMeta' = NoMeta /\ supMeta' = txn.before
    BY <1>9, <2>1 DEF KeepAsideMeta
  <2>3. ~Stale'
    BY <2>1, <2>2 DEF Stale, IsStale, KeepInProgress
  <2>4. QED
    BY <2>1, <2>2, <2>3 DEF RecordSound, Keeping, Closing
<1>10. CASE KeepDir
  BY <1>0, <1>a, <1>10, SameRecord
     DEF KeepDir, RecordSound, Keeping, Closing
<1>11. CASE KeepMeta
  <2>1. /\ supMeta = txn.before /\ prevMeta' = KeptMeta(txn) /\ ~Stale
        /\ UNCHANGED <<txn, liveJson, supMeta>> /\ pc' = "kept"
    BY <1>a, <1>11 DEF KeepMeta, RecordSound
  <2>2. ~Stale'
    BY <2>1 DEF Stale, IsStale, PrevExpected, KeptMeta
  <2>3. QED
    BY <2>1, <2>2 DEF RecordSound, Keeping, Closing
<1>12. CASE KeepFails
  BY <1>0, <1>a, <1>12, SameRecord
     DEF KeepFails, RecordSound, Keeping, Closing
<1>13. CASE AdvanceKept
  <2>1. AdvanceTo("previous_kept") /\ UNCHANGED <<liveJson, prevMeta, supMeta>>
        /\ pc' \notin Keeping \cup Closing
        /\ pc' \notin {"rescueDir", "rescueMeta"}
    BY <1>13 DEF AdvanceKept, Keeping, Closing
  <2>2. txn'.phase = "previous_kept" /\ txn'.before = txn.before
        /\ txn'.expLive = liveJson /\ txn'.expPrev = prevMeta
    BY <1>0, <2>1, AdvanceFields DEF Phases
  <2>3. ~Stale'
    BY <2>1, <2>2, FreshRecord
  <2>4. QED
    BY <1>a, <2>1, <2>2, <2>3 DEF RecordSound, Keeping, Closing, Uncommitted
<1>14. CASE OverRollbackSnapshot
  BY <1>0, <1>a, <1>14, SameRecord
     DEF OverRollbackSnapshot, RecordSound, Keeping, Closing
<1>15. CASE Supersede
  <2>1. /\ txn'.phase = "previous_kept" /\ txn'.before = txn.before
        /\ txn'.expLive = liveJson /\ txn'.expPrev = prevMeta
    BY <1>0, <1>15, SupersedeFields DEF Supersede
  <2>2. UNCHANGED <<liveJson, prevMeta, supMeta>> /\ pc' = "pair"
    BY <1>15 DEF Supersede
  <2>3. ~Stale'
    BY <2>1, <2>2, FreshRecord
  <2>4. QED
    BY <1>a, <2>1, <2>2, <2>3 DEF RecordSound, Keeping, Closing, Uncommitted
<1>16. CASE EnsurePairing
  <2>1. /\ prevMeta' = PairedMeta(txn) /\ UNCHANGED <<txn, liveJson, supMeta>> /\ pc' = "install"
        /\ txn.phase = "previous_kept"
    BY <1>0, <1>16 DEF EnsurePairing, PhaseSound
  <2>2. ~Stale'
    BY <1>a, <2>1, PairingKeepsRecord DEF RecordSound
  <2>3. QED
    BY <1>a, <2>1, <2>2 DEF RecordSound, Keeping, Closing, Uncommitted
<1>17. CASE InstallBegin
  BY <1>0, <1>a, <1>17, SameRecord
     DEF InstallBegin, RecordSound, Keeping, Closing
<1>18. CASE InstallEnd
  BY <1>0, <1>a, <1>18, SameRecord
     DEF InstallEnd, RecordSound, Keeping, Closing
<1>19. CASE MarkLive
  <2>1. /\ liveJson' \in {txn.ref, txn.replaced} /\ UNCHANGED <<txn, prevMeta, supMeta>>
        /\ pc' \in {"codeRestored", "onInstalled", "installed"}
    BY <1>19 DEF MarkLive
  <2>2. ~Stale'
    BY <1>a, <2>1 DEF RecordSound, Stale, IsStale, PrevExpected, KeptMeta, KeepInProgress
  <2>3. QED
    BY <1>a, <2>1, <2>2 DEF RecordSound, Keeping, Closing, Uncommitted
<1>20. CASE AdvanceInstalled
  <2>1. AdvanceTo("installed") /\ UNCHANGED <<liveJson, prevMeta, supMeta>>
        /\ pc' \notin Keeping \cup Closing
        /\ pc' \notin {"rescueDir", "rescueMeta"}
    BY <1>20 DEF AdvanceInstalled, Keeping, Closing
  <2>2. txn'.phase = "installed" /\ txn'.before = txn.before
        /\ txn'.expLive = liveJson /\ txn'.expPrev = prevMeta
    BY <1>0, <2>1, AdvanceFields DEF Phases
  <2>3. ~Stale'
    BY <2>1, <2>2, FreshRecord
  <2>4. QED
    BY <1>a, <2>1, <2>2, <2>3 DEF RecordSound, Keeping, Closing, Uncommitted
<1>21. CASE OnInstalled
  BY <1>0, <1>a, <1>21, SameRecord
     DEF OnInstalled, RecordSound, Keeping, Closing
<1>22. CASE AdvanceHookStarted
  <2>1. /\ UNCHANGED <<liveJson, prevMeta, supMeta>> /\ pc' \notin Keeping \cup Closing
        /\ pc' \notin {"rescueDir", "rescueMeta"}
    BY <1>22 DEF AdvanceHookStarted, Keeping, Closing
  <2>2. CASE AdvanceTo("hook_started")
    <3>1. txn'.phase = "hook_started" /\ txn'.before = txn.before
          /\ txn'.expLive = liveJson /\ txn'.expPrev = prevMeta
      BY <1>0, <2>2, AdvanceFields DEF Phases
    <3>2. ~Stale'
      BY <2>1, <3>1, FreshRecord
    <3>3. QED
      BY <1>a, <2>1, <3>1, <3>2 DEF RecordSound, Keeping, Closing, Uncommitted
  <2>3. CASE UNCHANGED txn
    BY <1>a, <2>1, <2>3, SameRecord DEF RecordSound, Keeping, Closing
  <2>4. QED
    BY <1>22, <2>2, <2>3 DEF AdvanceHookStarted
<1>23. CASE RunHook
  BY <1>0, <1>a, <1>23, SameRecord
     DEF RunHook, RecordSound, Keeping, Closing
<1>24. CASE HookFails
  BY <1>0, <1>a, <1>24, SameRecord
     DEF HookFails, RecordSound, Keeping, Closing
<1>25. CASE AdvanceSwitching
  <2>1. /\ UNCHANGED <<liveJson, prevMeta, supMeta>> /\ pc' \notin Keeping \cup Closing
        /\ pc' \notin {"rescueDir", "rescueMeta"}
    BY <1>25 DEF AdvanceSwitching, Keeping, Closing
  <2>2. CASE AdvanceTo("switching")
    <3>1. txn'.phase = "switching" /\ txn'.before = txn.before
          /\ txn'.expLive = liveJson /\ txn'.expPrev = prevMeta
      BY <1>0, <2>2, AdvanceFields DEF Phases
    <3>2. ~Stale'
      BY <2>1, <3>1, FreshRecord
    <3>3. QED
      BY <1>a, <2>1, <3>1, <3>2 DEF RecordSound, Keeping, Closing, Uncommitted
  <2>3. CASE UNCHANGED txn
    BY <1>a, <2>1, <2>3, SameRecord DEF RecordSound, Keeping, Closing
  <2>4. QED
    BY <1>25, <2>2, <2>3 DEF AdvanceSwitching
<1>26. CASE StartRelease
  BY <1>0, <1>a, <1>26, SameRecord
     DEF StartRelease, RecordSound, Keeping, Closing
<1>27. CASE RecordDeploy
  <2>1. UNCHANGED <<txn, liveJson, prevMeta, supMeta>> /\ pc' \in {"discardMeta", "closeDir"}
        /\ txn.phase = "switching" /\ txn.id # 0
    BY <1>0, <1>27 DEF RecordDeploy, PhaseSound, OutsideTxn
  <2>2. ~Stale' /\ Uncommitted' = Uncommitted /\ PrevExpected(txn)' = PrevExpected(txn)
    BY <1>a, <2>1, SameRecord DEF RecordSound
  <2>3. prevMeta \in PrevExpected(txn) /\ ~Uncommitted
    BY <1>a, <2>1 DEF RecordSound, Stale, IsStale, KeepInProgress, AbandonPhases, Uncommitted
  <2>4. QED
    BY <1>a, <2>1, <2>2, <2>3 DEF RecordSound, Keeping, Closing
<1>28. CASE DiscardPreviousMeta
  <2>1. /\ prevMeta' = NoMeta /\ UNCHANGED <<txn, liveJson, supMeta>> /\ pc' = "discardDir"
        /\ txn.source = "rollback"
    BY <1>0, <1>28 DEF DiscardPreviousMeta, PhaseSound
  <2>2. ~Stale'
    BY <1>a, <2>1 DEF RecordSound, Stale, IsStale, PrevExpected
  <2>3. QED
    BY <1>a, <2>1, <2>2 DEF RecordSound, Keeping, Closing, Uncommitted
<1>29. CASE DiscardPreviousDir
  <2>1. UNCHANGED <<txn, liveJson, prevMeta, supMeta>> /\ pc' = "closeDir"
        /\ txn.phase = "switching" /\ txn.id # 0
    BY <1>0, <1>29 DEF DiscardPreviousDir, PhaseSound, OutsideTxn
  <2>2. ~Stale' /\ Uncommitted' = Uncommitted /\ PrevExpected(txn)' = PrevExpected(txn)
    BY <1>a, <2>1, SameRecord DEF RecordSound
  <2>3. prevMeta \in PrevExpected(txn) /\ ~Uncommitted
    BY <1>a, <2>1 DEF RecordSound, Stale, IsStale, KeepInProgress, AbandonPhases, Uncommitted
  <2>4. QED
    BY <1>a, <2>1, <2>2, <2>3 DEF RecordSound, Keeping, Closing
<1>30. CASE CloseDir
  BY <1>0, <1>a, <1>30, SameRecord
     DEF CloseDir, RecordSound, Keeping, Closing
<1>31. CASE CloseMeta
  <2>1. /\ supMeta' = NoMeta /\ UNCHANGED <<txn, liveJson, prevMeta>> /\ pc' = "closeRecord"
        /\ prevMeta \in PrevExpected(txn) /\ (Uncommitted => prevMeta = txn.before) /\ ~Stale
    BY <1>a, <1>31 DEF CloseMeta, RecordSound, Closing
  <2>2. ~Stale' /\ Uncommitted' = Uncommitted /\ PrevExpected(txn)' = PrevExpected(txn)
    BY <2>1 DEF Stale, IsStale, PrevExpected, KeptMeta, Uncommitted
  <2>3. QED
    BY <2>1, <2>2 DEF RecordSound, Keeping, Closing
<1>32. CASE CloseRecord
  <2>1. txn' = NoTxn /\ UNCHANGED supMeta /\ supMeta = NoMeta /\ pc' \in {"snapshot", "idle"}
    BY <1>a, <1>32 DEF CloseRecord, RecordSound
  <2>2. txn'.id = 0
    BY <2>1, BlankFields
  <2>3. QED
    BY <2>1, <2>2 DEF RecordSound, Keeping, Closing, Stale
<1>33. CASE Rollback
  <2>1. /\ prevMeta' \in {prevMeta, PairedMeta(txn)} /\ UNCHANGED <<txn, liveJson, supMeta>>
        /\ pc' \notin Keeping \cup Closing /\ pc' \notin {"rescueDir", "rescueMeta"}
    BY <1>33 DEF Rollback, RollbackStep, Keeping, Closing
  <2>2. ~Stale'
    BY <1>a, <2>1, SameRecord, PairingKeepsRecord DEF RecordSound
  <2>3. Uncommitted => prevMeta' = prevMeta
    BY <2>1, PairingWrites
  <2>4. QED
    BY <1>a, <2>1, <2>2, <2>3 DEF RecordSound, Keeping, Closing, Uncommitted
<1>34. CASE OpenRollback
  <2>1. /\ UNCHANGED <<liveJson, prevMeta, supMeta>> /\ pc' = "install"
        /\ txn'.source = "rollback" /\ txn'.expLive = liveJson /\ txn'.expPrev = prevMeta
    BY <1>0, <1>34, OpenNewFields, SupersedeFields DEF OpenRollback
  <2>2. supMeta \in {NoMeta, txn'.before}
    <3>1. CASE txn.id = 0
      BY <1>0, <1>a, <3>1, NoTxnFields DEF PhaseSound, RecordSound
    <3>2. CASE txn.id # 0
      BY <1>0, <1>a, <1>34, <3>2, SupersedeFields DEF OpenRollback, RecordSound
    <3>3. QED
      BY <3>1, <3>2
  <2>3. ~Stale'
    BY <2>1, FreshRecord
  <2>4. QED
    BY <2>1, <2>2, <2>3 DEF RecordSound, Keeping, Closing, Uncommitted
<1>35. CASE RestoreBegin
  BY <1>0, <1>a, <1>35, SameRecord
     DEF RestoreBegin, RecordSound, Keeping, Closing
<1>36. CASE RestoreEnd
  BY <1>0, <1>a, <1>36, SameRecord
     DEF RestoreEnd, RecordSound, Keeping, Closing
<1>37. CASE RestoreFails
  BY <1>0, <1>a, <1>37, SameRecord
     DEF RestoreFails, RecordSound, Keeping, Closing
<1>38. CASE AdvanceDataRestored
  <2>1. AdvanceTo("data_restored") /\ UNCHANGED <<liveJson, prevMeta, supMeta>>
        /\ pc' \notin Keeping \cup Closing
        /\ pc' \notin {"rescueDir", "rescueMeta"}
    BY <1>38 DEF AdvanceDataRestored, Keeping, Closing
  <2>2. txn'.phase = "data_restored" /\ txn'.before = txn.before
        /\ txn'.expLive = liveJson /\ txn'.expPrev = prevMeta
    BY <1>0, <2>1, AdvanceFields DEF Phases
  <2>3. ~Stale'
    BY <2>1, <2>2, FreshRecord
  <2>4. QED
    BY <1>a, <2>1, <2>2, <2>3 DEF RecordSound, Keeping, Closing, Uncommitted
<1>39. CASE Abandon
  <2>1. /\ UNCHANGED <<liveJson, prevMeta, supMeta>> /\ pc' \notin Keeping \cup Closing
        /\ pc' \notin {"rescueDir", "rescueMeta"}
    BY <1>39 DEF Abandon, Keeping, Closing
  <2>2. CASE AdvanceTo("abandoning")
    <3>1. txn'.phase = "abandoning" /\ txn'.before = txn.before
          /\ txn'.expLive = liveJson /\ txn'.expPrev = prevMeta
      BY <1>0, <2>2, AdvanceFields DEF Phases
    <3>2. ~Stale'
      BY <2>1, <3>1, FreshRecord
    <3>3. QED
      BY <1>a, <2>1, <3>1, <3>2 DEF RecordSound, Keeping, Closing, Uncommitted
  <2>3. CASE UNCHANGED txn
    BY <1>a, <2>1, <2>3, SameRecord DEF RecordSound, Keeping, Closing
  <2>4. QED
    BY <1>39, <2>2, <2>3 DEF Abandon
<1>40. CASE CodeRestored
  <2>1. AdvanceTo("abandoned_code") /\ UNCHANGED <<liveJson, prevMeta, supMeta>>
        /\ pc' \notin Keeping \cup Closing
        /\ pc' \notin {"rescueDir", "rescueMeta"}
    BY <1>40 DEF CodeRestored, Keeping, Closing
  <2>2. txn'.phase = "abandoned_code" /\ txn'.before = txn.before
        /\ txn'.expLive = liveJson /\ txn'.expPrev = prevMeta
    BY <1>0, <2>1, AdvanceFields DEF Phases
  <2>3. ~Stale'
    BY <2>1, <2>2, FreshRecord
  <2>4. QED
    BY <1>a, <2>1, <2>2, <2>3 DEF RecordSound, Keeping, Closing, Uncommitted
<1>41. CASE Drop
  BY <1>0, <1>a, <1>41, SameRecord
     DEF Drop, RecordSound, Keeping, Closing
<1>42. CASE RescueDir
  BY <1>0, <1>a, <1>42, SameRecord
     DEF RescueDir, RecordSound, Keeping, Closing
<1>43. CASE RescueMeta
  BY <1>0, <1>a, <1>43
     DEF RescueMeta, RecordSound, Keeping, Closing
<1>44. CASE RedeploySnapshot
  BY <1>0, <1>a, <1>44, SameRecord
     DEF RedeploySnapshot, RecordSound, Keeping, Closing
<1>45. CASE RedeployStart
  BY <1>0, <1>a, <1>45, SameRecord
     DEF RedeployStart, RecordSound, Keeping, Closing
<1>46. CASE OtherStart
  BY <1>0, <1>a, <1>46, SameRecord
     DEF OtherStart, RecordSound, Keeping, Closing
<1>47. CASE InboxClean
  BY <1>0, <1>a, <1>47, SameRecord
     DEF InboxClean, RecordSound, Keeping, Closing
<1>48. CASE Tamper
  BY <1>0, <1>a, <1>48
     DEF Tamper, RecordSound, Keeping, Closing
<1>49. ASSUME NEW r \in Refs, Deploy(r) PROVE RecordSound'
  <2>1. /\ prevMeta' = PairedMeta(txn) /\ UNCHANGED <<txn, liveJson, supMeta>>
        /\ pc' \notin Keeping \cup Closing /\ pc' \notin {"rescueDir", "rescueMeta"}
    BY <1>49 DEF Deploy, DeployStep, FixForwardStep, Keeping, Closing
  <2>2. ~Stale'
    BY <1>a, <2>1, PairingKeepsRecord DEF RecordSound
  <2>3. Uncommitted => prevMeta' = prevMeta
    BY <2>1, PairingWrites
  <2>4. QED
    BY <1>a, <2>1, <2>2, <2>3 DEF RecordSound, Keeping, Closing, Uncommitted
<1>50. ASSUME NEW r \in Refs, Upload(r) PROVE RecordSound'
  BY <1>a, <1>50, SameRecord DEF Upload, RecordSound, Keeping, Closing
<1>51. CASE UNCHANGED vars
  BY <1>a, <1>51, SameRecord DEF vars, RecordSound, Keeping, Closing
<1>52. QED
  BY <1>1, <1>2, <1>3, <1>4, <1>5, <1>6, <1>7, <1>8, <1>9, <1>10, <1>11, <1>12, <1>13, <1>14,
     <1>15, <1>16, <1>17, <1>18, <1>19, <1>20, <1>21, <1>22, <1>23, <1>24, <1>25, <1>26, <1>27,
     <1>28, <1>29, <1>30, <1>31, <1>32, <1>33, <1>34, <1>35, <1>36, <1>37, <1>38, <1>39, <1>40,
     <1>41, <1>42, <1>43, <1>44, <1>45, <1>46, <1>47, <1>48, <1>49, <1>50, <1>51
     DEF Next, Request, Fault, CoreStep

\* Nothing is open, and nothing aside, on a new box.
LEMMA RecordInit == Init => PhaseSound /\ RecordSound
  BY BlankFields, NoTxnFields
     DEF Init, PhaseSound, RecordSound, OutsideTxn, Keeping, Closing, Abandoning, AbandonPhases,
         Stale

\* The invariant holds of every state of every run.
LEMMA RecordAlways == Spec => []RecordInv
<1>1. Init => RecordInv
  BY TypeInit, RecordInit DEF RecordInv
<1>2. RecordInv /\ [Next]_vars => RecordInv'
  BY TypeStep, PhaseStep, SoundStep DEF RecordInv
<1>3. QED
  BY <1>1, <1>2, PTL DEF Spec

\* Unless something else rewrites a release's records, no command takes the
\* record of an open install for stale, wherever the commands before it were
\* killed (release_txn.stale_reason).
THEOREM NeverStaleHolds == Spec => []NeverStale
<1>1. RecordInv => NeverStale
  BY DEF RecordInv, RecordSound, NeverStale
<1>2. QED
  BY <1>1, RecordAlways, PTL

-----------------------------------------------------------------------------
(* The files.                                                              *)

\* What an install that is closed leaves: one whole release, which live.json
\* names, and a rollback target that previous.json names.
Clean(c, live, p, meta) ==
    /\ c.whole /\ live = c.ref
    /\ p.whole /\ meta.ref = p.ref
    /\ meta # NoMeta => meta.ref # None

\* The tree this install unpacks, whether it comes from a bundle, whether it
\* kept a release, and whether its code has been in place.
New == [ref |-> txn.ref, gen |-> txn.id, whole |-> TRUE, manifest |-> TRUE]
Bundle == txn.source = "bundle"
Kept == txn.replaced # None
Installed == txn.phase \in {"installed", "data_restored", "hook_started", "switching"}

\* An install that abandon may still take back: nothing of it has run.
Undoable ==
    /\ Bundle /\ txn.touched = ""
    /\ txn.phase \in {"committed", "previous_kept", "installed", "abandoning", "abandoned_code"}

\* An install whose keep is done.
PastKeep ==
    /\ Bundle
    /\ txn.phase \in {"previous_kept", "installed", "hook_started", "switching", "abandoning"}

\* No install is open.
ClosedFiles ==
    /\ Clean(code, liveJson, prev, prevMeta)
    /\ sup = NoTree /\ supMeta = NoMeta
    /\ recorded \in {None, liveJson}

\* What the first attempt found, and what of it is aside.
FoundFiles ==
    /\ Clean(base.code, base.live, base.prev, base.meta)
    /\ txn.before = base.meta /\ txn.had = (base.prev # NoTree)
    /\ sup \in {NoTree, base.prev}

\* Of an install that can be taken back: what it found is there or aside.
UndoFiles ==
    /\ txn.replaced = base.live /\ (~Kept => base.code = NoTree)
    /\ running = base.running /\ data = base.data /\ recorded \in {None, base.live}
    /\ Kept /\ sup = NoTree /\ base.prev # NoTree => prev = base.prev
    /\ supMeta = NoMeta /\ base.meta # NoMeta => prevMeta = base.meta
    /\ txn.phase \in {"committed", "abandoned_code"} => code = base.code /\ liveJson = base.live
    /\ txn.phase \in {"previous_kept", "installed", "abandoning"} /\ Kept
       => prev = base.code /\ supMeta = base.meta

\* Of a deploy: what it kept is whole, and its code is in place or can be put
\* there again.
BundleFiles ==
    /\ ~Kept => prev = base.prev /\ prevMeta = base.meta /\ sup = NoTree /\ supMeta = NoMeta
    /\ PastKeep /\ Kept => prev # NoTree /\ prev.whole /\ prev.ref = txn.replaced
                           /\ prevMeta.ref = txn.replaced
    /\ txn.phase = "committed" => txn.touched = ""
    /\ Installed => (code = New /\ liveJson = txn.ref) \/ txn.ref \in inbox
    /\ txn.phase = "switching" => code = New /\ liveJson = txn.ref

\* Of a rollback: its target is there until it has recorded that it is used.
RollbackFiles ==
    /\ txn.phase # "previous_kept"
    /\ prevMeta # NoMeta => /\ prev # NoTree /\ prev.whole /\ prev.ref = txn.ref
                            /\ prevMeta.ref = txn.ref /\ txn.ref # None
    /\ prevMeta = NoMeta => recorded = txn.ref /\ txn.phase = "switching"
    /\ Installed => /\ code.whole /\ code.ref = txn.ref /\ liveJson = txn.ref
                    /\ prevMeta # NoMeta => code = prev

\* The steps of putting the code in the project dir, and those after it.
Installing == {"install", "installing", "markLive"}
Ready == {"installed", "onInstalled", "restore", "restoring", "restored", "hook", "runHook",
          "generate", "replace", "record"}

\* Where the undo and the keep have got to.
KeepSteps ==
    /\ pc \in Keeping => Kept
    /\ pc \in {"undoDir", "undoMeta"} /\ op.then = "keep" => Kept
    /\ pc \in {"undoMeta", "keepAside"} => prev = base.prev /\ sup = NoTree
    /\ pc \in {"keepAsideMeta", "keepDir"} => prev = NoTree /\ sup = base.prev
    /\ pc = "keepMeta" => prev = code /\ sup = base.prev
    /\ pc = "kept" => Bundle /\ txn.phase = "committed"
    /\ pc = "kept" /\ Kept => /\ prev = base.code /\ prevMeta.ref = txn.replaced
                              /\ supMeta = base.meta

\* Where the code is, on the way into the project dir.
CodeSteps ==
    /\ pc \in Installing /\ Bundle
       => txn.phase \in {"previous_kept", "installed", "hook_started", "abandoning"}
    /\ pc \in Installing \cup {"installed"} /\ ~Bundle => txn.phase = "committed"
    /\ pc = "installed" /\ Bundle => txn.phase = "previous_kept"
    /\ pc = "install" /\ ~op.tree => Bundle /\ Installed /\ code = New /\ liveJson = txn.ref
    /\ pc \in Installing /\ Bundle /\ Installed /\ op.tree => txn.ref \in inbox
    /\ pc \in {"installing", "markLive"} => op.tree
    /\ pc = "markLive" => code = IF Abandoning(txn) THEN base.code ELSE IF Bundle THEN New ELSE prev
    /\ pc \in Ready => /\ ~Abandoning(txn) /\ liveJson = txn.ref
                       /\ code = IF Bundle THEN New ELSE prev
    /\ pc = "onInstalled" => Bundle
    /\ pc \in {"onInstalled", "hook", "restore", "restoring", "restored"} => Installed
    /\ pc \in {"runHook", "generate"} => txn.phase \in {"hook_started", "switching"}
    /\ pc \in Installing \cup Ready /\ ~Bundle => prevMeta # NoMeta
    /\ pc = "codeRestored" => Undoable /\ code = base.code /\ liveJson = base.live

\* Where an install is taken over or closed.
CloseSteps ==
    /\ pc \in {"snapshot", "open", "kept", "overRollback", "supersede", "pair", "openRollback"}
              \cup Keeping => op.tree
    /\ pc \in {"undoDir", "undoMeta"} /\ op.then = "keep" => op.tree
    /\ op.then = "reopen" => op.tree
    /\ pc \in {"undoDir", "undoMeta"} \cup Keeping => Bundle
    /\ pc = "openRollback" => /\ prevMeta # NoMeta /\ prev # NoTree /\ prev.whole
                              /\ prev.ref = op.ref /\ prevMeta.ref = op.ref /\ op.ref # None
    /\ pc \in {"overRollback", "supersede"} =>
          IF Bundle THEN PastKeep /\ ~Abandoning(txn) ELSE prevMeta # NoMeta
    /\ pc = "pair" => Bundle
    /\ pc \in {"discardMeta", "discardDir"} => recorded = txn.ref
    /\ pc = "discardDir" => prevMeta = NoMeta
    /\ pc \in Closing /\ Undoable => /\ prev = base.prev /\ prevMeta = base.meta
                                     /\ txn.phase \in {"committed", "abandoned_code"}
    /\ pc \in Closing /\ ~Undoable => txn.phase = "switching" /\ recorded \in {None, txn.ref}
    /\ pc \in Closing /\ ~Bundle => prevMeta # NoMeta \/ prev = NoTree
    /\ pc \in {"closeMeta", "closeRecord"} => sup = NoTree
    /\ pc = "redeploy" => txn.id = 0

\* What the phase of the record says of the files.
Files ==
    /\ running.whole
    /\ txn.id = 0 => ClosedFiles
    /\ txn.id # 0 => /\ FoundFiles
                     /\ Undoable => UndoFiles
                     /\ Bundle => BundleFiles
                     /\ ~Bundle => RollbackFiles
                     /\ Abandoning(txn) => Undoable

\* What the step a core has got to says of the files.
Steps == KeepSteps /\ CodeSteps /\ CloseSteps

FilesSound == Files /\ Steps

FilesInv == RecordInv /\ (~tampered => FilesSound)

-----------------------------------------------------------------------------
(* What the steps have in common. *)

\* The trees and records that stand for nothing, and the one of this install.
LEMMA Nothings ==
    /\ NoTree.whole /\ NoTree.ref = None /\ NoMeta.ref = None
    /\ ~Mixed.whole /\ ~Bare.whole
    /\ New.whole /\ New.ref = txn.ref
  BY DEF NoTree, NoMeta, Mixed, Bare, New

\* A record that stays, stays of its kind.
LEMMA SameTxn ==
    ASSUME UNCHANGED txn
    PROVE  /\ UNCHANGED <<New, Bundle, Kept, Installed, Undoable, PastKeep>>
           /\ Abandoning(txn)' <=> Abandoning(txn)
  BY DEF New, Bundle, Kept, Installed, Undoable, PastKeep, Abandoning

\* advance and mark_abandon change the phase, and the files they expect.
LEMMA AdvanceSame ==
    ASSUME txn \in Txns, NEW phase \in Phases, AdvanceTo(phase)
    PROVE  /\ txn'.id = txn.id /\ txn'.source = txn.source /\ txn'.before = txn.before
           /\ txn'.ref = txn.ref /\ txn'.replaced = txn.replaced /\ txn'.had = txn.had
           /\ txn'.touched = txn.touched /\ txn'.snap = txn.snap
           /\ txn'.phase = phase /\ New' = New
<1>1. txn' = [txn EXCEPT !.phase = phase, !.expLive = liveJson, !.expPrev = prevMeta]
  BY DEF AdvanceTo
<1>2. /\ txn'.id = txn.id /\ txn'.source = txn.source /\ txn'.before = txn.before
      /\ txn'.ref = txn.ref /\ txn'.replaced = txn.replaced /\ txn'.had = txn.had
      /\ txn'.touched = txn.touched /\ txn'.snap = txn.snap
      /\ txn'.phase = phase
  BY <1>1 DEF Txns
<1>3. QED
  BY <1>2 DEF New

\* How far an install has got, by its phase.
LEMMA ReachedPhases ==
    ASSUME NEW t \in Txns
    PROVE  /\ Reached(t, "switching") <=> t.phase = "switching"
           /\ Reached(t, "hook_started") <=> t.phase \in {"hook_started", "switching"}
           /\ Reached(t, "data_restored")
              <=> t.phase \in {"data_restored", "hook_started", "switching"}
           /\ Reached(t, "installed")
              <=> t.phase \in {"installed", "data_restored", "hook_started", "switching"}
           /\ Reached(t, "previous_kept")
              <=> t.phase \in {"previous_kept", "installed", "data_restored", "hook_started",
              "switching"}
<1>1. /\ Rank("switching") = 5 /\ Rank("hook_started") = 4 /\ Rank("data_restored") = 3
      /\ Rank("installed") = 2 /\ Rank("previous_kept") = 1
      /\ Rank("committed") = 0 /\ Rank("abandoning") = 0 /\ Rank("abandoned_code") = 0
  BY DEF Rank
<1>2. t.phase \in Phases
  BY TxnFields
<1>3. QED
  BY <1>1, <1>2 DEF Reached, Phases

\* A new record (open_txn, supersede_txn) holds what it is given.
LEMMA NewRecord ==
    ASSUME TypeOK, NEW source, NEW ref, NEW replaced, NEW phase, NEW before, NEW had, NEW touched,
           NewTxn(source, ref, replaced, phase, before, had, touched)
    PROVE  /\ txn'.id # 0 /\ txn'.source = source /\ txn'.ref = ref /\ txn'.replaced = replaced
           /\ txn'.phase = phase /\ txn'.before = before /\ txn'.had = had /\ txn'.touched = touched
<1>1. nextId # 0
  BY DEF TypeOK
<1>2. QED
  BY <1>1 DEF NewTxn

\* open_txn's first record holds what is on disk.
LEMMA OpenRecord ==
    ASSUME TypeOK, NEW source, NEW ref, NEW replaced, OpenNew(source, ref, replaced)
    PROVE  /\ txn'.id # 0 /\ txn'.source = source /\ txn'.ref = ref /\ txn'.replaced = replaced
           /\ txn'.phase = "committed" /\ txn'.before = prevMeta /\ txn'.had = (prev # NoTree)
           /\ txn'.touched = ""
           /\ base'.code = code /\ base'.live = liveJson /\ base'.prev = prev
           /\ base'.meta = prevMeta /\ base'.running = running /\ base'.data = data
<1>1. NewTxn(source, ref, replaced, "committed", prevMeta, prev # NoTree, "")
  BY DEF OpenNew
<1>2. /\ base'.code = code /\ base'.live = liveJson /\ base'.prev = prev
      /\ base'.meta = prevMeta /\ base'.running = running /\ base'.data = data
  BY DEF OpenNew
<1>3. nextId # 0
  BY DEF TypeOK
<1>4. /\ txn'.id # 0 /\ txn'.source = source /\ txn'.ref = ref /\ txn'.replaced = replaced
      /\ txn'.phase = "committed" /\ txn'.before = prevMeta /\ txn'.touched = ""
  BY <1>1, <1>3 DEF NewTxn
<1>5. txn'.had = (prev # NoTree)
  BY <1>1 DEF NewTxn
<1>6. QED
  BY <1>2, <1>4, <1>5

\* A core that notes something keeps the rest of what it knows (_open, _keep,
\* switch_and_close).
LEMMA SnapshotOp ==
    ASSUME op \in Ops, TakeSnapshot
    PROVE  op'.ref = op.ref /\ op'.tree = op.tree /\ op'.then = op.then
  BY DEF TakeSnapshot, Ops

\* Noting a snapshot keeps the rest.
LEMMA SnapOp ==
    ASSUME NEW o \in Ops, NEW s
    PROVE  LET n == [o EXCEPT !.snap = s] IN n.ref = o.ref /\ n.tree = o.tree /\ n.then = o.then
  BY DEF Ops

\* Noting what comes after the undo keeps the rest.
LEMMA ThenOp ==
    ASSUME NEW o \in Ops, NEW s
    PROVE  LET n == [o EXCEPT !.then = s] IN n.ref = o.ref /\ n.tree = o.tree /\ n.then = s
  BY DEF Ops

\* Noting the result of the start keeps the rest.
LEMMA OkOp ==
    ASSUME NEW o \in Ops, NEW b
    PROVE  LET n == [o EXCEPT !.ok = b]
           IN  n.ref = o.ref /\ n.tree = o.tree /\ n.then = o.then /\ n.ok = b
  BY DEF Ops

\* Nothing changes on disk, and no bundle goes.
LEMMA SameFiles ==
    ASSUME Files, UNCHANGED <<disk, txn, base, running, recorded, data>>, inbox \subseteq inbox'
    PROVE  Files'
<1>1. /\ UNCHANGED <<New, Bundle, Kept, Installed, Undoable, PastKeep>>
      /\ (Abandoning(txn)' <=> Abandoning(txn))
  BY SameTxn
<1>2. ClosedFiles => ClosedFiles'
  BY DEF ClosedFiles, Clean, disk
<1>3. FoundFiles => FoundFiles'
  BY DEF FoundFiles, Clean, disk
<1>4. UndoFiles => UndoFiles'
  BY <1>1 DEF UndoFiles, disk
<1>5. BundleFiles => BundleFiles'
  BY <1>1 DEF BundleFiles, disk
<1>6. RollbackFiles => RollbackFiles'
  BY <1>1 DEF RollbackFiles, disk
<1>7. QED
  BY <1>1, <1>2, <1>3, <1>4, <1>5, <1>6 DEF Files

\* ensure_kept_pairing: previous.json as the keep writes it pairs as well.
LEMMA PairingFiles ==
    ASSUME Files, PhaseSound, txn \in Txns, ~Abandoning(txn), prevMeta' = PairedMeta(txn),
           UNCHANGED <<code, liveJson, prev, sup, supMeta, txn, base, running, recorded, data,
           inbox>>
    PROVE  /\ Files'
           /\ prevMeta' # prevMeta => Bundle /\ Kept /\ PastKeep /\ prevMeta'.ref = txn.replaced
<1>1. /\ UNCHANGED <<New, Bundle, Kept, Installed, Undoable, PastKeep>>
      /\ (Abandoning(txn)' <=> Abandoning(txn))
  BY SameTxn
<1>2. CASE prevMeta' = prevMeta
  BY <1>2, SameFiles DEF disk
<1>3. CASE prevMeta' # prevMeta
  <2>1. txn.id # 0 /\ Bundle /\ Kept /\ prevMeta'.ref = txn.replaced
    BY <1>3, TxnFields DEF PairedMeta, PairsKept, KeptMeta, Bundle, Kept
  <2>2. PastKeep /\ txn.phase # "committed" /\ txn.phase \notin {"abandoning", "abandoned_code"}
    BY <1>3, <2>1, TxnFields, ReachedPhases
       DEF PairedMeta, PairsKept, PhaseSound, PastKeep, Bundle, Abandoning, AbandonPhases
  <2>3. FoundFiles' /\ running'.whole
    BY <2>1 DEF Files, FoundFiles
  <2>4. Undoable' => UndoFiles'
    <3>1. Undoable => txn.phase \in {"previous_kept", "installed"}
      BY <2>2 DEF Undoable
    <3>2. QED
      BY <1>1, <2>1, <3>1 DEF Files, UndoFiles
  <2>5. BundleFiles'
    BY <1>1, <2>1 DEF Files, BundleFiles
  <2>6. QED
    BY <1>1, <2>1, <2>2, <2>3, <2>4, <2>5 DEF Files
<1>4. QED
  BY <1>2, <1>3

\* No core runs.
LEMMA IdleSteps == ASSUME pc' = "idle", op'.then # "reopen" PROVE Steps'
  BY DEF Steps, KeepSteps, CodeSteps, CloseSteps, Keeping, Closing, Installing, Ready

\* Nothing but an upload happens.
LEMMA SameSteps ==
    ASSUME Steps, UNCHANGED <<disk, txn, base, recorded, pc, op>>, inbox \subseteq inbox'
    PROVE  Steps'
<1>1. /\ UNCHANGED <<New, Bundle, Kept, Installed, Undoable, PastKeep>>
      /\ Abandoning(txn)' <=> Abandoning(txn)
  BY SameTxn
<1>2. UNCHANGED <<code, liveJson, prev, prevMeta, sup, supMeta, txn, base, recorded, pc, op>>
  BY DEF disk
<1>3. KeepSteps => KeepSteps'
  BY <1>1, <1>2 DEF KeepSteps
<1>4. CodeSteps => CodeSteps'
  BY <1>1, <1>2 DEF CodeSteps
<1>5. CloseSteps => CloseSteps'
  BY <1>1, <1>2 DEF CloseSteps
<1>6. QED
  BY <1>3, <1>4, <1>5 DEF Steps

\* A blank core is to open nothing after its close.
LEMMA NoOpFields == NoOp.ref = None /\ NoOp.tree = FALSE /\ NoOp.then = "" /\ NoOp.ok = FALSE
  BY DEF NoOp

-----------------------------------------------------------------------------
(* One step of any core, or around them. *)

\* It leaves the files sound.
LEMMA FilesStep == ~InboxCleans /\ FilesInv /\ [Next]_vars /\ ~tampered' => Files'
<1> SUFFICES ASSUME ~InboxCleans, FilesInv, [Next]_vars, ~tampered' PROVE Files'
  OBVIOUS
<1> USE DEF Goto, Done, disk, log, world
<1>0. /\ TypeOK /\ OpOK /\ PhaseSound /\ RecordSound /\ txn \in Txns /\ op \in Ops /\ Files /\ Steps
  BY TamperStays DEF RecordInv, FilesInv, FilesSound, TypeOK
<1>1. CASE Crash
  BY <1>0, <1>1, SameFiles DEF Crash, TakeSnapshot
<1>2. CASE PreDeploySnapshot
  BY <1>0, <1>2, SameFiles DEF PreDeploySnapshot, TakeSnapshot
<1>3. CASE OpenTxn
  <2>1. txn.id = 0 /\ ClosedFiles /\ running.whole
    BY <1>0, <1>3 DEF OpenTxn, PhaseSound, Files
  <2>2. /\ UNCHANGED <<disk, running, data, recorded>>
        /\ OpenNew("bundle", op.ref, IF Deployed THEN liveJson ELSE None)
    BY <1>3 DEF OpenTxn
  <2>3. /\ txn'.id # 0 /\ txn'.source = "bundle" /\ txn'.phase = "committed" /\ txn'.touched = ""
        /\ txn'.replaced = (IF Deployed THEN liveJson ELSE None)
        /\ txn'.before = prevMeta /\ txn'.had = (prev # NoTree)
    BY <1>0, <2>2, OpenRecord
  <2>4. /\ base'.code = code /\ base'.live = liveJson /\ base'.prev = prev /\ base'.meta = prevMeta
        /\ base'.running = running /\ base'.data = data
    BY <2>2 DEF OpenNew
  <2>5. FoundFiles'
    BY <2>1, <2>2, <2>3, <2>4 DEF ClosedFiles, FoundFiles
  <2>6. UndoFiles'
    <3>1. txn'.replaced = base'.live /\ (~Kept' => base'.code = NoTree)
      <4>1. Deployed \/ (code = NoTree /\ liveJson = None)
        BY <1>0, <2>1, Nothings, WholeRelease DEF TypeOK, Deployed, ClosedFiles, Clean
      <4>2. Deployed => liveJson # None
        BY <1>3 DEF OpenTxn
      <4>3. QED
        BY <2>3, <2>4, <4>1, <4>2 DEF Kept
    <3>2. UNCHANGED <<sup, supMeta, prev, prevMeta, code, liveJson, running, data, recorded>>
      BY <2>2
    <3>3. recorded \in {None, liveJson}
      BY <2>1 DEF ClosedFiles
    <3>4. QED
      BY <2>3, <2>4, <3>1, <3>2, <3>3 DEF UndoFiles
  <2>7. BundleFiles'
    BY <2>1, <2>2, <2>3, <2>4 DEF ClosedFiles, BundleFiles, PastKeep, Installed
  <2>8. QED
    BY <2>1, <2>2, <2>3, <2>5, <2>6, <2>7 DEF Files, Bundle, Abandoning, AbandonPhases
<1>4. CASE UndoDropPrev
  <2>0. UNCHANGED <<txn, New>> /\ txn.id # 0
    BY <1>0, <1>4, SameTxn DEF UndoDropPrev, PhaseSound, OutsideTxn, Keeping
  <2>a. running'.whole /\ FoundFiles'
    BY <1>0, <1>4, <2>0, Nothings DEF UndoDropPrev, Files, FoundFiles
  <2>b. Undoable' => UndoFiles'
    BY <1>0, <1>4, <2>0, Nothings
       DEF UndoDropPrev, Bundle, Kept, Undoable, PhaseSound, Files, FoundFiles, UndoFiles
  <2>c. Bundle' => BundleFiles'
    BY <1>0, <1>4, <2>0, Nothings
       DEF UndoDropPrev, Bundle, Kept, Installed, PastKeep, PhaseSound, Files, FoundFiles,
           BundleFiles
  <2>d. ~Bundle' => RollbackFiles'
    BY <1>0, <1>4, <2>0, Nothings DEF UndoDropPrev, Bundle, Steps, CloseSteps
  <2>e. QED
    BY <1>0, <2>0, <2>a, <2>b, <2>c, <2>d, SameTxn DEF Files
<1>5. CASE UndoDir
  <2>0. UNCHANGED <<txn, New>> /\ txn.id # 0
    BY <1>0, <1>5, SameTxn DEF UndoDir, PhaseSound, OutsideTxn, Keeping
  <2>a. running'.whole /\ FoundFiles'
    BY <1>0, <1>5, <2>0, Nothings DEF UndoDir, Files, FoundFiles
  <2>b. Undoable' => UndoFiles'
    BY <1>0, <1>5, <2>0, Nothings
       DEF UndoDir, Bundle, Kept, Undoable, PhaseSound, Files, FoundFiles, UndoFiles
  <2>c. Bundle' => BundleFiles'
    BY <1>0, <1>5, <2>0, Nothings DEF UndoDir, Bundle, Kept, Installed, PastKeep, Files, BundleFiles
  <2>d. ~Bundle' => RollbackFiles'
    BY <1>0, <1>5, <2>0, Nothings DEF UndoDir, Bundle, Installed, Files, RollbackFiles
  <2>e. QED
    BY <1>0, <2>0, <2>a, <2>b, <2>c, <2>d, SameTxn DEF Files
<1>6. CASE UndoDropMeta
  <2>0. UNCHANGED <<txn, New>> /\ txn.id # 0
    BY <1>0, <1>6, SameTxn DEF UndoDropMeta, PhaseSound, OutsideTxn, Keeping
  <2>a. running'.whole /\ FoundFiles'
    BY <1>0, <1>6, <2>0, Nothings DEF UndoDropMeta, Files, FoundFiles
  <2>b. Undoable' => UndoFiles'
    BY <1>0, <1>6, <2>0, Nothings
       DEF UndoDropMeta, Bundle, Kept, Undoable, Files, FoundFiles, UndoFiles
  <2>c. Bundle' => BundleFiles'
    BY <1>0, <1>6, <2>0, Nothings
       DEF UndoDropMeta, Bundle, Kept, Installed, PastKeep, PhaseSound, Files, FoundFiles,
           BundleFiles
  <2>d. ~Bundle' => RollbackFiles'
    BY <1>0, <1>6, <2>0, Nothings DEF UndoDropMeta, Bundle, Steps, CloseSteps
  <2>e. QED
    BY <1>0, <2>0, <2>a, <2>b, <2>c, <2>d, SameTxn DEF Files
<1>7. CASE UndoMeta
  <2>0. UNCHANGED <<txn, New>> /\ txn.id # 0
    BY <1>0, <1>7, SameTxn DEF UndoMeta, PhaseSound, OutsideTxn, Keeping
  <2>a. running'.whole /\ FoundFiles'
    BY <1>0, <1>7, <2>0, Nothings DEF UndoMeta, Files, FoundFiles
  <2>b. Undoable' => UndoFiles'
    BY <1>0, <1>7, <2>0, Nothings
       DEF UndoMeta, Bundle, Kept, Undoable, PhaseSound, RecordSound, Files, FoundFiles, UndoFiles
  <2>c. Bundle' => BundleFiles'
    BY <1>0, <1>7, <2>0, Nothings
       DEF UndoMeta, Bundle, Kept, Installed, PastKeep, Files, BundleFiles
  <2>d. ~Bundle' => RollbackFiles'
    BY <1>0, <1>7, <2>0, Nothings DEF UndoMeta, Bundle, Installed, PhaseSound, Files, RollbackFiles
  <2>e. QED
    BY <1>0, <2>0, <2>a, <2>b, <2>c, <2>d, SameTxn DEF Files
<1>8. CASE KeepAside
  <2>0. UNCHANGED <<txn, New>> /\ txn.id # 0
    BY <1>0, <1>8, SameTxn DEF KeepAside, PhaseSound, OutsideTxn, Keeping
  <2>a. running'.whole /\ FoundFiles'
    BY <1>0, <1>8, <2>0, Nothings DEF KeepAside, Steps, KeepSteps, Files, FoundFiles
  <2>b. Undoable' => UndoFiles'
    BY <1>0, <1>8, <2>0, Nothings
       DEF KeepAside, Bundle, Kept, Undoable, PhaseSound, KeepSteps, Keeping, Files, UndoFiles
  <2>c. Bundle' => BundleFiles'
    BY <1>0, <1>8, <2>0, Nothings
       DEF KeepAside, Bundle, Kept, Installed, PastKeep, PhaseSound, Steps, KeepSteps, Keeping,
           Files, BundleFiles
  <2>d. ~Bundle' => RollbackFiles'
    BY <1>0, <1>8, <2>0, Nothings DEF KeepAside, Bundle, Steps, KeepSteps, CloseSteps, Keeping
  <2>e. QED
    BY <1>0, <2>0, <2>a, <2>b, <2>c, <2>d, SameTxn DEF Files
<1>9. CASE KeepAsideMeta
  <2>0. UNCHANGED <<txn, New>> /\ txn.id # 0
    BY <1>0, <1>9, SameTxn DEF KeepAsideMeta, PhaseSound, OutsideTxn, Keeping
  <2>a. running'.whole /\ FoundFiles'
    BY <1>0, <1>9, <2>0, Nothings DEF KeepAsideMeta, Files, FoundFiles
  <2>b. Undoable' => UndoFiles'
    BY <1>0, <1>9, <2>0, Nothings
       DEF KeepAsideMeta, Bundle, Kept, Undoable, RecordSound, Files, FoundFiles, UndoFiles
  <2>c. Bundle' => BundleFiles'
    BY <1>0, <1>9, <2>0, Nothings
       DEF KeepAsideMeta, Bundle, Kept, Installed, PastKeep, Steps, KeepSteps, Keeping, Files,
           BundleFiles
  <2>d. ~Bundle' => RollbackFiles'
    BY <1>0, <1>9, <2>0, Nothings
       DEF KeepAsideMeta, Bundle, PhaseSound, Steps, KeepSteps, Keeping, Files, RollbackFiles
  <2>e. QED
    BY <1>0, <2>0, <2>a, <2>b, <2>c, <2>d, SameTxn DEF Files
<1>10. CASE KeepDir
  <2>0. UNCHANGED <<txn, New>> /\ txn.id # 0
    BY <1>0, <1>10, SameTxn DEF KeepDir, PhaseSound, OutsideTxn, Keeping
  <2>a. running'.whole /\ FoundFiles'
    BY <1>0, <1>10, <2>0, Nothings DEF KeepDir, Files, FoundFiles
  <2>b. Undoable' => UndoFiles'
    BY <1>0, <1>10, <2>0, Nothings
       DEF KeepDir, Bundle, Kept, Undoable, PhaseSound, Steps, KeepSteps, Keeping, Files, UndoFiles
  <2>c. Bundle' => BundleFiles'
    BY <1>0, <1>10, <2>0, Nothings
       DEF KeepDir, Bundle, Kept, Installed, PastKeep, Steps, KeepSteps, Keeping, Files, BundleFiles
  <2>d. ~Bundle' => RollbackFiles'
    BY <1>0, <1>10, <2>0, Nothings
       DEF KeepDir, Bundle, PhaseSound, Steps, KeepSteps, Keeping, Files, RollbackFiles
  <2>e. QED
    BY <1>0, <2>0, <2>a, <2>b, <2>c, <2>d, SameTxn DEF Files
<1>11. CASE KeepMeta
  <2>0. UNCHANGED <<txn, New>> /\ txn.id # 0
    BY <1>0, <1>11, SameTxn DEF KeepMeta, PhaseSound, OutsideTxn, Keeping
  <2>a. running'.whole /\ FoundFiles'
    BY <1>0, <1>11, <2>0, Nothings DEF KeepMeta, Files, FoundFiles
  <2>b. Undoable' => UndoFiles'
    BY <1>0, <1>11, <2>0, Nothings
       DEF KeepMeta, Bundle, Kept, Undoable, RecordSound, Files, UndoFiles
  <2>c. Bundle' => BundleFiles'
    BY <1>0, <1>11, <2>0, Nothings
       DEF KeepMeta, Bundle, Kept, Installed, PastKeep, PhaseSound, Steps, KeepSteps, Keeping,
           Files, BundleFiles
  <2>d. ~Bundle' => RollbackFiles'
    BY <1>0, <1>11, <2>0, Nothings DEF KeepMeta, Bundle, Steps, KeepSteps, CloseSteps, Keeping
  <2>e. QED
    BY <1>0, <2>0, <2>a, <2>b, <2>c, <2>d, SameTxn DEF Files
<1>12. CASE KeepFails
  BY <1>0, <1>12, SameFiles DEF KeepFails, TakeSnapshot
<1>13. CASE AdvanceKept
  <2>1. /\ AdvanceTo("previous_kept") /\ txn.id # 0
        /\ UNCHANGED <<disk, base, running, data, recorded, inbox>>
    BY <1>0, <1>13 DEF AdvanceKept, PhaseSound, OutsideTxn, Keeping
  <2>2. /\ txn'.id = txn.id /\ txn'.source = txn.source /\ txn'.before = txn.before
        /\ txn'.ref = txn.ref /\ txn'.replaced = txn.replaced /\ txn'.had = txn.had
        /\ txn'.touched = txn.touched /\ txn'.phase = "previous_kept" /\ New' = New
    BY <1>0, <2>1, AdvanceSame DEF Phases
  <2>a. FoundFiles'
    BY <1>0, <2>1, <2>2 DEF Files, FoundFiles
  <2>b. Undoable' => Undoable /\ UndoFiles'
    BY <1>0, <1>13, <2>1, <2>2, Nothings
       DEF AdvanceKept, Kept, Undoable, Steps, KeepSteps, Files, UndoFiles
  <2>c. Bundle' => BundleFiles'
    <3>1. /\ pc = "kept" /\ Bundle /\ txn.phase = "committed" /\ FoundFiles /\ BundleFiles
          /\ Kept => prev = base.code /\ prevMeta.ref = txn.replaced
      BY <1>0, <1>13, <2>1 DEF AdvanceKept, Steps, KeepSteps, Files
    <3>2. Undoable /\ UndoFiles
      BY <1>0, <2>1, <3>1 DEF Undoable, BundleFiles, Files
    <3>3. Kept => prev # NoTree /\ prev.whole /\ prev.ref = txn.replaced
      <4>1. SUFFICES ASSUME Kept PROVE prev # NoTree /\ prev.whole /\ prev.ref = txn.replaced
        OBVIOUS
      <4>2. prev.whole /\ prev.ref = base.live /\ txn.replaced = base.live
        BY <3>1, <3>2, <4>1 DEF FoundFiles, Clean, UndoFiles
      <4>3. QED
        BY <4>1, <4>2, Nothings DEF Kept
    <3>4. Kept' = Kept /\ ~Installed'
      BY <2>2 DEF Kept, Installed
    <3>5. QED
      BY <2>1, <2>2, <3>1, <3>3, <3>4 DEF BundleFiles
  <2>d. ~Bundle' => RollbackFiles'
    BY <1>0, <1>13, <2>1, <2>2, Nothings DEF AdvanceKept, Bundle, Steps, KeepSteps
  <2>e. Abandoning(txn)' => Undoable'
    BY <1>0, <1>13, <2>1, <2>2, Nothings DEF AdvanceKept, Abandoning, AbandonPhases
  <2>f. QED
    BY <1>0, <2>1, <2>2, <2>a, <2>b, <2>c, <2>d, <2>e DEF Files
<1>14. CASE OverRollbackSnapshot
  BY <1>0, <1>14, SameFiles DEF OverRollbackSnapshot, TakeSnapshot
<1>15. CASE Supersede
  <2>1. /\ SupersedeBy("bundle", op.ref,
           IF txn.source = "rollback" THEN prevMeta.ref ELSE txn.replaced,
                       "previous_kept")
        /\ UNCHANGED <<disk, base, running, data, recorded, inbox>> /\ txn.id # 0
    BY <1>0, <1>15 DEF Supersede, SupersedeBy, PhaseSound, OutsideTxn
  <2>2. /\ txn'.id # 0 /\ txn'.source = "bundle" /\ txn'.phase = "previous_kept"
        /\ txn'.replaced = (IF txn.source = "rollback" THEN prevMeta.ref ELSE txn.replaced)
        /\ txn'.before = txn.before /\ txn'.had = txn.had /\ txn'.touched = TouchedBy(txn)
    BY <1>0, <2>1 DEF SupersedeBy, NewTxn, TypeOK
  <2>3. IF Bundle THEN PastKeep /\ ~Abandoning(txn) ELSE prevMeta # NoMeta
    BY <1>0, <1>15 DEF Supersede, Steps, CloseSteps
  <2>4. FoundFiles'
    BY <1>0, <2>1, <2>2 DEF Files, FoundFiles
  <2>5. Undoable' => UndoFiles'
    <3>1. SUFFICES ASSUME Undoable' PROVE UndoFiles'
      OBVIOUS
    <3>2. TouchedBy(txn) = ""
      BY <2>2, <3>1 DEF Undoable
    <3>3. Bundle /\ txn.touched = "" /\ txn.phase \notin {"hook_started", "switching"}
      BY <1>0, <3>2, ReachedPhases, TxnFields
         DEF TouchedBy, ContainersMayRunOther, DataMayHaveChanged, Bundle
    <3>4. Undoable /\ txn.phase \in {"previous_kept", "installed"}
      BY <2>3, <3>3 DEF PastKeep, Undoable, Abandoning, AbandonPhases
    <3>5. QED
      BY <1>0, <2>1, <2>2, <3>3, <3>4 DEF Files, UndoFiles, Kept, Bundle
  <2>6. BundleFiles'
    <3>1. CASE Bundle
      BY <1>0, <2>1, <2>2, <2>3, <3>1 DEF Files, BundleFiles, Bundle, Kept, PastKeep, Installed
    <3>2. CASE ~Bundle
      <4>1. txn.source = "rollback"
        BY <1>0, <3>2, TxnFields DEF Bundle
      <4>2. QED
        BY <1>0, <2>1, <2>2, <2>3, <3>2, <4>1 DEF Files, RollbackFiles, BundleFiles, Kept, Installed
    <3>3. QED
      BY <3>1, <3>2
  <2>7. QED
    BY <1>0, <2>1, <2>2, <2>4, <2>5, <2>6 DEF Files, Bundle, Abandoning, AbandonPhases
<1>16. CASE EnsurePairing
  BY <1>0, <1>16, PairingFiles DEF EnsurePairing, PhaseSound, Abandoning, AbandonPhases
<1>17. CASE InstallBegin
  <2>0. UNCHANGED <<txn, New>> /\ txn.id # 0
    BY <1>0, <1>17, SameTxn DEF InstallBegin, PhaseSound, OutsideTxn, Keeping
  <2>a. running'.whole /\ FoundFiles'
    BY <1>0, <1>17, <2>0, Nothings DEF InstallBegin, Files, FoundFiles
  <2>b. Undoable' => UndoFiles'
    BY <1>0, <1>17, <2>0, Nothings
       DEF InstallBegin, Bundle, Kept, Undoable, Steps, CodeSteps, Installing, Files, UndoFiles
  <2>c. Bundle' => BundleFiles'
    BY <1>0, <1>17, <2>0, Nothings
       DEF InstallBegin, Bundle, Kept, Installed, PastKeep, Steps, CodeSteps, Installing, Files,
           BundleFiles
  <2>d. ~Bundle' => RollbackFiles'
    BY <1>0, <1>17, <2>0, Nothings
       DEF InstallBegin, Bundle, Installed, Steps, CodeSteps, Installing, Files, RollbackFiles
  <2>e. QED
    BY <1>0, <2>0, <2>a, <2>b, <2>c, <2>d, SameTxn DEF Files
<1>18. CASE InstallEnd
  <2>0. UNCHANGED <<txn, New>> /\ txn.id # 0
    BY <1>0, <1>18, SameTxn DEF InstallEnd, PhaseSound, OutsideTxn, Keeping
  <2>a. running'.whole /\ FoundFiles'
    BY <1>0, <1>18, <2>0, Nothings DEF InstallEnd, Files, FoundFiles
  <2>b. Undoable' => UndoFiles'
    BY <1>0, <1>18, <2>0, Nothings
       DEF InstallEnd, Bundle, Kept, Undoable, Steps, CodeSteps, Installing, Files, UndoFiles
  <2>c. Bundle' => BundleFiles'
    BY <1>0, <1>18, <2>0, Nothings
       DEF InstallEnd, Bundle, Kept, Installed, PastKeep, Steps, CodeSteps, Installing, Files,
           BundleFiles
  <2>d. ~Bundle' => RollbackFiles'
    BY <1>0, <1>18, <2>0, Nothings
       DEF InstallEnd, Bundle, Installed, Steps, CodeSteps, Installing, Files, RollbackFiles
  <2>e. QED
    BY <1>0, <2>0, <2>a, <2>b, <2>c, <2>d, SameTxn DEF Files
<1>19. CASE MarkLive
  <2>0. UNCHANGED <<txn, New>> /\ txn.id # 0
    BY <1>0, <1>19, SameTxn DEF MarkLive, PhaseSound, OutsideTxn, Keeping
  <2>a. running'.whole /\ FoundFiles'
    BY <1>0, <1>19, <2>0, Nothings DEF MarkLive, Files, FoundFiles
  <2>b. Undoable' => UndoFiles'
    BY <1>0, <1>19, <2>0, Nothings
       DEF MarkLive, Bundle, Kept, Undoable, Steps, CodeSteps, Installing, Files, UndoFiles
  <2>c. Bundle' => BundleFiles'
    BY <1>0, <1>19, <2>0, Nothings
       DEF MarkLive, Bundle, Kept, Installed, PastKeep, Abandoning, AbandonPhases, Files,
           BundleFiles
  <2>d. ~Bundle' => RollbackFiles'
    BY <1>0, <1>19, <2>0, Nothings
       DEF MarkLive, Bundle, Installed, Abandoning, AbandonPhases, Files, RollbackFiles
  <2>e. QED
    BY <1>0, <2>0, <2>a, <2>b, <2>c, <2>d, SameTxn DEF Files
<1>20. CASE AdvanceInstalled
  <2>1. /\ AdvanceTo("installed") /\ txn.id # 0
        /\ UNCHANGED <<disk, base, running, data, recorded, inbox>>
    BY <1>0, <1>20 DEF AdvanceInstalled, PhaseSound, OutsideTxn, Keeping
  <2>2. /\ txn'.id = txn.id /\ txn'.source = txn.source /\ txn'.before = txn.before
        /\ txn'.ref = txn.ref /\ txn'.replaced = txn.replaced /\ txn'.had = txn.had
        /\ txn'.touched = txn.touched /\ txn'.phase = "installed" /\ New' = New
    BY <1>0, <2>1, AdvanceSame DEF Phases
  <2>a. FoundFiles'
    BY <1>0, <2>1, <2>2 DEF Files, FoundFiles
  <2>b. Undoable' => Undoable /\ UndoFiles'
    BY <1>0, <1>20, <2>1, <2>2, Nothings
       DEF AdvanceInstalled, Bundle, Kept, Undoable, Steps, CodeSteps, Files, UndoFiles
  <2>c. Bundle' => BundleFiles'
    BY <1>0, <1>20, <2>1, <2>2, Nothings
       DEF AdvanceInstalled, Bundle, Kept, PastKeep, Steps, CodeSteps, Ready, Files, BundleFiles
  <2>d. ~Bundle' => RollbackFiles'
    <3>1. SUFFICES ASSUME ~Bundle' PROVE RollbackFiles'
      OBVIOUS
    <3>2. ~Bundle /\ pc = "installed" /\ RollbackFiles
      BY <1>0, <1>20, <2>1, <2>2, <3>1 DEF AdvanceInstalled, Files, Bundle
    <3>3. liveJson = txn.ref /\ code = prev /\ prevMeta # NoMeta
      BY <1>0, <3>2 DEF Steps, CodeSteps, Installing, Ready
    <3>4. prev # NoTree /\ prev.whole /\ prev.ref = txn.ref /\ prevMeta.ref = txn.ref
          /\ txn.ref # None
      BY <3>2, <3>3 DEF RollbackFiles
    <3>5. QED
      BY <2>1, <2>2, <3>3, <3>4 DEF RollbackFiles, Installed
  <2>e. Abandoning(txn)' => Undoable'
    BY <1>0, <1>20, <2>1, <2>2, Nothings DEF AdvanceInstalled, Abandoning, AbandonPhases
  <2>f. QED
    BY <1>0, <2>1, <2>2, <2>a, <2>b, <2>c, <2>d, <2>e DEF Files
<1>21. CASE OnInstalled
  <2>0. UNCHANGED <<txn, New>> /\ txn.id # 0
    BY <1>0, <1>21, SameTxn DEF OnInstalled, PhaseSound, OutsideTxn, Keeping
  <2>a. running'.whole /\ FoundFiles'
    BY <1>0, <1>21, <2>0, Nothings DEF OnInstalled, Files, FoundFiles
  <2>b. Undoable' => UndoFiles'
    BY <1>0, <1>21, <2>0, Nothings DEF OnInstalled, Bundle, Kept, Undoable, Files, UndoFiles
  <2>c. Bundle' => BundleFiles'
    BY <1>0, <1>21, <2>0, Nothings
       DEF OnInstalled, Kept, PastKeep, Steps, CodeSteps, Ready, Files, BundleFiles
  <2>d. ~Bundle' => RollbackFiles'
    BY <1>0, <1>21, <2>0, Nothings DEF OnInstalled, Bundle, Installed, Files, RollbackFiles
  <2>e. QED
    BY <1>0, <2>0, <2>a, <2>b, <2>c, <2>d, SameTxn DEF Files
<1>22. CASE AdvanceHookStarted
  <2>1. CASE UNCHANGED txn
    BY <1>0, <1>22, <2>1, SameFiles DEF AdvanceHookStarted
  <2>2. CASE AdvanceTo("hook_started")
    <3>1. /\ AdvanceTo("hook_started") /\ txn.id # 0
          /\ UNCHANGED <<disk, base, running, data, recorded, inbox>>
      BY <1>0, <1>22, <2>2 DEF AdvanceHookStarted, PhaseSound, OutsideTxn, Keeping
    <3>2. /\ txn'.id = txn.id /\ txn'.source = txn.source /\ txn'.before = txn.before
          /\ txn'.ref = txn.ref /\ txn'.replaced = txn.replaced /\ txn'.had = txn.had
          /\ txn'.touched = txn.touched /\ txn'.phase = "hook_started" /\ New' = New
      BY <1>0, <3>1, AdvanceSame DEF Phases
    <3>a. FoundFiles'
      BY <1>0, <3>1, <3>2 DEF Files, FoundFiles
    <3>b. Undoable' => Undoable /\ UndoFiles'
      BY <1>0, <1>22, <3>1, <3>2, Nothings DEF AdvanceHookStarted, Undoable
    <3>c. Bundle' => BundleFiles'
      BY <1>0, <1>22, <3>1, <3>2, Nothings
         DEF AdvanceHookStarted, Bundle, Kept, Installed, PastKeep, PhaseSound, Steps,
             CodeSteps, Files, BundleFiles
    <3>d. ~Bundle' => RollbackFiles'
      BY <1>0, <1>22, <3>1, <3>2, Nothings
         DEF AdvanceHookStarted, Bundle, Steps, CodeSteps, Ready, Files, RollbackFiles
    <3>e. Abandoning(txn)' => Undoable'
      BY <1>0, <1>22, <3>1, <3>2, Nothings DEF AdvanceHookStarted, Abandoning, AbandonPhases
    <3>f. QED
      BY <1>0, <3>1, <3>2, <3>a, <3>b, <3>c, <3>d, <3>e DEF Files
  <2>3. QED
    BY <1>22, <2>1, <2>2 DEF AdvanceHookStarted
<1>23. CASE RunHook
  <2>0. UNCHANGED <<txn, New>> /\ txn.id # 0
    BY <1>0, <1>23, SameTxn DEF RunHook, PhaseSound, OutsideTxn, Keeping
  <2>a. running'.whole /\ FoundFiles'
    BY <1>0, <1>23, <2>0, Nothings DEF RunHook, Files, FoundFiles
  <2>b. Undoable' => UndoFiles'
    BY <1>0, <1>23, <2>0, Nothings DEF RunHook, Undoable, Steps, CodeSteps
  <2>c. Bundle' => BundleFiles'
    BY <1>0, <1>23, <2>0, Nothings
       DEF RunHook, Bundle, Kept, Installed, PastKeep, Files, BundleFiles
  <2>d. ~Bundle' => RollbackFiles'
    BY <1>0, <1>23, <2>0, Nothings DEF RunHook, Bundle, Installed, Files, RollbackFiles
  <2>e. QED
    BY <1>0, <2>0, <2>a, <2>b, <2>c, <2>d, SameTxn DEF Files
<1>24. CASE HookFails
  <2>0. UNCHANGED <<txn, New>> /\ txn.id # 0
    BY <1>0, <1>24, SameTxn DEF HookFails, PhaseSound, OutsideTxn, Keeping
  <2>a. running'.whole /\ FoundFiles'
    BY <1>0, <1>24, <2>0, Nothings DEF HookFails, Files, FoundFiles
  <2>b. Undoable' => UndoFiles'
    BY <1>0, <1>24, <2>0, Nothings DEF HookFails, Undoable, Steps, CodeSteps
  <2>c. Bundle' => BundleFiles'
    BY <1>0, <1>24, <2>0, Nothings
       DEF HookFails, Bundle, Kept, Installed, PastKeep, Files, BundleFiles
  <2>d. ~Bundle' => RollbackFiles'
    BY <1>0, <1>24, <2>0, Nothings DEF HookFails, Bundle, Installed, Files, RollbackFiles
  <2>e. QED
    BY <1>0, <2>0, <2>a, <2>b, <2>c, <2>d, SameTxn DEF Files
<1>25. CASE AdvanceSwitching
  <2>1. CASE UNCHANGED txn
    BY <1>0, <1>25, <2>1, SameFiles DEF AdvanceSwitching
  <2>2. CASE AdvanceTo("switching")
    <3>1. /\ AdvanceTo("switching") /\ txn.id # 0
          /\ UNCHANGED <<disk, base, running, data, recorded, inbox>>
      BY <1>0, <1>25, <2>2 DEF AdvanceSwitching, PhaseSound, OutsideTxn, Keeping
    <3>2. /\ txn'.id = txn.id /\ txn'.source = txn.source /\ txn'.before = txn.before
          /\ txn'.ref = txn.ref /\ txn'.replaced = txn.replaced /\ txn'.had = txn.had
          /\ txn'.touched = txn.touched /\ txn'.phase = "switching" /\ New' = New
      BY <1>0, <3>1, AdvanceSame DEF Phases
    <3>a. FoundFiles'
      BY <1>0, <3>1, <3>2 DEF Files, FoundFiles
    <3>b. Undoable' => Undoable /\ UndoFiles'
      BY <1>0, <1>25, <3>1, <3>2, Nothings DEF AdvanceSwitching, Undoable
    <3>c. Bundle' => BundleFiles'
      BY <1>0, <1>25, <3>1, <3>2, Nothings
         DEF AdvanceSwitching, Bundle, Kept, PastKeep, Steps, CodeSteps, Ready, Files, BundleFiles
    <3>d. ~Bundle' => RollbackFiles'
      BY <1>0, <1>25, <3>1, <3>2, Nothings
         DEF AdvanceSwitching, Bundle, Steps, CodeSteps, Ready, Files, RollbackFiles
    <3>e. Abandoning(txn)' => Undoable'
      BY <1>0, <1>25, <3>1, <3>2, Nothings DEF AdvanceSwitching, Abandoning, AbandonPhases
    <3>f. QED
      BY <1>0, <3>1, <3>2, <3>a, <3>b, <3>c, <3>d, <3>e DEF Files
  <2>3. QED
    BY <1>25, <2>1, <2>2 DEF AdvanceSwitching
<1>26. CASE StartRelease
  <2>0. UNCHANGED <<txn, New>> /\ txn.id # 0
    BY <1>0, <1>26, SameTxn DEF StartRelease, PhaseSound, OutsideTxn, Keeping
  <2>a. running'.whole /\ FoundFiles'
    BY <1>0, <1>26, <2>0, Nothings
       DEF StartRelease, Steps, CodeSteps, Ready, Files, FoundFiles, RollbackFiles
  <2>b. Undoable' => UndoFiles'
    BY <1>0, <1>26, <2>0, Nothings DEF StartRelease, Undoable, PhaseSound
  <2>c. Bundle' => BundleFiles'
    BY <1>0, <1>26, <2>0, Nothings
       DEF StartRelease, Bundle, Kept, PastKeep, PhaseSound, Files, BundleFiles
  <2>d. ~Bundle' => RollbackFiles'
    BY <1>0, <1>26, <2>0, Nothings DEF StartRelease, Bundle, Installed, Files, RollbackFiles
  <2>e. QED
    BY <1>0, <2>0, <2>a, <2>b, <2>c, <2>d, SameTxn DEF Files
<1>27. CASE RecordDeploy
  <2>0. UNCHANGED <<txn, New>> /\ txn.id # 0
    BY <1>0, <1>27, SameTxn DEF RecordDeploy, PhaseSound, OutsideTxn, Keeping
  <2>a. running'.whole /\ FoundFiles'
    BY <1>0, <1>27, <2>0, Nothings DEF RecordDeploy, Files, FoundFiles
  <2>b. Undoable' => UndoFiles'
    BY <1>0, <1>27, <2>0, Nothings DEF RecordDeploy, Undoable, PhaseSound
  <2>c. Bundle' => BundleFiles'
    BY <1>0, <1>27, <2>0, Nothings
       DEF RecordDeploy, Bundle, Kept, PastKeep, PhaseSound, Files, BundleFiles
  <2>d. ~Bundle' => RollbackFiles'
    BY <1>0, <1>27, <2>0, Nothings DEF RecordDeploy, Bundle, Installed, Files, RollbackFiles
  <2>e. QED
    BY <1>0, <2>0, <2>a, <2>b, <2>c, <2>d, SameTxn DEF Files
<1>28. CASE DiscardPreviousMeta
  <2>0. UNCHANGED <<txn, New>> /\ txn.id # 0
    BY <1>0, <1>28, SameTxn DEF DiscardPreviousMeta, PhaseSound, OutsideTxn, Keeping
  <2>a. running'.whole /\ FoundFiles'
    BY <1>0, <1>28, <2>0, Nothings DEF DiscardPreviousMeta, Files, FoundFiles
  <2>b. Undoable' => UndoFiles'
    BY <1>0, <1>28, <2>0, Nothings DEF DiscardPreviousMeta, Undoable, PhaseSound
  <2>c. Bundle' => BundleFiles'
    BY <1>0, <1>28, <2>0, Nothings DEF DiscardPreviousMeta, Bundle, PhaseSound, BundleFiles
  <2>d. ~Bundle' => RollbackFiles'
    BY <1>0, <1>28, <2>0, Nothings
       DEF DiscardPreviousMeta, Bundle, Installed, PhaseSound, Steps, CloseSteps, Files,
           RollbackFiles
  <2>e. QED
    BY <1>0, <2>0, <2>a, <2>b, <2>c, <2>d, SameTxn DEF Files
<1>29. CASE DiscardPreviousDir
  <2>0. UNCHANGED <<txn, New>> /\ txn.id # 0
    BY <1>0, <1>29, SameTxn DEF DiscardPreviousDir, PhaseSound, OutsideTxn, Keeping
  <2>a. running'.whole /\ FoundFiles'
    BY <1>0, <1>29, <2>0, Nothings DEF DiscardPreviousDir, Files, FoundFiles
  <2>b. Undoable' => UndoFiles'
    BY <1>0, <1>29, <2>0, Nothings DEF DiscardPreviousDir, Undoable, PhaseSound
  <2>c. Bundle' => BundleFiles'
    BY <1>0, <1>29, <2>0, Nothings DEF DiscardPreviousDir, Bundle, PhaseSound, BundleFiles
  <2>d. ~Bundle' => RollbackFiles'
    BY <1>0, <1>29, <2>0, Nothings
       DEF DiscardPreviousDir, Bundle, Installed, Steps, CloseSteps, Files, RollbackFiles
  <2>e. QED
    BY <1>0, <2>0, <2>a, <2>b, <2>c, <2>d, SameTxn DEF Files
<1>30. CASE CloseDir
  <2>0. UNCHANGED <<txn, New>> /\ txn.id # 0
    BY <1>0, <1>30, SameTxn DEF CloseDir, PhaseSound, OutsideTxn, Keeping
  <2>a. running'.whole /\ FoundFiles'
    BY <1>0, <1>30, <2>0, Nothings DEF CloseDir, Files, FoundFiles
  <2>b. Undoable' => UndoFiles'
    BY <1>0, <1>30, <2>0, Nothings
       DEF CloseDir, Kept, Undoable, Steps, CloseSteps, Closing, Files, UndoFiles
  <2>c. Bundle' => BundleFiles'
    BY <1>0, <1>30, <2>0, Nothings
       DEF CloseDir, Bundle, Kept, Installed, PastKeep, Files, BundleFiles
  <2>d. ~Bundle' => RollbackFiles'
    BY <1>0, <1>30, <2>0, Nothings DEF CloseDir, Bundle, Installed, Files, RollbackFiles
  <2>e. QED
    BY <1>0, <2>0, <2>a, <2>b, <2>c, <2>d, SameTxn DEF Files
<1>31. CASE CloseMeta
  <2>0. UNCHANGED <<txn, New>> /\ txn.id # 0
    BY <1>0, <1>31, SameTxn DEF CloseMeta, PhaseSound, OutsideTxn, Keeping
  <2>a. running'.whole /\ FoundFiles'
    BY <1>0, <1>31, <2>0, Nothings DEF CloseMeta, Files, FoundFiles
  <2>b. Undoable' => UndoFiles'
    BY <1>0, <1>31, <2>0, Nothings
       DEF CloseMeta, Kept, Undoable, Steps, CloseSteps, Closing, Files, UndoFiles
  <2>c. Bundle' => BundleFiles'
    BY <1>0, <1>31, <2>0, Nothings
       DEF CloseMeta, Bundle, Kept, Installed, PastKeep, Files, BundleFiles
  <2>d. ~Bundle' => RollbackFiles'
    BY <1>0, <1>31, <2>0, Nothings DEF CloseMeta, Bundle, Installed, Files, RollbackFiles
  <2>e. QED
    BY <1>0, <2>0, <2>a, <2>b, <2>c, <2>d, SameTxn DEF Files
<1>32. CASE CloseRecord
  <2>1. /\ txn' = NoTxn /\ UNCHANGED <<disk, running, recorded>> /\ pc = "closeRecord" /\ txn.id # 0
        /\ sup = NoTree /\ supMeta = NoMeta
    BY <1>0, <1>32 DEF CloseRecord, PhaseSound, OutsideTxn, RecordSound, Steps, CloseSteps
  <2>2. txn'.id = 0
    BY <2>1, BlankFields
  <2>3. CASE Undoable
    <3>1. /\ prev = base.prev /\ prevMeta = base.meta /\ code = base.code /\ liveJson = base.live
          /\ recorded \in {None, base.live}
      BY <1>0, <2>1, <2>3 DEF Steps, CloseSteps, Closing, Files, UndoFiles
    <3>2. ClosedFiles
      BY <1>0, <2>1, <3>1 DEF Files, FoundFiles, ClosedFiles
    <3>3. QED
      BY <1>0, <2>1, <2>2, <3>2 DEF Files, ClosedFiles
  <2>4. CASE ~Undoable
    <3>1. txn.phase = "switching" /\ recorded \in {None, txn.ref}
          /\ (Bundle \/ prevMeta # NoMeta \/ prev = NoTree)
      BY <1>0, <2>1, <2>4 DEF Steps, CloseSteps, Closing
    <3>2. Clean(code, liveJson, prev, prevMeta) /\ liveJson = txn.ref
      <4>1. CASE Bundle /\ Kept
        BY <1>0, <2>1, <3>1, <4>1, Nothings DEF Files, BundleFiles, PastKeep, Bundle, Kept, Clean
      <4>2. CASE Bundle /\ ~Kept
        BY <1>0, <2>1, <3>1, <4>2, Nothings DEF Files, BundleFiles, FoundFiles, Clean
      <4>3. CASE ~Bundle
        BY <1>0, <2>1, <3>1, <4>3, Nothings DEF Files, RollbackFiles, Installed, Clean
      <4>4. QED
        BY <4>1, <4>2, <4>3
    <3>3. QED
      BY <1>0, <2>1, <2>2, <3>1, <3>2 DEF Files, ClosedFiles
  <2>5. QED
    BY <2>3, <2>4
<1>33. CASE Rollback
  <2>1. /\ UNCHANGED <<code, liveJson, prev, sup, supMeta, txn, base, running, recorded, data,
           inbox>>
        /\ prevMeta' \in {prevMeta, PairedMeta(txn)} /\ ~Abandoning(txn)
    BY <1>33, NoTxnFields, <1>0 DEF Rollback, PhaseSound, Abandoning, AbandonPhases
  <2>2. QED
    BY <1>0, <2>1, SameFiles, PairingFiles
<1>34. CASE OpenRollback
  <2>1. /\ prevMeta # NoMeta /\ prev # NoTree /\ prev.whole
        /\ prev.ref = op.ref /\ prevMeta.ref = op.ref /\ op.ref # None
        /\ UNCHANGED <<disk, running, recorded, inbox>>
    BY <1>0, <1>34 DEF OpenRollback, Steps, CloseSteps
  <2>2. /\ txn'.id # 0 /\ txn'.source = "rollback" /\ txn'.phase = "committed" /\ txn'.ref = op.ref
    <3>1. CASE txn.id = 0 /\ OpenNew("rollback", op.ref, liveJson)
      BY <1>0, <3>1, OpenRecord
    <3>2. CASE SupersedeBy("rollback", op.ref, liveJson, "committed")
      BY <1>0, <3>2, NewRecord DEF SupersedeBy
    <3>3. QED
      BY <1>34, <3>1, <3>2 DEF OpenRollback
  <2>3. FoundFiles'
    <3>1. CASE txn.id = 0
      <4>1. /\ txn'.before = prevMeta /\ txn'.had = (prev # NoTree)
            /\ base'.code = code /\ base'.live = liveJson /\ base'.prev = prev
               /\ base'.meta = prevMeta
        <5>1. OpenNew("rollback", op.ref, liveJson)
          BY <1>34, <3>1 DEF OpenRollback
        <5>2. QED
          BY <1>0, <5>1, OpenRecord
      <4>2. QED
        BY <1>0, <2>1, <3>1, <4>1 DEF Files, ClosedFiles, FoundFiles
    <3>2. CASE txn.id # 0
      <4>1. txn'.before = txn.before /\ txn'.had = txn.had /\ UNCHANGED base
        BY <1>34, <3>2 DEF OpenRollback, SupersedeBy, NewTxn
      <4>2. QED
        BY <1>0, <2>1, <3>2, <4>1 DEF Files, FoundFiles
    <3>3. QED
      BY <3>1, <3>2
  <2>4. RollbackFiles'
    BY <2>1, <2>2 DEF RollbackFiles, Installed
  <2>5. QED
    BY <1>0, <2>1, <2>2, <2>3, <2>4 DEF Files, Bundle, Undoable, Abandoning, AbandonPhases
<1>35. CASE RestoreBegin
  <2>0. UNCHANGED <<txn, New>> /\ txn.id # 0
    BY <1>0, <1>35, SameTxn DEF RestoreBegin, PhaseSound, OutsideTxn, Keeping
  <2>a. running'.whole /\ FoundFiles'
    BY <1>0, <1>35, <2>0, Nothings DEF RestoreBegin, Files, FoundFiles
  <2>b. Undoable' => UndoFiles'
    BY <1>0, <1>35, <2>0, Nothings DEF RestoreBegin, Bundle, Undoable, PhaseSound
  <2>c. Bundle' => BundleFiles'
    BY <1>0, <1>35, <2>0, Nothings DEF RestoreBegin, Bundle, PhaseSound, BundleFiles
  <2>d. ~Bundle' => RollbackFiles'
    BY <1>0, <1>35, <2>0, Nothings DEF RestoreBegin, Bundle, Installed, Files, RollbackFiles
  <2>e. QED
    BY <1>0, <2>0, <2>a, <2>b, <2>c, <2>d, SameTxn DEF Files
<1>36. CASE RestoreEnd
  <2>0. UNCHANGED <<txn, New>> /\ txn.id # 0
    BY <1>0, <1>36, SameTxn DEF RestoreEnd, PhaseSound, OutsideTxn, Keeping
  <2>a. running'.whole /\ FoundFiles'
    BY <1>0, <1>36, <2>0, Nothings
       DEF RestoreEnd, Steps, CodeSteps, Ready, Files, FoundFiles, RollbackFiles
  <2>b. Undoable' => UndoFiles'
    BY <1>0, <1>36, <2>0, Nothings DEF RestoreEnd, Bundle, Undoable, PhaseSound
  <2>c. Bundle' => BundleFiles'
    BY <1>0, <1>36, <2>0, Nothings DEF RestoreEnd, Bundle, PhaseSound, BundleFiles
  <2>d. ~Bundle' => RollbackFiles'
    BY <1>0, <1>36, <2>0, Nothings DEF RestoreEnd, Bundle, Installed, Files, RollbackFiles
  <2>e. QED
    BY <1>0, <2>0, <2>a, <2>b, <2>c, <2>d, SameTxn DEF Files
<1>37. CASE RestoreFails
  <2>0. UNCHANGED <<txn, New>> /\ txn.id # 0
    BY <1>0, <1>37, SameTxn DEF RestoreFails, PhaseSound, OutsideTxn, Keeping
  <2>a. running'.whole /\ FoundFiles'
    BY <1>0, <1>37, <2>0, Nothings
       DEF RestoreFails, Steps, CodeSteps, Ready, Files, FoundFiles, RollbackFiles
  <2>b. Undoable' => UndoFiles'
    BY <1>0, <1>37, <2>0, Nothings DEF RestoreFails, Bundle, Undoable, PhaseSound
  <2>c. Bundle' => BundleFiles'
    BY <1>0, <1>37, <2>0, Nothings DEF RestoreFails, Bundle, PhaseSound, BundleFiles
  <2>d. ~Bundle' => RollbackFiles'
    BY <1>0, <1>37, <2>0, Nothings DEF RestoreFails, Bundle, Installed, Files, RollbackFiles
  <2>e. QED
    BY <1>0, <2>0, <2>a, <2>b, <2>c, <2>d, SameTxn DEF Files
<1>38. CASE AdvanceDataRestored
  <2>1. /\ AdvanceTo("data_restored") /\ txn.id # 0
        /\ UNCHANGED <<disk, base, running, data, recorded, inbox>>
    BY <1>0, <1>38 DEF AdvanceDataRestored, PhaseSound, OutsideTxn, Keeping
  <2>2. /\ txn'.id = txn.id /\ txn'.source = txn.source /\ txn'.before = txn.before
        /\ txn'.ref = txn.ref /\ txn'.replaced = txn.replaced /\ txn'.had = txn.had
        /\ txn'.touched = txn.touched /\ txn'.phase = "data_restored" /\ New' = New
    BY <1>0, <2>1, AdvanceSame DEF Phases
  <2>a. FoundFiles'
    BY <1>0, <2>1, <2>2 DEF Files, FoundFiles
  <2>b. Undoable' => Undoable /\ UndoFiles'
    BY <1>0, <1>38, <2>1, <2>2, Nothings DEF AdvanceDataRestored, Undoable
  <2>c. Bundle' => BundleFiles'
    BY <1>0, <1>38, <2>1, <2>2, Nothings DEF AdvanceDataRestored, Bundle, PhaseSound, BundleFiles
  <2>d. ~Bundle' => RollbackFiles'
    BY <1>0, <1>38, <2>1, <2>2, Nothings
       DEF AdvanceDataRestored, Bundle, Steps, CodeSteps, Ready, Files, RollbackFiles
  <2>e. Abandoning(txn)' => Undoable'
    BY <1>0, <1>38, <2>1, <2>2, Nothings DEF AdvanceDataRestored, Abandoning, AbandonPhases
  <2>f. QED
    BY <1>0, <2>1, <2>2, <2>a, <2>b, <2>c, <2>d, <2>e DEF Files
<1>39. CASE Abandon
  <2>1. /\ Undoable /\ Bundle
    BY <1>0, <1>39, ReachedPhases, TxnFields
       DEF Abandon, DataMayHaveChanged, PhaseSound, Undoable, Bundle, Phases
  <2>2. CASE UNCHANGED txn
    BY <1>0, <1>39, <2>2, SameFiles DEF Abandon
  <2>3. CASE AdvanceTo("abandoning") /\ txn.phase \in {"previous_kept", "installed"}
    <3>1. /\ AdvanceTo("abandoning") /\ txn.id # 0
          /\ UNCHANGED <<disk, base, running, data, recorded, inbox>>
      BY <1>0, <1>39, <2>3 DEF Abandon, PhaseSound, OutsideTxn, Keeping
    <3>2. /\ txn'.id = txn.id /\ txn'.source = txn.source /\ txn'.before = txn.before
          /\ txn'.ref = txn.ref /\ txn'.replaced = txn.replaced /\ txn'.had = txn.had
          /\ txn'.touched = txn.touched /\ txn'.phase = "abandoning" /\ New' = New
      BY <1>0, <3>1, AdvanceSame DEF Phases
    <3>a. FoundFiles'
      BY <1>0, <3>1, <3>2, <2>1 DEF Files, FoundFiles
    <3>b. Undoable' => Undoable /\ UndoFiles'
      BY <1>0, <1>39, <3>1, <3>2, <2>1, Nothings DEF Abandon, Kept, Files, UndoFiles
    <3>c. Bundle' => BundleFiles'
      BY <1>0, <1>39, <3>1, <3>2, <2>1, Nothings
         DEF Abandon, Kept, Installed, PastKeep, Files, BundleFiles
    <3>d. ~Bundle' => RollbackFiles'
      BY <1>0, <1>39, <3>1, <3>2, <2>1, Nothings DEF Abandon, Bundle
    <3>e. Abandoning(txn)' => Undoable'
      BY <1>0, <1>39, <3>1, <3>2, <2>1, Nothings DEF Abandon, Bundle, Undoable
    <3>f. QED
      BY <1>0, <3>1, <3>2, <2>1, <3>a, <3>b, <3>c, <3>d, <3>e DEF Files
  <2>4. QED
    BY <1>39, <2>2, <2>3 DEF Abandon
<1>40. CASE CodeRestored
  <2>1. /\ AdvanceTo("abandoned_code") /\ txn.id # 0
        /\ UNCHANGED <<disk, base, running, data, recorded, inbox>>
    BY <1>0, <1>40 DEF CodeRestored, PhaseSound, OutsideTxn, Keeping
  <2>2. /\ txn'.id = txn.id /\ txn'.source = txn.source /\ txn'.before = txn.before
        /\ txn'.ref = txn.ref /\ txn'.replaced = txn.replaced /\ txn'.had = txn.had
        /\ txn'.touched = txn.touched /\ txn'.phase = "abandoned_code" /\ New' = New
    BY <1>0, <2>1, AdvanceSame DEF Phases
  <2>a. FoundFiles'
    BY <1>0, <2>1, <2>2 DEF Files, FoundFiles
  <2>b. Undoable' => Undoable /\ UndoFiles'
    BY <1>0, <1>40, <2>1, <2>2, Nothings DEF CodeRestored, Kept, Steps, CodeSteps, Files, UndoFiles
  <2>c. Bundle' => BundleFiles'
    BY <1>0, <1>40, <2>1, <2>2, Nothings
       DEF CodeRestored, Bundle, Kept, Installed, PastKeep, Files, BundleFiles
  <2>d. ~Bundle' => RollbackFiles'
    BY <1>0, <1>40, <2>1, <2>2, Nothings DEF CodeRestored, Bundle, Undoable, Steps, CodeSteps
  <2>e. Abandoning(txn)' => Undoable'
    BY <1>0, <1>40, <2>1, <2>2, Nothings DEF CodeRestored, Bundle, Undoable, Steps, CodeSteps
  <2>f. QED
    BY <1>0, <2>1, <2>2, <2>a, <2>b, <2>c, <2>d, <2>e DEF Files
<1>41. CASE Drop
  BY <1>0, <1>41, SameFiles DEF Drop, TakeSnapshot
<1>42. CASE RescueDir
  BY <1>0, <1>42 DEF RescueDir, RecordSound
<1>43. CASE RescueMeta
  BY <1>0, <1>43 DEF RescueMeta, RecordSound
<1>44. CASE RedeploySnapshot
  BY <1>0, <1>44, SameFiles DEF RedeploySnapshot, TakeSnapshot
<1>45. CASE RedeployStart
  <2>1. txn.id = 0 /\ UNCHANGED <<txn, disk>> /\ running' \in {running, code}
        /\ recorded' \in {recorded, liveJson}
    BY <1>0, <1>45 DEF RedeployStart, Steps, CloseSteps
  <2>2. QED
    BY <1>0, <2>1 DEF Files, ClosedFiles, Clean
<1>46. CASE OtherStart
  <2>1. txn.id = 0 /\ UNCHANGED <<txn, disk>> /\ running' \in {running, code}
        /\ recorded' \in {recorded, liveJson}
    BY <1>0, <1>46 DEF OtherStart, Steps, CloseSteps
  <2>2. QED
    BY <1>0, <2>1 DEF Files, ClosedFiles, Clean
<1>47. CASE InboxClean
  BY <1>47 DEF InboxClean
<1>48. CASE Tamper
  BY <1>48 DEF Tamper
<1>49. ASSUME NEW r \in Refs, Deploy(r) PROVE Files'
  <2>1. /\ UNCHANGED <<code, liveJson, prev, sup, supMeta, txn, base, running, recorded, data,
           inbox>>
        /\ prevMeta' = PairedMeta(txn) /\ ~Abandoning(txn)
    BY <1>49 DEF Deploy
  <2>2. QED
    BY <1>0, <2>1, PairingFiles
<1>50. ASSUME NEW r \in Refs, Upload(r) PROVE Files'
  BY <1>0, <1>50, SameFiles DEF Upload
<1>51. CASE UNCHANGED vars
  BY <1>0, <1>51, SameFiles DEF vars
<1>52. QED
  BY <1>1, <1>2, <1>3, <1>4, <1>5, <1>6, <1>7, <1>8, <1>9, <1>10, <1>11, <1>12,
     <1>13, <1>14, <1>15, <1>16, <1>17, <1>18, <1>19, <1>20, <1>21, <1>22, <1>23, <1>24,
     <1>25, <1>26, <1>27, <1>28, <1>29, <1>30, <1>31, <1>32, <1>33, <1>34, <1>35, <1>36,
     <1>37, <1>38, <1>39, <1>40, <1>41, <1>42, <1>43, <1>44, <1>45, <1>46, <1>47, <1>48,
     <1>49, <1>50, <1>51
     DEF Next, Request, Fault, CoreStep

\* It leaves the core where its files allow.
LEMMA StepsStep == ~InboxCleans /\ FilesInv /\ [Next]_vars /\ ~tampered' => Steps'
<1> SUFFICES ASSUME ~InboxCleans, FilesInv, [Next]_vars, ~tampered' PROVE Steps'
  OBVIOUS
<1> USE DEF Goto, Done, disk, log, world
<1>0. /\ TypeOK /\ OpOK /\ PhaseSound /\ RecordSound /\ txn \in Txns /\ op \in Ops /\ Files /\ Steps
  BY TamperStays DEF RecordInv, FilesInv, FilesSound, TypeOK
<1>1. CASE Crash
  BY <1>1, IdleSteps, NoOpFields DEF Crash
<1>2. CASE PreDeploySnapshot
  <2>1. op'.tree = op.tree /\ op'.then = op.then
    <3>1. TakeSnapshot \/ op' = [op EXCEPT !.snap = 0]
      BY <1>2 DEF PreDeploySnapshot
    <3>2. CASE TakeSnapshot
      BY <1>0, <3>2, SnapshotOp
    <3>3. CASE op' = [op EXCEPT !.snap = 0]
      BY <1>0, <3>3, SnapOp
    <3>4. QED
      BY <3>1, <3>2, <3>3
  <2>2. UNCHANGED <<txn, New>>
    BY <1>2, SameTxn DEF PreDeploySnapshot
  <2>3. QED
    BY <1>0, <1>2, <2>1, <2>2
       DEF PreDeploySnapshot, Steps, KeepSteps, CodeSteps, CloseSteps, Closing, Installing,
           Ready, Keeping
<1>3. CASE OpenTxn
  <2>1. op'.tree = op.tree /\ op'.then = "keep" /\ op.tree
    BY <1>0, <1>3, ThenOp DEF OpenTxn, Steps, CloseSteps
  <2>2. /\ txn'.source = "bundle" /\ txn'.phase = "committed"
        /\ txn'.replaced = (IF Deployed THEN liveJson ELSE None)
        /\ pc' = IF txn'.replaced = None THEN "kept" ELSE "undoDir"
    BY <1>0, <1>3 DEF OpenTxn, OpenNew, NewTxn, TypeOK
  <2>3. QED
    BY <2>1, <2>2
       DEF Steps, KeepSteps, CodeSteps, CloseSteps, Closing, Installing, Ready, Keeping, Bundle,
           Kept
<1>4. CASE UndoDropPrev
  <2>1. UNCHANGED <<txn, New>>
    BY <1>4, SameTxn DEF UndoDropPrev
  <2>2. QED
    BY <1>0, <1>4, <2>1
       DEF UndoDropPrev, Steps, KeepSteps, CodeSteps, CloseSteps, Closing, Installing, Bundle, Kept
<1>5. CASE UndoDir
  <2>1. UNCHANGED <<txn, base, New, op>> /\ pc = "undoDir" /\ pc' = "undoMeta"
    BY <1>5, SameTxn DEF UndoDir
  <2>2. Bundle /\ (Kept => Undoable) /\ FoundFiles /\ BundleFiles /\ (Undoable => UndoFiles)
    BY <1>0, <2>1
       DEF Files, PhaseSound, OutsideTxn, Steps, CloseSteps, BundleFiles, Undoable, Abandoning,
           AbandonPhases
  <2>3. prev' = base.prev /\ sup' = NoTree
    BY <1>5, <2>2 DEF UndoDir, FoundFiles, BundleFiles, UndoFiles
  <2>4. QED
    BY <1>0, <2>1, <2>3
       DEF Steps, KeepSteps, CodeSteps, CloseSteps, Closing, Installing, Ready, Keeping, Kept,
           Bundle
<1>6. CASE UndoDropMeta
  <2>1. UNCHANGED <<txn, New>>
    BY <1>6, SameTxn DEF UndoDropMeta
  <2>2. QED
    BY <1>0, <1>6, <2>1
       DEF UndoDropMeta, Steps, KeepSteps, CodeSteps, CloseSteps, Closing, Installing, Bundle, Kept
<1>7. CASE UndoMeta
  <2>1. UNCHANGED <<txn, base, New, op, prev, sup>> /\ pc = "undoMeta" /\ pc' = AfterUndo
        /\ txn.id # 0
    BY <1>0, <1>7, SameTxn DEF UndoMeta, PhaseSound, OutsideTxn, Keeping
  <2>2. /\ Bundle /\ Undoable /\ FoundFiles /\ UndoFiles /\ prev = base.prev /\ sup = NoTree
        /\ txn.phase \in {"committed", "abandoned_code"} /\ supMeta \in {NoMeta, txn.before}
    BY <1>0, <2>1
       DEF Files, PhaseSound, RecordSound, Steps, KeepSteps, CloseSteps, BundleFiles, Undoable,
           Abandoning, AbandonPhases
  <2>3. prevMeta' = base.meta
    BY <1>7, <2>2 DEF UndoMeta, FoundFiles, UndoFiles
  <2>4. CASE pc' = "keepAside" /\ op.then = "keep"
    BY <1>0, <2>1, <2>2, <2>4
       DEF Steps, KeepSteps, CodeSteps, CloseSteps, Closing, Installing, Ready, Kept, Bundle
  <2>5. CASE pc' = "closeDir"
    BY <1>0, <2>1, <2>2, <2>3, <2>5
       DEF Steps, KeepSteps, CodeSteps, CloseSteps, Installing, Ready, Keeping, Bundle, Undoable
  <2>6. QED
    BY <2>1, <2>4, <2>5 DEF AfterUndo
<1>8. CASE KeepAside
  <2>1. UNCHANGED <<txn, New>>
    BY <1>8, SameTxn DEF KeepAside
  <2>2. QED
    BY <1>0, <1>8, <2>1
       DEF KeepAside, Steps, KeepSteps, CodeSteps, CloseSteps, Closing, Installing, Ready,
           Bundle, Kept, Keeping
<1>9. CASE KeepAsideMeta
  <2>1. UNCHANGED <<txn, New>>
    BY <1>9, SameTxn DEF KeepAsideMeta
  <2>2. QED
    BY <1>0, <1>9, <2>1
       DEF KeepAsideMeta, Steps, KeepSteps, CodeSteps, CloseSteps, Closing, Installing, Ready,
           Bundle, Kept, Keeping
<1>10. CASE KeepDir
  <2>1. UNCHANGED <<txn, New>>
    BY <1>10, SameTxn DEF KeepDir
  <2>2. QED
    BY <1>0, <1>10, <2>1
       DEF KeepDir, Steps, KeepSteps, CodeSteps, CloseSteps, Closing, Installing, Ready, Bundle,
           Kept, Keeping
<1>11. CASE KeepMeta
  <2>1. UNCHANGED <<txn, base, New, op, prev, sup, supMeta>> /\ pc = "keepMeta" /\ pc' = "kept"
        /\ txn.id # 0
    BY <1>0, <1>11, SameTxn DEF KeepMeta, PhaseSound, OutsideTxn, Keeping
  <2>2. Bundle /\ Undoable /\ FoundFiles /\ UndoFiles /\ prev = code /\ supMeta = txn.before
        /\ txn.phase = "committed" /\ op.tree
    BY <1>0, <2>1
       DEF Files, PhaseSound, Keeping, RecordSound, Steps, KeepSteps, CloseSteps, BundleFiles,
           Undoable
  <2>3. prevMeta'.ref = txn.replaced
    BY <1>11 DEF KeepMeta, KeptMeta
  <2>4. QED
    BY <1>0, <2>1, <2>2, <2>3
       DEF Steps, KeepSteps, CodeSteps, CloseSteps, Closing, Installing, Ready, Keeping, Bundle,
           FoundFiles, UndoFiles
<1>12. CASE KeepFails
  <2>1. op'.tree = op.tree /\ op'.then = "close" /\ UNCHANGED <<txn, New>>
    BY <1>0, <1>12, ThenOp, SameTxn DEF KeepFails
  <2>2. QED
    BY <1>0, <1>12, <2>1
       DEF KeepFails, Steps, KeepSteps, CodeSteps, CloseSteps, Closing, Installing, Ready,
           Bundle, Keeping
<1>13. CASE AdvanceKept
  <2>1. /\ AdvanceTo("previous_kept") /\ txn.id # 0
        /\ UNCHANGED <<disk, base, running, data, recorded, inbox>>
    BY <1>0, <1>13 DEF AdvanceKept, PhaseSound, OutsideTxn, Keeping
  <2>2. /\ txn'.id = txn.id /\ txn'.source = txn.source /\ txn'.before = txn.before
        /\ txn'.ref = txn.ref /\ txn'.replaced = txn.replaced /\ txn'.had = txn.had
        /\ txn'.touched = txn.touched /\ txn'.phase = "previous_kept" /\ New' = New
    BY <1>0, <2>1, AdvanceSame DEF Phases
  <2>3. QED
    BY <1>0, <1>13, <2>1, <2>2
       DEF AdvanceKept, Steps, KeepSteps, CodeSteps, CloseSteps, Closing, Ready, Bundle,
           Installed, Keeping
<1>14. CASE OverRollbackSnapshot
  <2>1. op'.tree = op.tree /\ op'.then = op.then
    BY <1>0, <1>14, SnapshotOp, SnapOp DEF OverRollbackSnapshot
  <2>2. UNCHANGED <<txn, New>>
    BY <1>14, SameTxn DEF OverRollbackSnapshot
  <2>3. QED
    BY <1>0, <1>14, <2>1, <2>2
       DEF OverRollbackSnapshot, Steps, KeepSteps, CodeSteps, CloseSteps, Closing, Installing,
           Ready, Bundle, PastKeep, Keeping
<1>15. CASE Supersede
  <2>1. txn'.source = "bundle" /\ pc' = "pair" /\ op.tree /\ UNCHANGED op
    BY <1>0, <1>15 DEF Supersede, SupersedeBy, NewTxn, Steps, CloseSteps
  <2>2. QED
    BY <2>1 DEF Steps, KeepSteps, CodeSteps, CloseSteps, Closing, Installing, Ready, Keeping, Bundle
<1>16. CASE EnsurePairing
  <2>1. UNCHANGED <<txn, op>> /\ pc' = "install" /\ op.tree /\ Bundle /\ txn.phase = "previous_kept"
    BY <1>0, <1>16 DEF EnsurePairing, Steps, CloseSteps, PhaseSound
  <2>2. QED
    BY <2>1 DEF Steps, KeepSteps, CodeSteps, CloseSteps, Closing, Ready, Keeping, Bundle, Installed
<1>17. CASE InstallBegin
  <2>1. UNCHANGED <<txn, New>>
    BY <1>17, SameTxn DEF InstallBegin
  <2>2. QED
    BY <1>0, <1>17, <2>1
       DEF InstallBegin, Steps, KeepSteps, CodeSteps, CloseSteps, Closing, Installing, Ready,
           Bundle, Installed, Abandoning, AbandonPhases, Keeping
<1>18. CASE InstallEnd
  <2>1. UNCHANGED <<txn, New, base, op, prev, prevMeta, inbox>> /\ pc = "installing"
        /\ pc' = "markLive" /\ txn.id # 0
    BY <1>0, <1>18, SameTxn DEF InstallEnd, PhaseSound, OutsideTxn, Keeping
  <2>2. Abandoning(txn) => code' = base.code
    <3>1. Abandoning(txn) => Bundle /\ Undoable /\ UndoFiles /\ txn.phase = "abandoning"
      BY <1>0, <2>1 DEF Files, Steps, CodeSteps, Installing, Abandoning, AbandonPhases
    <3>2. QED
      BY <1>18, <3>1 DEF InstallEnd, TreeToInstall, UndoFiles, Kept
  <2>3. ~Abandoning(txn) => code' = IF Bundle THEN New ELSE prev
    BY <1>0, <1>18, TxnFields DEF InstallEnd, TreeToInstall, New, Bundle
  <2>4. QED
    BY <1>0, <2>1, <2>2, <2>3
       DEF Steps, KeepSteps, CodeSteps, CloseSteps, Closing, Installing, Ready, Keeping, Bundle,
           Installed
<1>19. CASE MarkLive
  <2>1. UNCHANGED <<txn, New, base, op, code, prev, prevMeta>> /\ pc = "markLive" /\ txn.id # 0
    BY <1>0, <1>19, SameTxn DEF MarkLive, PhaseSound, OutsideTxn, Keeping
  <2>2. CASE Abandoning(txn)
    <3>1. Undoable /\ UndoFiles /\ code = base.code
      BY <1>0, <2>1, <2>2 DEF Files, Steps, CodeSteps, Bundle, Undoable
    <3>2. pc' = "codeRestored" /\ liveJson' = base.live
      BY <1>19, <2>2, <3>1 DEF MarkLive, UndoFiles
    <3>3. QED
      BY <1>0, <2>1, <3>1, <3>2, SameTxn
         DEF Steps, KeepSteps, CodeSteps, CloseSteps, Closing, Installing, Ready, Keeping
  <2>3. CASE ~Abandoning(txn)
    <3>1. /\ liveJson' = txn.ref /\ code = (IF Bundle THEN New ELSE prev)
          /\ pc' = IF Installed THEN "onInstalled" ELSE "installed"
      BY <1>0, <1>19, <2>1, <2>3, ReachedPhases DEF MarkLive, Steps, CodeSteps, Installed
    <3>2. /\ ~Bundle => txn.phase = "committed" /\ prevMeta # NoMeta
          /\ Bundle => Installed \/ txn.phase = "previous_kept"
      BY <1>0, <2>1, <2>3 DEF Steps, CodeSteps, Installing, Installed, Abandoning, AbandonPhases
    <3>3. QED
      BY <1>0, <2>1, <2>3, <3>1, <3>2, SameTxn
         DEF Steps, KeepSteps, CodeSteps, CloseSteps, Closing, Installing, Keeping, Installed
  <2>4. QED
    BY <2>2, <2>3
<1>20. CASE AdvanceInstalled
  <2>1. /\ AdvanceTo("installed") /\ txn.id # 0
        /\ UNCHANGED <<disk, base, running, data, recorded, inbox>>
    BY <1>0, <1>20 DEF AdvanceInstalled, PhaseSound, OutsideTxn, Keeping
  <2>2. /\ txn'.id = txn.id /\ txn'.source = txn.source /\ txn'.before = txn.before
        /\ txn'.ref = txn.ref /\ txn'.replaced = txn.replaced /\ txn'.had = txn.had
        /\ txn'.touched = txn.touched /\ txn'.phase = "installed" /\ New' = New
    BY <1>0, <2>1, AdvanceSame DEF Phases
  <2>3. pc = "installed" /\ pc' \in {"restore", "onInstalled"} /\ UNCHANGED op
        /\ (pc' = "onInstalled" => Bundle)
    BY <1>0, <1>20, TxnFields DEF AdvanceInstalled, Bundle
  <2>4. /\ ~Abandoning(txn) /\ liveJson = txn.ref /\ code = (IF Bundle THEN New ELSE prev)
        /\ ~Bundle => prevMeta # NoMeta
    BY <1>0, <2>3 DEF Steps, CodeSteps, Installing, Ready
  <2>5. /\ Bundle' = Bundle /\ Installed' /\ ~Abandoning(txn)' /\ (op.then = "reopen" => op.tree)
    BY <1>0, <2>2, <2>3, <2>4 DEF Bundle, Installed, Abandoning, AbandonPhases, Steps, CloseSteps
  <2>6. QED
    BY <2>1, <2>2, <2>3, <2>4, <2>5
       DEF Steps, KeepSteps, CodeSteps, CloseSteps, Closing, Installing, Keeping
<1>21. CASE OnInstalled
  <2>1. UNCHANGED <<txn, New>>
    BY <1>21, SameTxn DEF OnInstalled
  <2>2. CASE pc' = "idle"
    BY <1>21, <2>2, IdleSteps, NoOpFields DEF OnInstalled
  <2>3. CASE pc' = "hook"
    BY <1>0, <1>21, <2>1, <2>3
       DEF OnInstalled, Steps, KeepSteps, CodeSteps, CloseSteps, Closing, Installing, Ready,
           Bundle, Installed, Keeping
  <2>4. QED
    BY <1>21, <2>2, <2>3 DEF OnInstalled
<1>22. CASE AdvanceHookStarted
  <2>1. CASE UNCHANGED txn /\ Reached(txn, "hook_started")
    <3>1. UNCHANGED New /\ txn.phase \in {"hook_started", "switching"}
      BY <1>0, <2>1, SameTxn, ReachedPhases
    <3>2. QED
      BY <1>0, <1>22, <2>1, <3>1
         DEF AdvanceHookStarted, Steps, KeepSteps, CodeSteps, CloseSteps, Closing, Installing,
             Ready, Bundle, Keeping
  <2>2. CASE AdvanceTo("hook_started")
    <3>1. /\ AdvanceTo("hook_started") /\ txn.id # 0
          /\ UNCHANGED <<disk, base, running, data, recorded, inbox>>
      BY <1>0, <1>22, <2>2 DEF AdvanceHookStarted, PhaseSound, OutsideTxn, Keeping
    <3>2. /\ txn'.id = txn.id /\ txn'.source = txn.source /\ txn'.before = txn.before
          /\ txn'.ref = txn.ref /\ txn'.replaced = txn.replaced /\ txn'.had = txn.had
          /\ txn'.touched = txn.touched /\ txn'.phase = "hook_started" /\ New' = New
      BY <1>0, <3>1, AdvanceSame DEF Phases
    <3>3. QED
      BY <1>0, <1>22, <3>1, <3>2
         DEF AdvanceHookStarted, Steps, KeepSteps, CodeSteps, CloseSteps, Closing, Installing,
             Ready, Bundle, Abandoning, AbandonPhases, Keeping
  <2>3. QED
    BY <1>22, <2>1, <2>2 DEF AdvanceHookStarted
<1>23. CASE RunHook
  <2>1. UNCHANGED <<txn, New>>
    BY <1>23, SameTxn DEF RunHook
  <2>2. QED
    BY <1>0, <1>23, <2>1
       DEF RunHook, Steps, KeepSteps, CodeSteps, CloseSteps, Closing, Installing, Ready, Bundle,
           Keeping
<1>24. CASE HookFails
  BY <1>24, IdleSteps, NoOpFields DEF HookFails
<1>25. CASE AdvanceSwitching
  <2>1. CASE UNCHANGED txn /\ Reached(txn, "switching")
    <3>1. UNCHANGED New /\ txn.phase \in {"hook_started", "switching"}
      BY <1>0, <2>1, SameTxn, ReachedPhases
    <3>2. QED
      BY <1>0, <1>25, <2>1, <3>1
         DEF AdvanceSwitching, Steps, KeepSteps, CodeSteps, CloseSteps, Closing, Installing,
             Ready, Bundle, Keeping
  <2>2. CASE AdvanceTo("switching")
    <3>1. /\ AdvanceTo("switching") /\ txn.id # 0
          /\ UNCHANGED <<disk, base, running, data, recorded, inbox>>
      BY <1>0, <1>25, <2>2 DEF AdvanceSwitching, PhaseSound, OutsideTxn, Keeping
    <3>2. /\ txn'.id = txn.id /\ txn'.source = txn.source /\ txn'.before = txn.before
          /\ txn'.ref = txn.ref /\ txn'.replaced = txn.replaced /\ txn'.had = txn.had
          /\ txn'.touched = txn.touched /\ txn'.phase = "switching" /\ New' = New
      BY <1>0, <3>1, AdvanceSame DEF Phases
    <3>3. QED
      BY <1>0, <1>25, <3>1, <3>2
         DEF AdvanceSwitching, Steps, KeepSteps, CodeSteps, CloseSteps, Closing, Installing,
             Ready, Bundle, Abandoning, AbandonPhases, Keeping
  <2>3. QED
    BY <1>25, <2>1, <2>2 DEF AdvanceSwitching
<1>26. CASE StartRelease
  <2>1. op'.tree = op.tree /\ op'.then = op.then /\ UNCHANGED <<txn, New>>
    <3>1. op' \in {[op EXCEPT !.ok = TRUE], [op EXCEPT !.ok = FALSE]} /\ UNCHANGED txn
      BY <1>26 DEF StartRelease
    <3>2. \A b \in BOOLEAN : [op EXCEPT !.ok = b].tree = op.tree
          /\ [op EXCEPT !.ok = b].then = op.then
      BY <1>0, OkOp
    <3>3. op'.tree = op.tree /\ op'.then = op.then
      BY <3>1, <3>2
    <3>4. QED
      BY <3>1, <3>3, SameTxn
  <2>2. QED
    BY <1>0, <1>26, <2>1
       DEF StartRelease, Steps, KeepSteps, CodeSteps, CloseSteps, Closing, Installing, Ready,
           Bundle, Keeping
<1>27. CASE RecordDeploy
  <2>1. UNCHANGED <<txn, New, op, base, prev, prevMeta, sup>> /\ pc = "record"
        /\ txn.phase = "switching"
        /\ (Bundle \/ prevMeta # NoMeta)
    BY <1>0, <1>27, SameTxn DEF RecordDeploy, PhaseSound, Steps, CodeSteps, Ready
  <2>2. /\ recorded' \in {None, txn.ref}
        /\ pc' = "closeDir" \/ (pc' = "discardMeta" /\ recorded' = txn.ref)
    BY <1>27 DEF RecordDeploy
  <2>3. QED
    BY <1>0, <2>1, <2>2
       DEF Steps, KeepSteps, CodeSteps, CloseSteps, Installing, Ready, Keeping, Undoable, Bundle
<1>28. CASE DiscardPreviousMeta
  <2>1. UNCHANGED <<txn, New>>
    BY <1>28, SameTxn DEF DiscardPreviousMeta
  <2>2. QED
    BY <1>0, <1>28, <2>1
       DEF DiscardPreviousMeta, Steps, KeepSteps, CodeSteps, CloseSteps, Closing, Installing,
           Ready, Keeping
<1>29. CASE DiscardPreviousDir
  <2>1. UNCHANGED <<txn, New>>
    BY <1>29, SameTxn DEF DiscardPreviousDir
  <2>2. QED
    BY <1>0, <1>29, <2>1
       DEF DiscardPreviousDir, Steps, KeepSteps, CodeSteps, CloseSteps, Installing, Ready,
           Undoable, PhaseSound, Keeping
<1>30. CASE CloseDir
  <2>1. UNCHANGED <<txn, New>>
    BY <1>30, SameTxn DEF CloseDir
  <2>2. QED
    BY <1>0, <1>30, <2>1
       DEF CloseDir, Steps, KeepSteps, CodeSteps, CloseSteps, Closing, Installing, Ready,
           Bundle, Undoable, PhaseSound, Keeping
<1>31. CASE CloseMeta
  <2>1. UNCHANGED <<txn, New>>
    BY <1>31, SameTxn DEF CloseMeta
  <2>2. QED
    BY <1>0, <1>31, <2>1
       DEF CloseMeta, Steps, KeepSteps, CodeSteps, CloseSteps, Closing, Installing, Ready,
           Bundle, Undoable, PhaseSound, Keeping
<1>32. CASE CloseRecord
  <2>1. CASE pc' = "idle"
    BY <1>32, <2>1, IdleSteps, NoOpFields DEF CloseRecord
  <2>2. CASE pc' = "snapshot"
    <3>1. op.tree /\ UNCHANGED op
      BY <1>0, <1>32, <2>2 DEF CloseRecord, Steps, CloseSteps
    <3>2. QED
      BY <2>2, <3>1 DEF Steps, KeepSteps, CodeSteps, CloseSteps, Closing, Installing, Ready, Keeping
  <2>3. QED
    BY <1>32, <2>1, <2>2 DEF CloseRecord
<1>33. CASE Rollback
  <2>1. /\ UNCHANGED <<txn, New, base, code, liveJson, prev, sup, recorded, inbox>>
           /\ ~Abandoning(txn)
    BY <1>0, <1>33, SameTxn, NoTxnFields DEF Rollback, PhaseSound, Abandoning, AbandonPhases
  <2>2. CASE RollbackFinished /\ pc' = "discardMeta" /\ op' = NoOp
    <3>1. ~Bundle /\ txn.id # 0 /\ prevMeta = NoMeta
      BY <1>0, <2>2, BlankFields DEF RollbackFinished, Bundle, PhaseSound
    <3>2. QED
      BY <1>0, <2>1, <2>2, <3>1, NoOpFields
         DEF Files, RollbackFiles, Steps, KeepSteps, CodeSteps, CloseSteps, Closing, Installing,
             Ready, Keeping
  <2>3. CASE ~RollbackFinished
    <3>1. /\ prevMeta' = PairedMeta(txn) /\ prevMeta' # NoMeta /\ prev # NoTree
          /\ pc' = RollbackStep /\ op'.ref = prevMeta'.ref /\ op'.tree /\ op'.then = ""
      BY <1>33, <2>3, Blanks, NoOpFields DEF Rollback, Ops
    <3>2. CASE Bundle
      <4>1. pc' = "openRollback"
        BY <1>0, <3>1, <3>2 DEF RollbackStep, Bundle
      <4>2. prev.whole /\ prev.ref = prevMeta'.ref /\ prevMeta'.ref # None
        <5>1. CASE txn.id = 0
          <6>1. prevMeta' = prevMeta
            BY <3>1, <5>1 DEF PairedMeta, PairsKept
          <6>2. QED
            BY <1>0, <3>1, <5>1, <6>1 DEF Files, ClosedFiles, Clean
        <5>2. CASE txn.id # 0 /\ Kept
          <6>1. PastKeep
            BY <1>0, <1>33, <2>1, <3>2, <5>2, ReachedPhases, TxnFields
               DEF Rollback, DataMayHaveChanged, PhaseSound, PastKeep, Bundle, Abandoning,
                   AbandonPhases, Phases, Files, BundleFiles
          <6>2. prevMeta'.ref = txn.replaced
            BY <1>0, <3>1, <3>2, <5>2, <6>1 DEF PairedMeta, KeptMeta, Files, BundleFiles
          <6>3. QED
            BY <1>0, <3>2, <5>2, <6>1, <6>2 DEF Files, BundleFiles, Kept
        <5>3. CASE txn.id # 0 /\ ~Kept
          <6>1. prevMeta' = prevMeta
            BY <3>1, <5>3 DEF PairedMeta, PairsKept, Kept
          <6>2. QED
            BY <1>0, <3>1, <3>2, <5>3, <6>1 DEF Files, FoundFiles, BundleFiles, Clean
        <5>4. QED
          BY <5>1, <5>2, <5>3
      <4>3. Bundle' /\ prev' = prev /\ op'.then # "reopen"
        BY <2>1, <3>1, <3>2, SameTxn
      <4>4. KeepSteps' /\ CodeSteps'
        BY <3>1, <4>1, <4>3 DEF KeepSteps, CodeSteps, Installing, Ready, Keeping
      <4>5. CloseSteps'
        BY <3>1, <4>1, <4>2, <4>3 DEF CloseSteps, Closing, Keeping
      <4>6. QED
        BY <4>4, <4>5 DEF Steps
    <3>3. CASE ~Bundle
      <4>1. txn.source = "rollback" /\ txn.id # 0 /\ prevMeta' = prevMeta
        BY <1>0, <3>1, <3>3, TxnFields, BlankFields DEF Bundle, PhaseSound, PairedMeta, PairsKept
      <4>2. /\ pc' \in {"install", "restore", "hook", "generate"}
            /\ pc' = "install" => txn.phase = "committed"
            /\ pc' # "install" => Installed
            /\ pc' = "generate" => txn.phase = "switching"
        BY <1>0, <2>1, <3>1, <3>3, <4>1, ReachedPhases, TxnFields
           DEF RollbackStep, Installed, Files, RollbackFiles, Abandoning, AbandonPhases, Phases
      <4>3. Installed => code = prev /\ liveJson = txn.ref
        BY <1>0, <3>1, <3>3, <4>1 DEF Files, RollbackFiles
      <4>4. /\ UNCHANGED <<txn, New, Bundle, Kept, Installed, Undoable, PastKeep, code, prev,
               liveJson>>
            /\ ~Abandoning(txn)' /\ ~Bundle' /\ prevMeta' # NoMeta /\ ~Abandoning(txn)
            /\ op'.then = "" /\ op'.tree
        <5>1. UNCHANGED <<New, Bundle, Kept, Installed, Undoable, PastKeep>> /\ ~Abandoning(txn)'
          BY <2>1, SameTxn
        <5>2. UNCHANGED <<txn, code, prev, liveJson>> /\ ~Abandoning(txn)
          BY <2>1
        <5>3. ~Bundle'
          BY <3>3, <5>1
        <5>4. prevMeta' # NoMeta /\ op'.then = "" /\ op'.tree
          BY <3>1
        <5>5. QED
          BY <5>1, <5>2, <5>3, <5>4
      <4>5. KeepSteps'
        BY <4>2, <4>4 DEF KeepSteps, Keeping
      <4>6. CodeSteps'
        BY <4>2, <4>3, <4>4 DEF CodeSteps, Installing, Ready
      <4>7. CloseSteps'
        BY <4>2, <4>4 DEF CloseSteps, Keeping, Closing
      <4>8. QED
        BY <4>5, <4>6, <4>7 DEF Steps
    <3>4. QED
      BY <3>2, <3>3
  <2>4. QED
    BY <1>33, <2>2, <2>3 DEF Rollback
<1>34. CASE OpenRollback
  <2>1. /\ pc' = "install" /\ op.tree /\ prevMeta # NoMeta /\ UNCHANGED <<op, prevMeta>>
    BY <1>0, <1>34 DEF OpenRollback, Steps, CloseSteps
  <2>2. txn'.source = "rollback" /\ txn'.phase = "committed"
    BY <1>0, <1>34, OpenNewFields, SupersedeFields DEF OpenRollback
  <2>3. QED
    BY <2>1, <2>2 DEF Steps, KeepSteps, CodeSteps, CloseSteps, Closing, Ready, Keeping, Bundle
<1>35. CASE RestoreBegin
  <2>1. UNCHANGED <<txn, New>>
    BY <1>35, SameTxn DEF RestoreBegin
  <2>2. QED
    BY <1>0, <1>35, <2>1
       DEF RestoreBegin, Steps, KeepSteps, CodeSteps, CloseSteps, Closing, Installing, Ready,
           Bundle, Installed, Keeping
<1>36. CASE RestoreEnd
  <2>1. UNCHANGED <<txn, New>>
    BY <1>36, SameTxn DEF RestoreEnd
  <2>2. QED
    BY <1>0, <1>36, <2>1
       DEF RestoreEnd, Steps, KeepSteps, CodeSteps, CloseSteps, Closing, Installing, Ready,
           Bundle, Installed, Keeping
<1>37. CASE RestoreFails
  BY <1>37, IdleSteps, NoOpFields DEF RestoreFails
<1>38. CASE AdvanceDataRestored
  <2>1. /\ AdvanceTo("data_restored") /\ txn.id # 0
        /\ UNCHANGED <<disk, base, running, data, recorded, inbox>>
    BY <1>0, <1>38 DEF AdvanceDataRestored, PhaseSound, OutsideTxn, Keeping
  <2>2. /\ txn'.id = txn.id /\ txn'.source = txn.source /\ txn'.before = txn.before
        /\ txn'.ref = txn.ref /\ txn'.replaced = txn.replaced /\ txn'.had = txn.had
        /\ txn'.touched = txn.touched /\ txn'.phase = "data_restored" /\ New' = New
    BY <1>0, <2>1, AdvanceSame DEF Phases
  <2>3. QED
    BY <1>0, <1>38, <2>1, <2>2
       DEF AdvanceDataRestored, Steps, KeepSteps, CodeSteps, CloseSteps, Closing, Installing,
           Ready, Bundle, Installed, Abandoning, AbandonPhases, Keeping
<1>39. CASE Abandon
  <2>1. /\ Undoable /\ Bundle /\ UndoFiles
    BY <1>0, <1>39, ReachedPhases, TxnFields
       DEF Abandon, DataMayHaveChanged, PhaseSound, Undoable, Bundle, Phases, Files
  <2>2. op'.tree /\ op'.then = "close" /\ UNCHANGED <<base, code, liveJson>>
    BY <1>39, Blanks DEF Abandon, Ops
  <2>3. CASE AdvanceTo("abandoning") /\ txn.phase \in {"previous_kept", "installed"}
    <3>1. txn'.phase = "abandoning" /\ txn'.source = txn.source
      BY <1>0, <2>3, AdvanceSame DEF Phases
    <3>2. pc' = "install"
      BY <1>39, <3>1 DEF Abandon
    <3>3. QED
      BY <2>1, <2>2, <3>1, <3>2
         DEF Steps, KeepSteps, CodeSteps, CloseSteps, Closing, Ready, Keeping, Bundle, Installed
  <2>4. CASE UNCHANGED txn /\ txn.phase \notin {"previous_kept", "installed"}
    <3>1. /\ pc' \in {"install", "codeRestored", "undoDir"}
          /\ pc' = "install" => txn.phase = "abandoning"
          /\ pc' = "codeRestored" => txn.phase = "committed"
      BY <1>39, <2>4 DEF Abandon
    <3>2. pc' = "codeRestored" => code = base.code /\ liveJson = base.live
      BY <2>1, <3>1 DEF UndoFiles
    <3>3. QED
      BY <2>1, <2>2, <2>4, <3>1, <3>2, SameTxn
         DEF Steps, KeepSteps, CodeSteps, CloseSteps, Closing, Installing, Ready, Keeping, Installed
  <2>5. QED
    BY <1>39, <2>3, <2>4 DEF Abandon
<1>40. CASE CodeRestored
  <2>1. /\ AdvanceTo("abandoned_code") /\ txn.id # 0
        /\ UNCHANGED <<disk, base, running, data, recorded, inbox>>
    BY <1>0, <1>40 DEF CodeRestored, PhaseSound, OutsideTxn, Keeping
  <2>2. /\ txn'.id = txn.id /\ txn'.source = txn.source /\ txn'.before = txn.before
        /\ txn'.ref = txn.ref /\ txn'.replaced = txn.replaced /\ txn'.had = txn.had
        /\ txn'.touched = txn.touched /\ txn'.phase = "abandoned_code" /\ New' = New
    BY <1>0, <2>1, AdvanceSame DEF Phases
  <2>3. QED
    BY <1>0, <1>40, <2>1, <2>2
       DEF CodeRestored, Steps, KeepSteps, CodeSteps, CloseSteps, Closing, Installing, Ready,
           Bundle, Undoable, PhaseSound, Keeping
<1>41. CASE Drop
  <2>1. UNCHANGED <<txn, New>>
    BY <1>41, SameTxn DEF Drop
  <2>2. QED
    BY <1>0, <1>41, <2>1 DEF Drop, RecordSound
<1>42. CASE RescueDir
  BY <1>0, <1>42 DEF RescueDir, RecordSound
<1>43. CASE RescueMeta
  BY <1>0, <1>43 DEF RescueMeta, RecordSound
<1>44. CASE RedeploySnapshot
  <2>1. op'.tree = op.tree /\ op'.then = op.then
    BY <1>0, <1>44, SnapshotOp, SnapOp DEF RedeploySnapshot
  <2>2. UNCHANGED <<txn, New>>
    BY <1>44, SameTxn DEF RedeploySnapshot
  <2>3. QED
    BY <1>0, <1>44, <2>1, <2>2
       DEF RedeploySnapshot, Steps, KeepSteps, CodeSteps, CloseSteps, Closing, Installing,
           Ready, Keeping
<1>45. CASE RedeployStart
  BY <1>45, IdleSteps, NoOpFields DEF RedeployStart
<1>46. CASE OtherStart
  <2>1. UNCHANGED <<txn, New>>
    BY <1>46, SameTxn DEF OtherStart
  <2>2. QED
    BY <1>0, <1>46, <2>1
       DEF OtherStart, Steps, KeepSteps, CodeSteps, CloseSteps, Closing, Installing, Ready, Keeping
<1>47. CASE InboxClean
  BY <1>47 DEF InboxClean
<1>48. CASE Tamper
  BY <1>48 DEF Tamper
<1>49. ASSUME NEW r \in Refs, Deploy(r) PROVE Steps'
  <2>1. /\ UNCHANGED <<txn, New, base, code, liveJson, prev, sup, recorded, inbox>>
           /\ ~Abandoning(txn)
        /\ pc' = DeployStep(r) /\ prevMeta' = PairedMeta(txn)
    BY <1>49, SameTxn DEF Deploy
  <2>2. /\ op'.tree = (r \in inbox)
        /\ op'.then = IF DeployStep(r) = "undoDir" /\ txn.ref # r THEN "reopen" ELSE "keep"
    BY <1>49, Blanks DEF Deploy, Ops
  <2>3. CASE txn.id = 0
    <3>1. pc' = "snapshot" /\ op'.tree /\ op'.then = "keep"
      BY <1>49, <2>1, <2>2, <2>3 DEF Deploy, DeployStep
    <3>2. QED
      BY <3>1 DEF Steps, KeepSteps, CodeSteps, CloseSteps, Closing, Installing, Ready, Keeping
  <2>4. CASE txn.id # 0 /\ Bundle /\ txn.ref = r
    <3>1. BundleFiles /\ op'.then = "keep" /\ txn.phase \in Phases
          /\ txn.phase \notin {"data_restored", "abandoning", "abandoned_code"}
      BY <1>0, <2>1, <2>2, <2>4, TxnFields DEF Files, PhaseSound, Bundle, Abandoning, AbandonPhases
    <3>2. r \in inbox \/ (Installed /\ liveJson = r)
      BY <1>0, <1>49, <2>4, ReachedPhases DEF Deploy, ResumesWithoutBundle, Installed
    <3>3. CASE txn.phase = "committed"
      <4>1. pc' = IF Kept THEN "undoDir" ELSE "kept"
        BY <2>1, <2>4, <3>3 DEF DeployStep, Bundle, Kept
      <4>2. op'.tree
        BY <2>2, <3>2, <3>3 DEF Installed
      <4>3. QED
        BY <2>1, <2>4, <3>1, <3>3, <4>1, <4>2, SameTxn
           DEF Steps, KeepSteps, CodeSteps, CloseSteps, Closing, Installing, Ready, Keeping
    <3>4. CASE txn.phase = "switching"
      <4>1. pc' = "generate" /\ code = New /\ liveJson = txn.ref
        BY <2>1, <2>4, <3>1, <3>4 DEF DeployStep, Bundle, BundleFiles
      <4>2. QED
        BY <2>1, <2>4, <3>1, <3>4, <4>1, SameTxn
           DEF Steps, KeepSteps, CodeSteps, CloseSteps, Closing, Installing, Keeping
    <3>5. CASE txn.phase \in {"previous_kept", "installed", "hook_started"}
      <4>1. pc' = "install"
        BY <2>1, <2>4, <3>5 DEF DeployStep, Bundle
      <4>2. Installed => (code = New /\ liveJson = txn.ref) \/ txn.ref \in inbox
        BY <3>1 DEF BundleFiles
      <4>3. QED
        BY <2>1, <2>2, <2>4, <3>1, <3>2, <3>5, <4>1, <4>2, SameTxn
           DEF Steps, KeepSteps, CodeSteps, CloseSteps, Closing, Ready, Keeping
    <3>6. QED
      BY <3>1, <3>3, <3>4, <3>5 DEF Phases
  <2>5. CASE txn.id # 0 /\ ~(Bundle /\ txn.ref = r)
    <3>1. pc' = FixForwardStep /\ op'.tree
      BY <1>49, <2>1, <2>2, <2>5 DEF Deploy, DeployStep, ResumesWithoutBundle, Bundle
    <3>2. /\ pc' \in {"overRollback", "undoDir", "supersede"}
          /\ pc' = "undoDir" => Bundle /\ op'.then = "reopen"
          /\ pc' # "undoDir" /\ Bundle => PastKeep
      BY <1>0, <2>1, <2>2, <2>5, <3>1, ReachedPhases, TxnFields
         DEF FixForwardStep, Bundle, PastKeep, PhaseSound, Phases
    <3>3. ~Bundle => prevMeta' # NoMeta
      BY <1>0, <1>49, <2>1, TxnFields DEF Deploy, Bundle, PairedMeta, PairsKept
    <3>4. QED
      BY <2>1, <3>1, <3>2, <3>3, SameTxn
         DEF Steps, KeepSteps, CodeSteps, CloseSteps, Closing, Installing, Ready, Keeping
  <2>6. QED
    BY <2>3, <2>4, <2>5
<1>50. ASSUME NEW r \in Refs, Upload(r) PROVE Steps'
  <2>1. UNCHANGED <<disk, txn, New, base, recorded, pc, op>> /\ inbox \subseteq inbox'
    BY <1>50, SameTxn DEF Upload
  <2>2. QED
    BY <1>0, <2>1, SameSteps
<1>51. CASE UNCHANGED vars
  <2>1. UNCHANGED <<disk, txn, New, base, recorded, pc, op>> /\ inbox \subseteq inbox'
    BY <1>51, SameTxn DEF vars
  <2>2. QED
    BY <1>0, <2>1, SameSteps
<1>52. QED
  BY <1>1, <1>2, <1>3, <1>4, <1>5, <1>6, <1>7, <1>8, <1>9, <1>10, <1>11, <1>12,
     <1>13, <1>14, <1>15, <1>16, <1>17, <1>18, <1>19, <1>20, <1>21, <1>22, <1>23, <1>24,
     <1>25, <1>26, <1>27, <1>28, <1>29, <1>30, <1>31, <1>32, <1>33, <1>34, <1>35, <1>36,
     <1>37, <1>38, <1>39, <1>40, <1>41, <1>42, <1>43, <1>44, <1>45, <1>46, <1>47, <1>48,
     <1>49, <1>50, <1>51
     DEF Next, Request, Fault, CoreStep

-----------------------------------------------------------------------------
(* The theorems. *)

\* On a new box nothing is installed and nothing is open.
LEMMA FilesInit == Init => FilesSound
<1> SUFFICES ASSUME Init PROVE FilesSound
  OBVIOUS
<1>1. txn.id = 0 /\ ClosedFiles /\ running.whole
  BY BlankFields, Nothings DEF Init, ClosedFiles, Clean
<1>2. Steps
  BY NoOpFields, BlankFields
     DEF Init, Steps, KeepSteps, CodeSteps, CloseSteps, Keeping, Closing, Installing, Ready
<1>3. QED
  BY <1>1, <1>2 DEF Files, FilesSound

\* Where no bundle is removed under an open install, the invariant holds of
\* every state of every run.
LEMMA FilesAlways == ASSUME ~InboxCleans PROVE Spec => []FilesInv
<1>1. Init => FilesInv
  BY TypeInit, RecordInit, FilesInit DEF FilesInv, RecordInv
<1>2. FilesInv /\ [Next]_vars => FilesInv'
  <2>1. RecordInv /\ [Next]_vars => RecordInv'
    BY TypeStep, PhaseStep, SoundStep DEF RecordInv
  <2>2. FilesInv /\ [Next]_vars /\ ~tampered' => FilesSound'
    BY FilesStep, StepsStep DEF FilesSound
  <2>3. QED
    BY <2>1, <2>2 DEF FilesInv
<1>3. QED
  BY <1>1, <1>2, PTL DEF Spec

\* With no install open the project dir holds one whole release, the one
\* live.json names, nothing superseded is left and the rollback target is what
\* previous.json says, wherever the installs before were killed (finish_txn).
THEOREM ClosedIsCleanHolds == ASSUME ~InboxCleans PROVE Spec => []ClosedIsClean
<1>1. FilesInv => ClosedIsClean
  BY DEF FilesInv, FilesSound, Files, ClosedFiles, Clean, ClosedIsClean
<1>2. QED
  BY <1>1, FilesAlways, PTL

\* Once a hook may have changed the data, the release that an install replaced
\* is there, whole, to roll back to; and so is the release a rollback installs
\* until it has recorded that it is used (options_text, find_rollback_target).
THEOREM TargetSurvivesHolds == ASSUME ~InboxCleans PROVE Spec => []TargetSurvives
<1>1. FilesInv => TargetSurvives
  <2> SUFFICES ASSUME FilesInv, txn.id # 0, ~tampered
               PROVE  /\ txn.source = "bundle" /\ txn.replaced # None /\ DataMayHaveChanged(txn)
                         => prev # NoTree /\ prev.whole /\ prev.ref = txn.replaced
                      /\ txn.source = "rollback" /\ prevMeta # NoMeta
                         => prev # NoTree /\ prev.whole /\ prev.ref = txn.ref
    BY DEF TargetSurvives
  <2>1. txn \in Txns /\ PhaseSound /\ Files
    BY DEF FilesInv, RecordInv, FilesSound, TypeOK
  <2>2. ASSUME txn.source = "bundle", DataMayHaveChanged(txn) PROVE PastKeep
    <3>1. ~Undoable
      BY <2>1, <2>2, ReachedPhases DEF DataMayHaveChanged, Undoable
    <3>2. ~Abandoning(txn) /\ (txn.phase = "committed" => txn.touched = "")
      BY <2>1, <2>2, <3>1 DEF Files, BundleFiles, Bundle
    <3>3. QED
      BY <2>1, <2>2, <3>2, ReachedPhases, TxnFields
         DEF DataMayHaveChanged, PhaseSound, PastKeep, Bundle, Abandoning, AbandonPhases, Phases
  <2>3. QED
    BY <2>1, <2>2 DEF Files, BundleFiles, RollbackFiles, Bundle, Kept
<1>2. QED
  BY <1>1, FilesAlways, PTL

\* Nothing rewrites a release's record where nothing may.
LEMMA NeverTampered == ASSUME ~Tampering PROVE Spec => []~tampered
<1>1. Init => ~tampered
  BY DEF Init
<1>2. ~tampered /\ [Next]_vars => ~tampered'
  BY
     DEF Next, Request, Fault, CoreStep, vars, Crash, PreDeploySnapshot, OpenTxn, UndoDropPrev,
         UndoDir, UndoDropMeta, UndoMeta, KeepAside, KeepAsideMeta, KeepDir, KeepMeta,
         KeepFails, AdvanceKept, OverRollbackSnapshot, Supersede, EnsurePairing, InstallBegin,
         InstallEnd, MarkLive, AdvanceInstalled, OnInstalled, AdvanceHookStarted, RunHook,
         HookFails, AdvanceSwitching, StartRelease, RecordDeploy, DiscardPreviousMeta,
         DiscardPreviousDir, CloseDir, CloseMeta, CloseRecord, Rollback, OpenRollback,
         RestoreBegin, RestoreEnd, RestoreFails, AdvanceDataRestored, Abandon, CodeRestored,
         Drop, RescueDir, RescueMeta, RedeploySnapshot, RedeployStart, OtherStart, InboxClean,
         Tamper, Deploy, Upload
<1>3. QED
  BY <1>1, <1>2, PTL DEF Spec

\* What runs is always one whole release (compose_guard, and the phases of
\* deploy_tree_locked).
THEOREM RunsWholeReleasesHolds ==
    ASSUME ~InboxCleans, ~Tampering PROVE Spec => []RunsWholeReleases
<1>1. FilesInv /\ ~tampered => RunsWholeReleases
  BY DEF FilesInv, FilesSound, Files, RunsWholeReleases
<1>2. QED
  BY <1>1, NeverTampered, FilesAlways, PTL

\* A deploy without a bundle resumes from code that is in place whole: only
\* `inbox clean` under an open install breaks that (resume_without_bundle).
THEOREM ResumesCodeInPlaceHolds ==
    ASSUME ~InboxCleans, ~Tampering PROVE Spec => ResumesCodeInPlace
<1>1. FilesInv /\ ~tampered /\ [Next]_vars
      => [(pc = "install" /\ ~op.tree /\ pc' = "hook") => code.whole]_vars
  BY Nothings DEF FilesInv, FilesSound, Steps, CodeSteps
<1>2. QED
  BY <1>1, NeverTampered, FilesAlways, PTL DEF Spec, ResumesCodeInPlace

\* When an abandoned install closes, the code, live.json, the rollback target,
\* the containers and the data are what its first attempt found, whatever
\* attempts and kills came between (abandon_install).
THEOREM AbandonRestoresHolds == ASSUME ~InboxCleans PROVE Spec => AbandonRestores
<1>1. FilesInv /\ [Next]_vars
      => [(txn.phase = "abandoned_code" /\ txn'.id = 0 /\ ~tampered)
          => base = [code |-> code', live |-> liveJson', prev |-> prev',
                     meta |-> prevMeta', running |-> running', data |-> data'] ]_vars
  <2> SUFFICES ASSUME FilesInv, [Next]_vars, txn.phase = "abandoned_code", txn'.id = 0, ~tampered
               PROVE  base = [code |-> code', live |-> liveJson', prev |-> prev',
                              meta |-> prevMeta', running |-> running', data |-> data']
    OBVIOUS
  <2> USE DEF disk, log, world
  <2>1. /\ txn \in Txns /\ base \in Bases /\ nextId # 0 /\ txn.id # 0
        /\ Files /\ Steps /\ Undoable /\ UndoFiles
    <3>1. TypeOK /\ PhaseSound /\ Files /\ Steps
      BY DEF FilesInv, RecordInv, FilesSound
    <3>2. txn \in Txns /\ base \in Bases /\ nextId # 0
      BY <3>1 DEF TypeOK
    <3>3. txn.id # 0
      BY <3>1, NoTxnFields DEF PhaseSound
    <3>4. Undoable /\ UndoFiles
      BY <3>1, <3>3 DEF Files, Abandoning, AbandonPhases
    <3>5. QED
      BY <3>1, <3>2, <3>3, <3>4
  <2>2. txn' # txn
    BY <2>1
  <2>3. \A phase \in Phases : ~AdvanceTo(phase)
    BY <2>1, AdvanceSame
  <2>4. \A source, ref, replaced, phase, before, had, touched :
           ~NewTxn(source, ref, replaced, phase, before, had, touched)
    BY <2>1 DEF NewTxn
  <2>5. CloseRecord
    BY <2>2, <2>3, <2>4
       DEF Next, Request, Fault, CoreStep, vars, OpenNew, SupersedeBy, Phases, Crash,
           PreDeploySnapshot, OpenTxn, UndoDropPrev, UndoDir, UndoDropMeta, UndoMeta, KeepAside,
           KeepAsideMeta, KeepDir, KeepMeta, KeepFails, AdvanceKept, OverRollbackSnapshot,
           Supersede, EnsurePairing, InstallBegin, InstallEnd, MarkLive, AdvanceInstalled,
           OnInstalled, AdvanceHookStarted, RunHook, HookFails, AdvanceSwitching, StartRelease,
           RecordDeploy, DiscardPreviousMeta, DiscardPreviousDir, CloseDir, CloseMeta, Rollback,
           OpenRollback, RestoreBegin, RestoreEnd, RestoreFails, AdvanceDataRestored, Abandon,
           CodeRestored, Drop, RescueDir, RescueMeta, RedeploySnapshot, RedeployStart,
           OtherStart, InboxClean, Tamper, Deploy, Upload
  <2>6. /\ prev = base.prev /\ prevMeta = base.meta /\ code = base.code /\ liveJson = base.live
        /\ running = base.running /\ data = base.data
    BY <2>1, <2>5 DEF CloseRecord, Steps, CloseSteps, Closing, UndoFiles
  <2>7. UNCHANGED <<disk, running, data>>
    BY <2>5 DEF CloseRecord
  <2>8. QED
    BY <2>1, <2>6, <2>7 DEF Bases
<1>2. QED
  BY <1>1, FilesAlways, PTL DEF Spec, AbandonRestores

---------------------------------------------------------------------------
\* The data, the snapshots, and the refinement of InstallSpec.

\* Snapshot s of those in q, if there is one, holds nothing that a release newer
\* than the tree t wrote (PreviousRelease: the snapshot that pairs with it).
Pairs(q, s, t) == s = 0 \/ (s \in 1 .. Len(q) /\ q[s] <= t.gen)

\* Whatever carries the id of a transaction carries that of one that was opened.
Opened ==
    /\ txn.id # 0 => nextId = txn.id + 1
    /\ data < nextId /\ base.data < nextId
    /\ code.gen < nextId /\ prev.gen < nextId /\ sup.gen < nextId
    /\ base.code.gen < nextId /\ base.prev.gen < nextId
    /\ \A s \in 1 .. Len(snaps) : snaps[s] < nextId

\* A rollback that has put the target's data back.
DataRestored == txn.phase \in {"data_restored", "hook_started", "switching"}

\* What the phase of the record says of the data and the snapshots.
DataFiles ==
    /\ txn.id = 0 => data <= code.gen /\ Pairs(snaps, prevMeta.snap, prev)
    /\ txn.id # 0 =>
          /\ prev \in {NoTree, base.code, base.prev}
          /\ base.data <= base.code.gen /\ Pairs(snaps, base.meta.snap, base.prev)
          /\ Undoable /\ Kept => Pairs(snaps, txn.snap, base.code)
          /\ PastKeep /\ Kept => Pairs(snaps, txn.snap, prev) /\ Pairs(snaps, prevMeta.snap, prev)
          /\ ~Bundle /\ prevMeta # NoMeta
             => Pairs(snaps, txn.snap, prev) /\ Pairs(snaps, prevMeta.snap, prev)
          /\ ~Bundle /\ DataRestored => data <= code.gen

\* What the step a core has got to says of them.
DataSteps ==
    /\ pc = "open" => Pairs(snaps, op.snap, code)
    /\ pc = "kept" /\ Kept => prevMeta.snap = txn.snap
    /\ pc = "supersede" => IF Bundle THEN op.snap = txn.snap ELSE Pairs(snaps, op.snap, prev)
    /\ pc = "overRollback" => ~Bundle /\ DataRestored
    /\ pc \in {"openRollback", "restore", "restoring"} => Pairs(snaps, op.snap, prev)
    /\ pc = "openRollback" => prevMeta.snap = op.snap
    /\ pc \in {"restore", "restoring"} => ~DataRestored
    /\ pc = "hook" /\ ~Bundle => DataRestored
    /\ pc \in Installing \cup {"installed"} /\ ~Bundle => Pairs(snaps, op.snap, prev)
    /\ pc = "restored" => data <= code.gen
    /\ pc = "record" /\ op.ok => running = code
    /\ pc = "discardMeta" /\ prevMeta # NoMeta => running = code

DataSound == DataFiles /\ DataSteps

DataInv == FilesInv /\ Opened /\ (~tampered => DataSound)

-----------------------------------------------------------------------------
(* Snapshots and ids. *)

\* The ids and generations are numbers.
LEMMA Numbers ==
    ASSUME TypeOK
    PROVE  /\ data \in Nat /\ code.gen \in Nat /\ prev.gen \in Nat /\ sup.gen \in Nat
           /\ base.data \in Nat /\ base.code.gen \in Nat /\ base.prev.gen \in Nat
           /\ txn.id \in Nat /\ nextId \in Nat
           /\ Len(snaps) \in Nat /\ \A s \in 1 .. Len(snaps) : snaps[s] \in Nat
<1>1. /\ code \in Trees /\ prev \in Trees /\ sup \in Trees /\ base \in Bases /\ data \in Ids
      /\ txn \in Txns /\ nextId \in 1 .. MaxTxn + 1 /\ snaps \in Seq(Ids)
  BY DEF TypeOK
<1>2. base.code \in Trees /\ base.prev \in Trees /\ base.data \in Ids
  BY <1>1 DEF Bases
<1>3. /\ code.gen \in Ids /\ prev.gen \in Ids /\ sup.gen \in Ids /\ txn.id \in Ids
      /\ base.code.gen \in Ids /\ base.prev.gen \in Ids
  BY <1>1, <1>2, TreeFields, TxnFields
<1>4. Ids \subseteq Nat
  BY DEF Ids
<1>5. \A s \in 1 .. Len(snaps) : snaps[s] \in Ids
  BY <1>1
<1>6. Len(snaps) \in Nat /\ nextId \in Nat
  BY <1>1, MaxAssumption
<1>7. QED
  BY <1>1, <1>2, <1>3, <1>4, <1>5, <1>6

\* The blank tree was unpacked by no transaction.
LEMMA NoGen == NoTree.gen = 0 /\ Mixed.gen = 0 /\ Bare.gen = 0 /\ New.gen = txn.id /\ NoMeta.snap = 0
  BY DEF NoTree, Mixed, Bare, New, NoMeta

\* A new record notes the snapshot the core took (open_txn, supersede_txn).
LEMMA NewSnap ==
    ASSUME NEW source, NEW ref, NEW replaced, NEW phase, NEW before, NEW had, NEW touched,
           NewTxn(source, ref, replaced, phase, before, had, touched)
    PROVE  txn'.snap = op.snap /\ txn'.id = nextId /\ nextId' = nextId + 1
  BY DEF NewTxn

\* Snapshots are only added, and each new one holds the data of its moment.
LEMMA SnapshotsGrow ==
    ASSUME [Next]_vars
    PROVE  snaps' = snaps \/ snaps' = Append(snaps, data)
  BY
     DEF Next, Request, Fault, CoreStep, vars, disk, log, world, TakeSnapshot, Crash,
         PreDeploySnapshot, OpenTxn, UndoDropPrev, UndoDir, UndoDropMeta, UndoMeta, KeepAside,
         KeepAsideMeta, KeepDir, KeepMeta, KeepFails, AdvanceKept, OverRollbackSnapshot,
         Supersede, EnsurePairing, InstallBegin, InstallEnd, MarkLive, AdvanceInstalled,
         OnInstalled, AdvanceHookStarted, RunHook, HookFails, AdvanceSwitching, StartRelease,
         RecordDeploy, DiscardPreviousMeta, DiscardPreviousDir, CloseDir, CloseMeta,
         CloseRecord, Rollback, OpenRollback, RestoreBegin, RestoreEnd, RestoreFails,
         AdvanceDataRestored, Abandon, CodeRestored, Drop, RescueDir, RescueMeta,
         RedeploySnapshot, RedeployStart, OtherStart, InboxClean, Tamper, Deploy, Upload

\* A snapshot that pairs with a release still does when others are added.
LEMMA PairsStay ==
    ASSUME TypeOK, [Next]_vars, NEW s, NEW t, Pairs(snaps, s, t)
    PROVE  Pairs(snaps', s, t)
<1>1. CASE snaps' = snaps
  BY <1>1
<1>2. CASE snaps' = Append(snaps, data)
  <2>1. snaps \in Seq(Ids) /\ data \in Ids
    BY DEF TypeOK
  <2>2. Len(snaps') = Len(snaps) + 1 /\ Len(snaps) \in Nat
    BY <1>2, <2>1
  <2>3. \A k \in 1 .. Len(snaps) : snaps'[k] = snaps[k]
    BY <1>2, <2>1
  <2>4. QED
    BY <2>2, <2>3 DEF Pairs
<1>3. QED
  BY <1>1, <1>2, SnapshotsGrow

\* A snapshot of data that no newer release wrote pairs with the release.
LEMMA SnapshotPairs ==
    ASSUME TypeOK, TakeSnapshot, NEW t, data <= t.gen
    PROVE  Pairs(snaps', op'.snap, t)
<1>1. snaps \in Seq(Ids) /\ data \in Ids /\ op \in Ops
  BY DEF TypeOK
<1>2. CASE snaps' = Append(snaps, data) /\ op' = [op EXCEPT !.snap = Len(snaps) + 1]
  <2>1. op'.snap = Len(snaps) + 1
    BY <1>1, <1>2 DEF Ops
  <2>2. Len(snaps') = Len(snaps) + 1 /\ Len(snaps) \in Nat /\ snaps'[Len(snaps) + 1] = data
    BY <1>1, <1>2
  <2>3. QED
    BY <2>1, <2>2 DEF Pairs
<1>3. CASE op' = [op EXCEPT !.snap = 0]
  <2>1. op'.snap = 0
    BY <1>1, <1>3 DEF Ops
  <2>2. QED
    BY <2>1 DEF Pairs
<1>4. QED
  BY <1>2, <1>3 DEF TakeSnapshot

-----------------------------------------------------------------------------
(* What a step that leaves the record alone leaves of the data. *)

\* The snapshots that paired with a release still do after the step.
Growing == \A s, t : Pairs(snaps, s, t) => Pairs(snaps', s, t)

\* Nothing that the pairing is about changes.
LEMMA SameData ==
    ASSUME DataFiles, Growing, UNCHANGED <<txn, base, prev, prevMeta, code, data>>
    PROVE  DataFiles'
<1>1. UNCHANGED <<Bundle, Kept, Undoable, PastKeep, DataRestored>>
  BY SameTxn DEF DataRestored
<1>2. QED
  BY <1>1 DEF DataFiles, Growing

\* The code or the data changes under an open install.
LEMMA OpenData ==
    ASSUME DataFiles, Growing, txn.id # 0, UNCHANGED <<txn, base, prev, prevMeta>>,
           Bundle \/ ~DataRestored \/ data' <= code'.gen
    PROVE  DataFiles'
<1>1. UNCHANGED <<Bundle, Kept, Undoable, PastKeep, DataRestored>>
  BY SameTxn DEF DataRestored
<1>2. QED
  BY <1>1 DEF DataFiles, Growing

\* The rollback target moves while a keep or its undo is at work.
LEMMA KeepingData ==
    ASSUME DataFiles, Growing, txn.id # 0, Bundle, ~PastKeep, UNCHANGED <<txn, base>>,
           prev' \in {NoTree, base.code, base.prev}
    PROVE  DataFiles'
<1>1. UNCHANGED <<Bundle, Kept, Undoable, PastKeep, DataRestored>>
  BY SameTxn DEF DataRestored
<1>2. QED
  BY <1>1 DEF DataFiles, Growing

\* ensure_kept_pairing writes the snapshot of the install, which pairs too.
LEMMA PairingData ==
    ASSUME DataFiles, Growing, Files, PhaseSound, txn \in Txns, ~Abandoning(txn),
           prevMeta' = PairedMeta(txn),
           UNCHANGED <<txn, base, prev, code, data>>
    PROVE  DataFiles'
<1>1. CASE prevMeta' = prevMeta
  BY <1>1, SameData
<1>2. CASE prevMeta' # prevMeta
  <2>1. txn.id # 0 /\ Bundle /\ Kept /\ prevMeta'.snap = txn.snap
    BY <1>2, TxnFields DEF PairedMeta, PairsKept, KeptMeta, Bundle, Kept
  <2>2. UNCHANGED <<Bundle, Kept, Undoable, PastKeep, DataRestored>>
    BY SameTxn DEF DataRestored
  <2>3. QED
    BY <2>1, <2>2 DEF DataFiles, Growing
<1>3. QED
  BY <1>1, <1>2

\* advance: the phase goes on, and the snapshot stays.
LEMMA AdvanceData ==
    ASSUME DataFiles, Growing, txn.id # 0, txn \in Txns, NEW phase \in Phases, AdvanceTo(phase),
           UNCHANGED <<base, prev, prevMeta, code, data>>,
           Undoable' => Undoable, PastKeep' => PastKeep,
           ~Bundle /\ DataRestored' => DataRestored \/ data <= code.gen
    PROVE  DataFiles'
<1>1. txn'.id = txn.id /\ txn'.source = txn.source /\ txn'.replaced = txn.replaced
      /\ txn'.snap = txn.snap
  BY AdvanceSame
<1>2. UNCHANGED <<Bundle, Kept>>
  BY <1>1 DEF Bundle, Kept
<1>3. QED
  BY <1>1, <1>2 DEF DataFiles, Growing

\* A core at most steps relies on nothing of the data.
LEMMA QuietSteps ==
    ASSUME pc' \notin {"open", "kept", "supersede", "overRollback", "openRollback", "restore",
                       "restoring", "restored", "hook", "record", "discardMeta", "install",
                       "installing",
                       "markLive", "installed"}
    PROVE  DataSteps'
  BY DEF DataSteps, Installing

\* Nothing that the core relies on changes.
LEMMA SameDataSteps ==
    ASSUME DataSteps, UNCHANGED <<pc, op, txn, prev, prevMeta, code, data, running, snaps>>
    PROVE  DataSteps'
<1>1. UNCHANGED <<Bundle, Kept, DataRestored>>
  BY SameTxn DEF DataRestored
<1>2. QED
  BY <1>1 DEF DataSteps

\* What a rollback would restore pairs with the release it would put back
\* (find_rollback_target), in every state in which it would run.
LEMMA MayRollBackPairs ==
    ASSUME TypeOK, txn \in Txns, PhaseSound, Files, DataFiles, prev # NoTree,
           PairedMeta(txn) # NoMeta, txn.id # 0 => ~Abandoning(txn) /\ DataMayHaveChanged(txn)
    PROVE  Pairs(snaps, PairedSnap, prev)
<1>1. CASE txn.id = 0
  BY <1>1 DEF PairedSnap, PairsKept, DataFiles
<1>2. CASE txn.id # 0 /\ Bundle /\ Kept
  <2>1. txn.phase = "committed" => txn.touched = ""
    BY <1>2 DEF Files, BundleFiles
  <2>2. PastKeep
    BY <1>2, <2>1, ReachedPhases, TxnFields
       DEF DataMayHaveChanged, PhaseSound, PastKeep, Bundle, Abandoning, AbandonPhases, Phases
  <2>3. PairedSnap \in {txn.snap, prevMeta.snap}
    BY DEF PairedSnap
  <2>4. QED
    BY <1>2, <2>2, <2>3 DEF DataFiles
<1>3. CASE txn.id # 0 /\ Bundle /\ ~Kept
  <2>1. PairedSnap = prevMeta.snap
    BY <1>3 DEF PairedSnap, PairsKept, Kept
  <2>2. prev = base.prev /\ prevMeta = base.meta
    BY <1>3 DEF Files, BundleFiles
  <2>3. QED
    BY <1>3, <2>1, <2>2 DEF DataFiles
<1>4. CASE txn.id # 0 /\ ~Bundle
  <2>1. ~PairsKept(txn)
    BY <1>4, TxnFields DEF PairsKept, Bundle
  <2>2. PairedSnap = prevMeta.snap /\ prevMeta # NoMeta
    BY <2>1 DEF PairedSnap, PairedMeta
  <2>3. QED
    BY <1>4, <2>2 DEF DataFiles
<1>5. QED
  BY <1>1, <1>2, <1>3, <1>4

-----------------------------------------------------------------------------
(* One step. *)

\* supersede_txn numbers its transaction after all others.
LEMMA OpenedOver ==
    ASSUME TypeOK, Opened, NEW source, NEW ref, NEW replaced, NEW phase, NEW before, NEW had,
           NEW touched,
           NewTxn(source, ref, replaced, phase, before, had, touched),
           UNCHANGED <<code, prev, sup, data, snaps, base>>
    PROVE  Opened'
<1>1. txn'.id = nextId /\ nextId' = nextId + 1
  BY NewSnap
<1>2. \A k \in Nat : k < nextId => k < nextId + 1
  BY Numbers
<1>3. \A s \in 1 .. Len(snaps) : snaps[s] < nextId + 1
  BY <1>2, Numbers DEF Opened
<1>4. /\ data < nextId + 1 /\ base.data < nextId + 1
      /\ code.gen < nextId + 1 /\ prev.gen < nextId + 1 /\ sup.gen < nextId + 1
      /\ base.code.gen < nextId + 1 /\ base.prev.gen < nextId + 1
  BY <1>2, Numbers DEF Opened
<1>5. QED
  BY <1>1, <1>3, <1>4 DEF Opened

\* The snapshots after a step were taken of the data of some opened transaction.
LEMMA SnapshotsOpened ==
    ASSUME TypeOK, Opened, [Next]_vars
    PROVE  \A s \in 1 .. Len(snaps') : snaps'[s] < nextId
<1>1. CASE snaps' = snaps
  BY <1>1 DEF Opened
<1>2. CASE snaps' = Append(snaps, data)
  <2>1. snaps \in Seq(Ids) /\ data \in Ids
    BY DEF TypeOK
  <2>2. /\ Len(snaps') = Len(snaps) + 1 /\ Len(snaps) \in Nat
        /\ snaps'[Len(snaps) + 1] = data /\ \A k \in 1 .. Len(snaps) : snaps'[k] = snaps[k]
    BY <1>2, <2>1
  <2>3. TAKE s \in 1 .. Len(snaps')
  <2>4. CASE s = Len(snaps) + 1
    BY <2>2, <2>4 DEF Opened
  <2>5. CASE s \in 1 .. Len(snaps)
    BY <2>2, <2>5 DEF Opened
  <2>6. QED
    BY <2>2, <2>3, <2>4, <2>5
<1>3. QED
  BY <1>1, <1>2, SnapshotsGrow

\* No transaction is opened.
LEMMA StillOpened ==
    ASSUME Opened, \A s \in 1 .. Len(snaps') : snaps'[s] < nextId, UNCHANGED <<nextId, base>>,
           txn'.id = txn.id, data' < nextId, code'.gen < nextId, prev'.gen < nextId,
           sup'.gen < nextId
    PROVE  Opened'
  BY DEF Opened

\* At most a snapshot is taken.
LEMMA SameOpened ==
    ASSUME Opened, \A s \in 1 .. Len(snaps') : snaps'[s] < nextId,
           UNCHANGED <<nextId, base, txn, data, code, prev, sup>>
    PROVE  Opened'
  BY DEF Opened

\* open_txn numbers its transaction after all others.
LEMMA OpenedNew ==
    ASSUME TypeOK, Opened, NEW source, NEW ref, NEW replaced, OpenNew(source, ref, replaced),
           UNCHANGED <<code, prev, sup, data, snaps>>
    PROVE  Opened'
<1>1. NewTxn(source, ref, replaced, "committed", prevMeta, prev # NoTree, "")
  BY DEF OpenNew
<1>2. txn'.id = nextId /\ nextId' = nextId + 1
  BY <1>1, NewSnap
<1>3. base'.code = code /\ base'.prev = prev /\ base'.data = data
  BY OpenRecord
<1>4. \A n \in Nat : n < nextId => n < nextId'
  BY <1>2, Numbers
<1>5. \A s \in 1 .. Len(snaps) : snaps[s] < nextId'
  BY <1>4, Numbers DEF Opened
<1>6. data < nextId' /\ code.gen < nextId' /\ prev.gen < nextId' /\ sup.gen < nextId'
  BY <1>4, Numbers DEF Opened
<1>7. QED
  BY <1>2, <1>3, <1>5, <1>6 DEF Opened

\* No step makes up the id of a transaction.
LEMMA OpenedStep == TypeOK /\ OpOK /\ Opened /\ [Next]_vars => Opened'
<1> SUFFICES ASSUME TypeOK, OpOK, Opened, [Next]_vars PROVE Opened'
  OBVIOUS
<1> USE DEF Goto, Done, disk, log, world
<1>0. /\ TypeOK /\ OpOK /\ txn \in Txns /\ op \in Ops /\ Opened /\ 0 < nextId
      /\ \A s \in 1 .. Len(snaps') : snaps'[s] < nextId
      /\ NoTree.gen < nextId /\ Mixed.gen < nextId /\ Bare.gen < nextId
  BY SnapshotsOpened, NoGen DEF TypeOK
<1>1. CASE Crash
  BY <1>0, <1>1, SameOpened DEF Crash
<1>2. CASE PreDeploySnapshot
  BY <1>0, <1>2, SameOpened DEF PreDeploySnapshot
<1>3. CASE OpenTxn
  <2>1. OpenNew("bundle", op.ref, IF Deployed THEN liveJson ELSE None)
        /\ UNCHANGED <<disk, world>>
    BY <1>3 DEF OpenTxn
  <2>2. QED
    BY <1>0, <2>1, OpenedNew
<1>4. CASE UndoDropPrev
  <2>1. /\ UNCHANGED <<nextId, base>> /\ txn'.id = txn.id
    BY <1>0, <1>4 DEF UndoDropPrev
  <2>2. data' < nextId /\ code'.gen < nextId /\ prev'.gen < nextId /\ sup'.gen < nextId
    BY <1>0, <1>4 DEF UndoDropPrev, Opened
  <2>3. QED
    BY <1>0, <2>1, <2>2, StillOpened
<1>5. CASE UndoDir
  <2>1. /\ UNCHANGED <<nextId, base>> /\ txn'.id = txn.id
    BY <1>0, <1>5 DEF UndoDir
  <2>2. data' < nextId /\ code'.gen < nextId /\ prev'.gen < nextId /\ sup'.gen < nextId
    BY <1>0, <1>5 DEF UndoDir, Opened
  <2>3. QED
    BY <1>0, <2>1, <2>2, StillOpened
<1>6. CASE UndoDropMeta
  BY <1>0, <1>6, SameOpened DEF UndoDropMeta
<1>7. CASE UndoMeta
  BY <1>0, <1>7, SameOpened DEF UndoMeta
<1>8. CASE KeepAside
  <2>1. /\ UNCHANGED <<nextId, base>> /\ txn'.id = txn.id
    BY <1>0, <1>8 DEF KeepAside
  <2>2. data' < nextId /\ code'.gen < nextId /\ prev'.gen < nextId /\ sup'.gen < nextId
    BY <1>0, <1>8 DEF KeepAside, Opened
  <2>3. QED
    BY <1>0, <2>1, <2>2, StillOpened
<1>9. CASE KeepAsideMeta
  BY <1>0, <1>9, SameOpened DEF KeepAsideMeta
<1>10. CASE KeepDir
  <2>1. /\ UNCHANGED <<nextId, base>> /\ txn'.id = txn.id
    BY <1>0, <1>10 DEF KeepDir
  <2>2. data' < nextId /\ code'.gen < nextId /\ prev'.gen < nextId /\ sup'.gen < nextId
    BY <1>0, <1>10 DEF KeepDir, Opened
  <2>3. QED
    BY <1>0, <2>1, <2>2, StillOpened
<1>11. CASE KeepMeta
  BY <1>0, <1>11, SameOpened DEF KeepMeta
<1>12. CASE KeepFails
  BY <1>0, <1>12, SameOpened DEF KeepFails
<1>13. CASE AdvanceKept
  <2>1. UNCHANGED <<nextId, base, data, code, prev, sup>> /\ txn'.id = txn.id
    BY <1>0, <1>13, AdvanceSame DEF AdvanceKept, Phases
  <2>2. QED
    BY <1>0, <2>1, StillOpened DEF Opened
<1>14. CASE OverRollbackSnapshot
  BY <1>0, <1>14, SameOpened DEF OverRollbackSnapshot
<1>15. CASE Supersede
  <2>1. /\ NewTxn("bundle", op.ref, IF txn.source = "rollback" THEN prevMeta.ref ELSE txn.replaced,
                  "previous_kept", txn.before, txn.had, TouchedBy(txn))
        /\ UNCHANGED <<code, prev, sup, data, snaps, base>>
    BY <1>15 DEF Supersede, SupersedeBy
  <2>2. QED
    BY <1>0, <2>1, OpenedOver
<1>16. CASE EnsurePairing
  BY <1>0, <1>16, SameOpened DEF EnsurePairing
<1>17. CASE InstallBegin
  <2>1. /\ UNCHANGED <<nextId, base>> /\ txn'.id = txn.id
    BY <1>0, <1>17 DEF InstallBegin
  <2>2. data' < nextId /\ code'.gen < nextId /\ prev'.gen < nextId /\ sup'.gen < nextId
    BY <1>0, <1>17 DEF InstallBegin, Opened
  <2>3. QED
    BY <1>0, <2>1, <2>2, StillOpened
<1>18. CASE InstallEnd
  <2>1. /\ UNCHANGED <<nextId, base>> /\ txn'.id = txn.id
    BY <1>0, <1>18 DEF InstallEnd
  <2>2. data' < nextId /\ code'.gen < nextId /\ prev'.gen < nextId /\ sup'.gen < nextId
    <3>1. code' \in {NoTree, prev, New} /\ UNCHANGED <<data, prev, sup>>
      BY <1>18 DEF InstallEnd, TreeToInstall, New
    <3>2. New.gen < nextId
      BY <1>0, NoGen, Numbers DEF Opened
    <3>3. QED
      BY <1>0, <3>1, <3>2, NoGen DEF Opened
  <2>3. QED
    BY <1>0, <2>1, <2>2, StillOpened
<1>19. CASE MarkLive
  BY <1>0, <1>19, SameOpened DEF MarkLive
<1>20. CASE AdvanceInstalled
  <2>1. UNCHANGED <<nextId, base, data, code, prev, sup>> /\ txn'.id = txn.id
    BY <1>0, <1>20, AdvanceSame DEF AdvanceInstalled, Phases
  <2>2. QED
    BY <1>0, <2>1, StillOpened DEF Opened
<1>21. CASE OnInstalled
  BY <1>0, <1>21, SameOpened DEF OnInstalled
<1>22. CASE AdvanceHookStarted
  <2>1. UNCHANGED <<nextId, base, data, code, prev, sup>> /\ txn'.id = txn.id
    BY <1>0, <1>22, AdvanceSame DEF AdvanceHookStarted, Phases
  <2>2. QED
    BY <1>0, <2>1, StillOpened DEF Opened
<1>23. CASE RunHook
  <2>1. UNCHANGED <<txn, nextId, base, code, prev, sup>> /\ data' \in {data, WrittenBy(code)}
    BY <1>23 DEF RunHook
  <2>2. data' < nextId
    BY <1>0, <2>1 DEF WrittenBy, Opened
  <2>3. QED
    BY <1>0, <2>1, <2>2, StillOpened DEF Opened
<1>24. CASE HookFails
  <2>1. UNCHANGED <<txn, nextId, base, code, prev, sup>> /\ data' \in {data, WrittenBy(code)}
    BY <1>24 DEF HookFails
  <2>2. data' < nextId
    BY <1>0, <2>1 DEF WrittenBy, Opened
  <2>3. QED
    BY <1>0, <2>1, <2>2, StillOpened DEF Opened
<1>25. CASE AdvanceSwitching
  <2>1. UNCHANGED <<nextId, base, data, code, prev, sup>> /\ txn'.id = txn.id
    BY <1>0, <1>25, AdvanceSame DEF AdvanceSwitching, Phases
  <2>2. QED
    BY <1>0, <2>1, StillOpened DEF Opened
<1>26. CASE StartRelease
  <2>1. UNCHANGED <<txn, nextId, base, code, prev, sup>> /\ data' \in {data, WrittenBy(code)}
    BY <1>26 DEF StartRelease
  <2>2. data' < nextId
    BY <1>0, <2>1 DEF WrittenBy, Opened
  <2>3. QED
    BY <1>0, <2>1, <2>2, StillOpened DEF Opened
<1>27. CASE RecordDeploy
  BY <1>0, <1>27, SameOpened DEF RecordDeploy
<1>28. CASE DiscardPreviousMeta
  BY <1>0, <1>28, SameOpened DEF DiscardPreviousMeta
<1>29. CASE DiscardPreviousDir
  <2>1. /\ UNCHANGED <<nextId, base>> /\ txn'.id = txn.id
    BY <1>0, <1>29 DEF DiscardPreviousDir
  <2>2. data' < nextId /\ code'.gen < nextId /\ prev'.gen < nextId /\ sup'.gen < nextId
    BY <1>0, <1>29 DEF DiscardPreviousDir, Opened
  <2>3. QED
    BY <1>0, <2>1, <2>2, StillOpened
<1>30. CASE CloseDir
  <2>1. /\ UNCHANGED <<nextId, base>> /\ txn'.id = txn.id
    BY <1>0, <1>30 DEF CloseDir
  <2>2. data' < nextId /\ code'.gen < nextId /\ prev'.gen < nextId /\ sup'.gen < nextId
    BY <1>0, <1>30 DEF CloseDir, Opened
  <2>3. QED
    BY <1>0, <2>1, <2>2, StillOpened
<1>31. CASE CloseMeta
  BY <1>0, <1>31, SameOpened DEF CloseMeta
<1>32. CASE CloseRecord
  <2>1. UNCHANGED <<nextId, data, code, prev, sup>> /\ txn' = NoTxn /\ base' = NoBase
    BY <1>32 DEF CloseRecord
  <2>2. txn'.id = 0 /\ base'.data = 0 /\ base'.code.gen = 0 /\ base'.prev.gen = 0
    BY <2>1, BlankFields, NoGen DEF NoBase
  <2>3. QED
    BY <1>0, <2>1, <2>2, Numbers DEF Opened
<1>33. CASE Rollback
  BY <1>0, <1>33, SameOpened DEF Rollback
<1>34. CASE OpenRollback
  <2>1. CASE txn.id = 0
    BY <1>0, <1>34, <2>1, OpenedNew DEF OpenRollback
  <2>2. CASE txn.id # 0
    <3>1. /\ NewTxn("rollback", op.ref, liveJson, "committed", txn.before, txn.had, TouchedBy(txn))
          /\ UNCHANGED <<code, prev, sup, data, snaps, base>>
      BY <1>34, <2>2 DEF OpenRollback, SupersedeBy
    <3>2. QED
      BY <1>0, <3>1, OpenedOver
  <2>3. QED
    BY <2>1, <2>2
<1>35. CASE RestoreBegin
  <2>1. UNCHANGED <<txn, nextId, base, code, prev, sup>> /\ data' = txn.id
    BY <1>35 DEF RestoreBegin
  <2>2. data' < nextId
    BY <1>0, <2>1, Numbers DEF Opened
  <2>3. QED
    BY <1>0, <2>1, <2>2, StillOpened DEF Opened
<1>36. CASE RestoreEnd
  <2>1. UNCHANGED <<txn, nextId, base, code, prev, sup>> /\ data' \in {snaps[op.snap], code.gen}
    BY <1>36 DEF RestoreEnd
  <2>2. op.snap \in 1 .. Len(snaps)
    BY <1>0, <1>36 DEF RestoreEnd, OpOK
  <2>3. data' < nextId
    BY <1>0, <2>1, <2>2 DEF Opened
  <2>4. QED
    BY <1>0, <2>1, <2>3, StillOpened DEF Opened
<1>37. CASE RestoreFails
  BY <1>0, <1>37, SameOpened DEF RestoreFails
<1>38. CASE AdvanceDataRestored
  <2>1. UNCHANGED <<nextId, base, data, code, prev, sup>> /\ txn'.id = txn.id
    BY <1>0, <1>38, AdvanceSame DEF AdvanceDataRestored, Phases
  <2>2. QED
    BY <1>0, <2>1, StillOpened DEF Opened
<1>39. CASE Abandon
  <2>1. UNCHANGED <<nextId, base, data, code, prev, sup>> /\ txn'.id = txn.id
    BY <1>0, <1>39, AdvanceSame DEF Abandon, Phases
  <2>2. QED
    BY <1>0, <2>1, StillOpened DEF Opened
<1>40. CASE CodeRestored
  <2>1. UNCHANGED <<nextId, base, data, code, prev, sup>> /\ txn'.id = txn.id
    BY <1>0, <1>40, AdvanceSame DEF CodeRestored, Phases
  <2>2. QED
    BY <1>0, <2>1, StillOpened DEF Opened
<1>41. CASE Drop
  BY <1>0, <1>41, SameOpened DEF Drop
<1>42. CASE RescueDir
  <2>1. /\ UNCHANGED <<nextId, base>> /\ txn'.id = txn.id
    BY <1>0, <1>42 DEF RescueDir
  <2>2. data' < nextId /\ code'.gen < nextId /\ prev'.gen < nextId /\ sup'.gen < nextId
    BY <1>0, <1>42 DEF RescueDir, Opened
  <2>3. QED
    BY <1>0, <2>1, <2>2, StillOpened
<1>43. CASE RescueMeta
  BY <1>0, <1>43, SameOpened DEF RescueMeta
<1>44. CASE RedeploySnapshot
  BY <1>0, <1>44, SameOpened DEF RedeploySnapshot
<1>45. CASE RedeployStart
  <2>1. UNCHANGED <<txn, nextId, base, code, prev, sup>> /\ data' \in {data, WrittenBy(code)}
    BY <1>45 DEF RedeployStart
  <2>2. data' < nextId
    BY <1>0, <2>1 DEF WrittenBy, Opened
  <2>3. QED
    BY <1>0, <2>1, <2>2, StillOpened DEF Opened
<1>46. CASE OtherStart
  <2>1. UNCHANGED <<txn, nextId, base, code, prev, sup>> /\ data' \in {data, WrittenBy(code)}
    BY <1>46 DEF OtherStart
  <2>2. data' < nextId
    BY <1>0, <2>1 DEF WrittenBy, Opened
  <2>3. QED
    BY <1>0, <2>1, <2>2, StillOpened DEF Opened
<1>47. CASE InboxClean
  BY <1>0, <1>47, SameOpened DEF InboxClean
<1>48. CASE Tamper
  BY <1>0, <1>48, SameOpened DEF Tamper
<1>49. ASSUME NEW r \in Refs, Deploy(r) PROVE Opened'
  BY <1>0, <1>49, SameOpened DEF Deploy
<1>50. ASSUME NEW r \in Refs, Upload(r) PROVE Opened'
  BY <1>0, <1>50, SameOpened DEF Upload
<1>51. CASE UNCHANGED vars
  BY <1>0, <1>51, SameOpened DEF vars
<1>52. QED
  BY <1>1, <1>2, <1>3, <1>4, <1>5, <1>6, <1>7, <1>8, <1>9, <1>10, <1>11, <1>12,
     <1>13, <1>14, <1>15, <1>16, <1>17, <1>18, <1>19, <1>20, <1>21, <1>22, <1>23, <1>24,
     <1>25, <1>26, <1>27, <1>28, <1>29, <1>30, <1>31, <1>32, <1>33, <1>34, <1>35, <1>36,
     <1>37, <1>38, <1>39, <1>40, <1>41, <1>42, <1>43, <1>44, <1>45, <1>46, <1>47, <1>48,
     <1>49, <1>50, <1>51
     DEF Next, Request, Fault, CoreStep

\* It leaves the data and the snapshots as the record's phase says.
LEMMA DataFilesStep == ~InboxCleans /\ DataInv /\ [Next]_vars /\ ~tampered' => DataFiles'
<1> SUFFICES ASSUME ~InboxCleans, DataInv, [Next]_vars, ~tampered' PROVE DataFiles'
  OBVIOUS
<1> USE DEF Goto, Done, disk, log, world
<1>0. /\ TypeOK /\ OpOK /\ PhaseSound /\ RecordSound /\ txn \in Txns /\ op \in Ops /\ Files /\ Steps
      /\ Opened /\ DataFiles /\ DataSteps /\ Growing
  BY TamperStays, PairsStay DEF RecordInv, FilesInv, FilesSound, TypeOK, DataInv, DataSound, Growing
<1>1. CASE Crash
  BY <1>0, <1>1, SameData DEF Crash
<1>2. CASE PreDeploySnapshot
  BY <1>0, <1>2, SameData DEF PreDeploySnapshot
<1>3. CASE OpenTxn
  <2>1. /\ txn.id = 0 /\ pc = "open" /\ UNCHANGED <<disk, data>>
        /\ OpenNew("bundle", op.ref, IF Deployed THEN liveJson ELSE None)
    BY <1>0, <1>3 DEF OpenTxn, PhaseSound
  <2>2. /\ txn'.id # 0 /\ txn'.source = "bundle" /\ txn'.phase = "committed"
        /\ base'.code = code /\ base'.prev = prev /\ base'.meta = prevMeta /\ base'.data = data
    BY <1>0, <2>1, OpenRecord
  <2>3. txn'.snap = op.snap
    BY <2>1, NewSnap DEF OpenNew
  <2>4. Pairs(snaps', txn'.snap, code) /\ Bundle' /\ ~PastKeep'
    BY <1>0, <2>1, <2>2, <2>3 DEF DataSteps, Growing, Bundle, PastKeep
  <2>5. QED
    BY <1>0, <2>1, <2>2, <2>4 DEF DataFiles, Growing
<1>4. CASE UndoDropPrev
  <2>1. txn.id # 0 /\ Bundle /\ ~PastKeep
    BY <1>0, <1>4 DEF UndoDropPrev, PhaseSound, OutsideTxn, Keeping, Steps, CloseSteps, PastKeep
  <2>2. prev' \in {NoTree, base.code, base.prev}
    BY <1>0, <1>4, <2>1 DEF UndoDropPrev, DataFiles
  <2>3. QED
    BY <1>0, <1>4, <2>1, <2>2, KeepingData DEF UndoDropPrev
<1>5. CASE UndoDir
  <2>1. txn.id # 0 /\ Bundle /\ ~PastKeep
    BY <1>0, <1>5 DEF UndoDir, PhaseSound, OutsideTxn, Keeping, Steps, CloseSteps, PastKeep
  <2>2. prev' \in {NoTree, base.code, base.prev}
    BY <1>0, <1>5, <2>1 DEF UndoDir, DataFiles, Files, FoundFiles
  <2>3. QED
    BY <1>0, <1>5, <2>1, <2>2, KeepingData DEF UndoDir
<1>6. CASE UndoDropMeta
  <2>1. txn.id # 0 /\ Bundle /\ ~PastKeep
    BY <1>0, <1>6 DEF UndoDropMeta, PhaseSound, OutsideTxn, Keeping, Steps, CloseSteps, PastKeep
  <2>2. prev' \in {NoTree, base.code, base.prev}
    BY <1>0, <1>6, <2>1 DEF UndoDropMeta, DataFiles
  <2>3. QED
    BY <1>0, <1>6, <2>1, <2>2, KeepingData DEF UndoDropMeta
<1>7. CASE UndoMeta
  <2>1. txn.id # 0 /\ Bundle /\ ~PastKeep
    BY <1>0, <1>7 DEF UndoMeta, PhaseSound, OutsideTxn, Keeping, Steps, CloseSteps, PastKeep
  <2>2. prev' \in {NoTree, base.code, base.prev}
    BY <1>0, <1>7, <2>1 DEF UndoMeta, DataFiles
  <2>3. QED
    BY <1>0, <1>7, <2>1, <2>2, KeepingData DEF UndoMeta
<1>8. CASE KeepAside
  <2>1. txn.id # 0 /\ Bundle /\ ~PastKeep
    BY <1>0, <1>8 DEF KeepAside, PhaseSound, OutsideTxn, Keeping, Steps, CloseSteps, PastKeep
  <2>2. prev' \in {NoTree, base.code, base.prev}
    BY <1>0, <1>8, <2>1 DEF KeepAside, DataFiles
  <2>3. QED
    BY <1>0, <1>8, <2>1, <2>2, KeepingData DEF KeepAside
<1>9. CASE KeepAsideMeta
  <2>1. txn.id # 0 /\ Bundle /\ ~PastKeep
    BY <1>0, <1>9 DEF KeepAsideMeta, PhaseSound, OutsideTxn, Keeping, Steps, CloseSteps, PastKeep
  <2>2. prev' \in {NoTree, base.code, base.prev}
    BY <1>0, <1>9, <2>1 DEF KeepAsideMeta, DataFiles
  <2>3. QED
    BY <1>0, <1>9, <2>1, <2>2, KeepingData DEF KeepAsideMeta
<1>10. CASE KeepDir
  <2>1. txn.id # 0 /\ Bundle /\ ~PastKeep
    BY <1>0, <1>10 DEF KeepDir, PhaseSound, OutsideTxn, Keeping, Steps, CloseSteps, PastKeep
  <2>2. prev' \in {NoTree, base.code, base.prev}
    <3>1. txn.phase = "committed" /\ prev' = code
      BY <1>0, <1>10 DEF KeepDir, PhaseSound, Keeping
    <3>2. code = base.code
      BY <1>0, <2>1, <3>1 DEF Files, BundleFiles, Undoable, UndoFiles
    <3>3. QED
      BY <3>1, <3>2
  <2>3. QED
    BY <1>0, <1>10, <2>1, <2>2, KeepingData DEF KeepDir
<1>11. CASE KeepMeta
  <2>1. txn.id # 0 /\ Bundle /\ ~PastKeep
    BY <1>0, <1>11 DEF KeepMeta, PhaseSound, OutsideTxn, Keeping, Steps, CloseSteps, PastKeep
  <2>2. prev' \in {NoTree, base.code, base.prev}
    BY <1>0, <1>11, <2>1 DEF KeepMeta, DataFiles
  <2>3. QED
    BY <1>0, <1>11, <2>1, <2>2, KeepingData DEF KeepMeta
<1>12. CASE KeepFails
  BY <1>0, <1>12, SameData DEF KeepFails
<1>13. CASE AdvanceKept
  <2>1. AdvanceTo("previous_kept") /\ UNCHANGED <<disk, base, data>> /\ txn.id # 0 /\ pc = "kept"
    BY <1>0, <1>13 DEF AdvanceKept, PhaseSound, OutsideTxn
  <2>2. /\ txn'.id = txn.id /\ txn'.source = txn.source /\ txn'.replaced = txn.replaced
        /\ txn'.touched = txn.touched /\ txn'.phase = "previous_kept" /\ txn'.snap = txn.snap
    BY <1>0, <2>1, AdvanceSame DEF Phases
  <2>3. /\ Bundle /\ txn.phase = "committed"
        /\ Kept => prev = base.code /\ prevMeta.snap = txn.snap
    BY <1>0, <2>1 DEF Steps, KeepSteps, DataSteps
  <2>4. Undoable
    BY <1>0, <2>1, <2>3 DEF Undoable, Files, BundleFiles
  <2>5. Kept => Pairs(snaps, txn.snap, prev) /\ Pairs(snaps, prevMeta.snap, prev)
    BY <1>0, <2>1, <2>3, <2>4 DEF DataFiles
  <2>6. Bundle' /\ Kept' = Kept
    BY <2>2, <2>3 DEF Bundle, Kept
  <2>7. QED
    BY <1>0, <2>1, <2>2, <2>4, <2>5, <2>6 DEF DataFiles, Growing
<1>14. CASE OverRollbackSnapshot
  BY <1>0, <1>14, SameData DEF OverRollbackSnapshot
<1>15. CASE Supersede
  <2>1. /\ SupersedeBy("bundle", op.ref,
           IF txn.source = "rollback" THEN prevMeta.ref ELSE txn.replaced,
                       "previous_kept")
        /\ UNCHANGED <<disk, base, data>> /\ txn.id # 0 /\ pc = "supersede"
    BY <1>0, <1>15 DEF Supersede, SupersedeBy, PhaseSound, OutsideTxn
  <2>2. /\ txn'.id # 0 /\ txn'.source = "bundle" /\ txn'.phase = "previous_kept"
        /\ txn'.replaced = (IF txn.source = "rollback" THEN prevMeta.ref ELSE txn.replaced)
        /\ txn'.touched = TouchedBy(txn)
    BY <1>0, <2>1, NewRecord DEF SupersedeBy
  <2>3. txn'.snap = op.snap
    BY <2>1, NewSnap DEF SupersedeBy
  <2>4. Kept' => Pairs(snaps, op.snap, prev) /\ Pairs(snaps, prevMeta.snap, prev)
    <3>1. CASE Bundle
      <4>1. PastKeep /\ op.snap = txn.snap /\ Kept' = Kept
        BY <1>0, <2>1, <2>2, <3>1 DEF Steps, CloseSteps, DataSteps, Kept, Bundle
      <4>2. QED
        BY <1>0, <2>1, <4>1 DEF DataFiles
    <3>2. CASE ~Bundle
      BY <1>0, <2>1, <3>2 DEF Steps, CloseSteps, DataSteps, DataFiles
    <3>3. QED
      BY <3>1, <3>2
  <2>5. Undoable' /\ Kept' => Pairs(snaps, op.snap, base.code)
    <3>1. SUFFICES ASSUME Undoable', Kept' PROVE Pairs(snaps, op.snap, base.code)
      OBVIOUS
    <3>2. TouchedBy(txn) = ""
      BY <2>2, <3>1 DEF Undoable
    <3>3. Bundle /\ txn.touched = "" /\ txn.phase \notin {"hook_started", "switching"}
      BY <1>0, <3>2, ReachedPhases, TxnFields
         DEF TouchedBy, ContainersMayRunOther, DataMayHaveChanged, Bundle
    <3>4. PastKeep /\ ~Abandoning(txn) /\ op.snap = txn.snap
      BY <1>0, <2>1, <3>3 DEF Steps, CloseSteps, DataSteps
    <3>5. Undoable
      BY <3>3, <3>4 DEF PastKeep, Undoable, Abandoning, AbandonPhases
    <3>6. Kept
      BY <2>2, <3>1, <3>3 DEF Kept, Bundle
    <3>7. QED
      BY <1>0, <2>1, <3>4, <3>5, <3>6 DEF DataFiles
  <2>6. Bundle'
    BY <2>2 DEF Bundle
  <2>7. QED
    BY <1>0, <2>1, <2>2, <2>3, <2>4, <2>5, <2>6 DEF DataFiles, Growing
<1>16. CASE EnsurePairing
  BY <1>0, <1>16, PairingData DEF EnsurePairing, PhaseSound, Abandoning, AbandonPhases
<1>17. CASE InstallBegin
  <2>1. txn.id # 0 /\ (Bundle \/ ~DataRestored)
    BY <1>0, <1>17
       DEF InstallBegin, PhaseSound, OutsideTxn, Steps, CodeSteps, Installing, DataRestored
  <2>2. QED
    BY <1>0, <1>17, <2>1, OpenData DEF InstallBegin
<1>18. CASE InstallEnd
  <2>1. txn.id # 0 /\ (Bundle \/ ~DataRestored)
    BY <1>0, <1>18
       DEF InstallEnd, PhaseSound, OutsideTxn, Steps, CodeSteps, Installing, DataRestored
  <2>2. QED
    BY <1>0, <1>18, <2>1, OpenData DEF InstallEnd
<1>19. CASE MarkLive
  BY <1>0, <1>19, SameData DEF MarkLive
<1>20. CASE AdvanceInstalled
  <2>1. AdvanceTo("installed") /\ UNCHANGED <<disk, base, data>> /\ txn.id # 0
    BY <1>0, <1>20 DEF AdvanceInstalled, PhaseSound, OutsideTxn
  <2>2. txn'.source = txn.source /\ txn'.touched = txn.touched /\ txn'.phase = "installed"
    BY <1>0, <2>1, AdvanceSame DEF Phases
  <2>3. Undoable' => Undoable
    BY <1>0, <1>20, <2>2 DEF AdvanceInstalled, Undoable, Bundle, Steps, CodeSteps
  <2>4. PastKeep' => PastKeep
    BY <1>0, <1>20, <2>2 DEF AdvanceInstalled, PastKeep, Bundle, Steps, CodeSteps
  <2>5. ~DataRestored'
    BY <2>2 DEF DataRestored
  <2>6. QED
    BY <1>0, <2>1, <2>3, <2>4, <2>5, AdvanceData DEF Phases
<1>21. CASE OnInstalled
  BY <1>0, <1>21, SameData DEF OnInstalled
<1>22. CASE AdvanceHookStarted
  <2>1. CASE UNCHANGED txn
    BY <1>0, <1>22, <2>1, SameData DEF AdvanceHookStarted
  <2>2. CASE AdvanceTo("hook_started")
    <3>1. AdvanceTo("hook_started") /\ UNCHANGED <<disk, base, data>> /\ txn.id # 0
      BY <1>0, <1>22, <2>2 DEF AdvanceHookStarted, PhaseSound, OutsideTxn
    <3>2. txn'.source = txn.source /\ txn'.touched = txn.touched /\ txn'.phase = "hook_started"
      BY <1>0, <3>1, AdvanceSame DEF Phases
    <3>3. ~Undoable'
      BY <3>2 DEF Undoable
    <3>4. PastKeep' => PastKeep
      BY <1>0, <1>22, <3>2
         DEF AdvanceHookStarted, PastKeep, Bundle, Steps, CodeSteps, Installed, PhaseSound
    <3>5. ~Bundle => data <= code.gen
      BY <1>0, <1>22 DEF AdvanceHookStarted, DataSteps, DataFiles, PhaseSound, OutsideTxn
    <3>6. QED
      BY <1>0, <3>1, <3>3, <3>4, <3>5, AdvanceData DEF Phases
  <2>3. QED
    BY <1>22, <2>1, <2>2 DEF AdvanceHookStarted
<1>23. CASE RunHook
  <2>1. txn.id # 0 /\ DataRestored /\ data' \in {data, WrittenBy(code)} /\ UNCHANGED code
    BY <1>0, <1>23 DEF RunHook, PhaseSound, OutsideTxn, Steps, CodeSteps, DataRestored
  <2>2. ~Bundle => data' <= code'.gen
    BY <1>0, <2>1, Numbers DEF DataFiles, WrittenBy
  <2>3. QED
    BY <1>0, <1>23, <2>1, <2>2, OpenData DEF RunHook
<1>24. CASE HookFails
  <2>1. txn.id # 0 /\ DataRestored /\ data' \in {data, WrittenBy(code)} /\ UNCHANGED code
    BY <1>0, <1>24 DEF HookFails, PhaseSound, OutsideTxn, Steps, CodeSteps, DataRestored
  <2>2. ~Bundle => data' <= code'.gen
    BY <1>0, <2>1, Numbers DEF DataFiles, WrittenBy
  <2>3. QED
    BY <1>0, <1>24, <2>1, <2>2, OpenData DEF HookFails
<1>25. CASE AdvanceSwitching
  <2>1. CASE UNCHANGED txn
    BY <1>0, <1>25, <2>1, SameData DEF AdvanceSwitching
  <2>2. CASE AdvanceTo("switching")
    <3>1. AdvanceTo("switching") /\ UNCHANGED <<disk, base, data>> /\ txn.id # 0
      BY <1>0, <1>25, <2>2 DEF AdvanceSwitching, PhaseSound, OutsideTxn
    <3>2. txn'.source = txn.source /\ txn'.touched = txn.touched /\ txn'.phase = "switching"
      BY <1>0, <3>1, AdvanceSame DEF Phases
    <3>3. ~Undoable'
      BY <3>2 DEF Undoable
    <3>4. PastKeep' => PastKeep
      BY <1>0, <1>25, <3>2 DEF AdvanceSwitching, PastKeep, Bundle, Steps, CodeSteps
    <3>5. DataRestored
      BY <1>0, <1>25 DEF AdvanceSwitching, Steps, CodeSteps, DataRestored
    <3>6. QED
      BY <1>0, <3>1, <3>3, <3>4, <3>5, AdvanceData DEF Phases
  <2>3. QED
    BY <1>25, <2>1, <2>2 DEF AdvanceSwitching
<1>26. CASE StartRelease
  <2>1. txn.id # 0 /\ DataRestored /\ data' \in {data, WrittenBy(code)} /\ UNCHANGED code
    BY <1>0, <1>26 DEF StartRelease, PhaseSound, OutsideTxn, Steps, CodeSteps, DataRestored
  <2>2. ~Bundle => data' <= code'.gen
    BY <1>0, <2>1, Numbers DEF DataFiles, WrittenBy
  <2>3. QED
    BY <1>0, <1>26, <2>1, <2>2, OpenData DEF StartRelease
<1>27. CASE RecordDeploy
  BY <1>0, <1>27, SameData DEF RecordDeploy
<1>28. CASE DiscardPreviousMeta
  <2>1. txn.id # 0 /\ ~Bundle /\ UNCHANGED <<txn, base, prev, code, data>> /\ prevMeta' = NoMeta
    BY <1>0, <1>28 DEF DiscardPreviousMeta, PhaseSound, OutsideTxn, Bundle
  <2>2. UNCHANGED <<Bundle, Kept, Undoable, PastKeep, DataRestored>> /\ ~PastKeep
    BY <2>1, SameTxn DEF DataRestored, PastKeep
  <2>3. QED
    BY <1>0, <2>1, <2>2 DEF DataFiles, Growing
<1>29. CASE DiscardPreviousDir
  <2>1. /\ txn.id # 0 /\ ~Bundle /\ UNCHANGED <<txn, base, prevMeta, code, data>>
        /\ prevMeta = NoMeta /\ prev' = NoTree
    BY <1>0, <1>29 DEF DiscardPreviousDir, PhaseSound, OutsideTxn, Bundle, Steps, CloseSteps
  <2>2. UNCHANGED <<Bundle, Kept, Undoable, PastKeep, DataRestored>> /\ ~PastKeep
    BY <2>1, SameTxn DEF DataRestored, PastKeep
  <2>3. QED
    BY <1>0, <2>1, <2>2 DEF DataFiles, Growing
<1>30. CASE CloseDir
  BY <1>0, <1>30, SameData DEF CloseDir
<1>31. CASE CloseMeta
  BY <1>0, <1>31, SameData DEF CloseMeta
<1>32. CASE CloseRecord
  <2>1. txn' = NoTxn /\ UNCHANGED <<disk, data>> /\ pc = "closeRecord" /\ txn.id # 0
    BY <1>0, <1>32 DEF CloseRecord, PhaseSound, OutsideTxn
  <2>2. txn'.id = 0
    BY <2>1, BlankFields
  <2>3. data <= code.gen /\ Pairs(snaps, prevMeta.snap, prev)
    <3>1. CASE Undoable
      <4>1. /\ prev = base.prev /\ prevMeta = base.meta
               /\ txn.phase \in {"committed", "abandoned_code"}
        BY <1>0, <2>1, <3>1 DEF Steps, CloseSteps, Closing
      <4>2. code = base.code /\ data = base.data
        BY <1>0, <2>1, <3>1, <4>1 DEF Files, UndoFiles
      <4>3. QED
        BY <1>0, <2>1, <4>1, <4>2 DEF DataFiles
    <3>2. CASE ~Undoable /\ Bundle
      <4>1. txn.phase = "switching" /\ PastKeep /\ BundleFiles
        BY <1>0, <2>1, <3>2 DEF Steps, CloseSteps, Closing, PastKeep, Files
      <4>2. code.gen = txn.id
        BY <4>1, NoGen DEF BundleFiles
      <4>3. data <= code.gen
        BY <1>0, <2>1, <4>2, Numbers DEF Opened
      <4>4. ~Kept => prev = base.prev /\ prevMeta = base.meta
        BY <4>1 DEF BundleFiles
      <4>5. Pairs(snaps, prevMeta.snap, prev)
        BY <1>0, <2>1, <4>1, <4>4 DEF DataFiles
      <4>6. QED
        BY <4>3, <4>5
    <3>3. CASE ~Undoable /\ ~Bundle
      <4>1. txn.phase = "switching"
        BY <1>0, <2>1, <3>3 DEF Steps, CloseSteps, Closing
      <4>2. data <= code.gen /\ (prevMeta # NoMeta => Pairs(snaps, prevMeta.snap, prev))
        BY <1>0, <2>1, <3>3, <4>1 DEF DataFiles, DataRestored
      <4>3. QED
        BY <4>2, NoGen DEF Pairs
    <3>4. QED
      BY <3>1, <3>2, <3>3
  <2>4. QED
    BY <1>0, <2>1, <2>2, <2>3 DEF DataFiles, Growing
<1>33. CASE Rollback
  <2>1. /\ UNCHANGED <<txn, base, prev, code, data>>
        /\ prevMeta' \in {prevMeta, PairedMeta(txn)} /\ ~Abandoning(txn)
    BY <1>33, NoTxnFields, <1>0 DEF Rollback, PhaseSound, Abandoning, AbandonPhases
  <2>2. QED
    BY <1>0, <2>1, SameData, PairingData
<1>34. CASE OpenRollback
  <2>1. /\ pc = "openRollback" /\ UNCHANGED <<disk, data>> /\ prevMeta # NoMeta
        /\ Pairs(snaps, op.snap, prev)
    BY <1>0, <1>34 DEF OpenRollback, Steps, CloseSteps, DataSteps
  <2>2. /\ txn'.id # 0 /\ txn'.source = "rollback" /\ txn'.phase = "committed"
           /\ txn'.snap = op.snap
    <3>1. CASE txn.id = 0 /\ OpenNew("rollback", op.ref, liveJson)
      BY <1>0, <3>1, OpenRecord, NewSnap DEF OpenNew
    <3>2. CASE SupersedeBy("rollback", op.ref, liveJson, "committed")
      BY <1>0, <3>2, NewRecord, NewSnap DEF SupersedeBy
    <3>3. QED
      BY <1>34, <3>1, <3>2 DEF OpenRollback
  <2>3. /\ base'.data <= base'.code.gen /\ Pairs(snaps, base'.meta.snap, base'.prev)
        /\ prev \in {NoTree, base'.code, base'.prev}
    <3>1. CASE txn.id = 0
      <4>1. OpenNew("rollback", op.ref, liveJson)
        BY <1>34, <3>1 DEF OpenRollback
      <4>2. base'.code = code /\ base'.prev = prev /\ base'.meta = prevMeta /\ base'.data = data
        BY <1>0, <4>1, OpenRecord
      <4>3. QED
        BY <1>0, <3>1, <4>2 DEF DataFiles
    <3>2. CASE txn.id # 0
      BY <1>0, <1>34, <3>2 DEF OpenRollback, SupersedeBy, DataFiles
    <3>3. QED
      BY <3>1, <3>2
  <2>4. Pairs(snaps, prevMeta.snap, prev)
    BY <1>0, <2>1 DEF DataSteps
  <2>5. ~Bundle' /\ ~DataRestored' /\ ~Undoable' /\ ~PastKeep'
    BY <2>2 DEF Bundle, DataRestored, Undoable, PastKeep
  <2>6. QED
    BY <1>0, <2>1, <2>2, <2>3, <2>4, <2>5 DEF DataFiles, Growing
<1>35. CASE RestoreBegin
  <2>1. txn.id # 0 /\ ~Bundle
    BY <1>0, <1>35 DEF RestoreBegin, PhaseSound, OutsideTxn, Bundle
  <2>2. ~DataRestored \/ data' <= code'.gen
    BY <1>0, <1>35 DEF RestoreBegin, DataSteps
  <2>3. QED
    BY <1>0, <1>35, <2>1, <2>2, OpenData DEF RestoreBegin
<1>36. CASE RestoreEnd
  <2>1. txn.id # 0 /\ ~Bundle
    BY <1>0, <1>36 DEF RestoreEnd, PhaseSound, OutsideTxn, Bundle
  <2>2. ~DataRestored \/ data' <= code'.gen
    BY <1>0, <1>36 DEF RestoreEnd, DataSteps
  <2>3. QED
    BY <1>0, <1>36, <2>1, <2>2, OpenData DEF RestoreEnd
<1>37. CASE RestoreFails
  <2>1. txn.id # 0 /\ ~Bundle
    BY <1>0, <1>37 DEF RestoreFails, PhaseSound, OutsideTxn, Bundle
  <2>2. ~DataRestored \/ data' <= code'.gen
    BY <1>0, <1>37 DEF RestoreFails, DataSteps
  <2>3. QED
    BY <1>0, <1>37, <2>1, <2>2, OpenData DEF RestoreFails
<1>38. CASE AdvanceDataRestored
  <2>1. AdvanceTo("data_restored") /\ UNCHANGED <<disk, base, data>> /\ txn.id # 0
    BY <1>0, <1>38 DEF AdvanceDataRestored, PhaseSound, OutsideTxn
  <2>2. txn'.source = txn.source /\ txn'.touched = txn.touched /\ txn'.phase = "data_restored"
    BY <1>0, <2>1, AdvanceSame DEF Phases
  <2>3. ~Undoable'
    BY <2>2 DEF Undoable
  <2>4. ~PastKeep'
    BY <2>2 DEF PastKeep
  <2>5. data <= code.gen
    BY <1>0, <1>38 DEF AdvanceDataRestored, DataSteps
  <2>6. QED
    BY <1>0, <2>1, <2>3, <2>4, <2>5, AdvanceData DEF Phases
<1>39. CASE Abandon
  <2>1. Undoable
    BY <1>0, <1>39, ReachedPhases, TxnFields
       DEF Abandon, DataMayHaveChanged, PhaseSound, Undoable, Bundle, Phases
  <2>2. CASE UNCHANGED txn
    BY <1>0, <1>39, <2>2, SameData DEF Abandon
  <2>3. CASE AdvanceTo("abandoning") /\ txn.phase \in {"previous_kept", "installed"}
    <3>1. AdvanceTo("abandoning") /\ UNCHANGED <<disk, base, data>> /\ txn.id # 0
      BY <1>0, <1>39, <2>3 DEF Abandon, PhaseSound, OutsideTxn
    <3>2. txn'.source = txn.source /\ txn'.touched = txn.touched /\ txn'.phase = "abandoning"
      BY <1>0, <3>1, AdvanceSame DEF Phases
    <3>3. Undoable' => Undoable
      BY <2>1, <2>3
    <3>4. PastKeep' => PastKeep
      BY <2>1, <2>3, <3>2 DEF PastKeep, Bundle
    <3>5. ~DataRestored'
      BY <3>2 DEF DataRestored
    <3>6. QED
      BY <1>0, <3>1, <3>3, <3>4, <3>5, AdvanceData DEF Phases
  <2>4. QED
    BY <1>39, <2>2, <2>3 DEF Abandon
<1>40. CASE CodeRestored
  <2>1. AdvanceTo("abandoned_code") /\ UNCHANGED <<disk, base, data>> /\ txn.id # 0
    BY <1>0, <1>40 DEF CodeRestored, PhaseSound, OutsideTxn
  <2>2. txn'.source = txn.source /\ txn'.touched = txn.touched /\ txn'.phase = "abandoned_code"
    BY <1>0, <2>1, AdvanceSame DEF Phases
  <2>3. Undoable' => Undoable
    BY <1>0, <1>40 DEF CodeRestored, Steps, CodeSteps
  <2>4. ~PastKeep'
    BY <2>2 DEF PastKeep
  <2>5. ~DataRestored'
    BY <2>2 DEF DataRestored
  <2>6. QED
    BY <1>0, <2>1, <2>3, <2>4, <2>5, AdvanceData DEF Phases
<1>41. CASE Drop
  BY <1>0, <1>41, SameData DEF Drop
<1>42. CASE RescueDir
  BY <1>0, <1>42 DEF RescueDir, RecordSound
<1>43. CASE RescueMeta
  BY <1>0, <1>43 DEF RescueMeta, RecordSound
<1>44. CASE RedeploySnapshot
  BY <1>0, <1>44, SameData DEF RedeploySnapshot
<1>45. CASE RedeployStart
  <2>1. txn.id = 0 /\ UNCHANGED <<txn, disk>> /\ data' = WrittenBy(code)
    BY <1>0, <1>45 DEF RedeployStart, Steps, CloseSteps
  <2>2. data' <= code'.gen
    BY <1>0, <2>1, Numbers DEF DataFiles, WrittenBy
  <2>3. QED
    BY <1>0, <2>1, <2>2 DEF DataFiles, Growing
<1>46. CASE OtherStart
  <2>1. txn.id = 0 /\ UNCHANGED <<txn, disk>> /\ data' = WrittenBy(code)
    BY <1>0, <1>46 DEF OtherStart, Steps, CloseSteps
  <2>2. data' <= code'.gen
    BY <1>0, <2>1, Numbers DEF DataFiles, WrittenBy
  <2>3. QED
    BY <1>0, <2>1, <2>2 DEF DataFiles, Growing
<1>47. CASE InboxClean
  BY <1>47 DEF InboxClean
<1>48. CASE Tamper
  BY <1>48 DEF Tamper
<1>49. ASSUME NEW r \in Refs, Deploy(r) PROVE DataFiles'
  BY <1>0, <1>49, PairingData DEF Deploy
<1>50. ASSUME NEW r \in Refs, Upload(r) PROVE DataFiles'
  BY <1>0, <1>50, SameData DEF Upload
<1>51. CASE UNCHANGED vars
  BY <1>0, <1>51, SameData DEF vars
<1>52. QED
  BY <1>1, <1>2, <1>3, <1>4, <1>5, <1>6, <1>7, <1>8, <1>9, <1>10, <1>11, <1>12,
     <1>13, <1>14, <1>15, <1>16, <1>17, <1>18, <1>19, <1>20, <1>21, <1>22, <1>23, <1>24,
     <1>25, <1>26, <1>27, <1>28, <1>29, <1>30, <1>31, <1>32, <1>33, <1>34, <1>35, <1>36,
     <1>37, <1>38, <1>39, <1>40, <1>41, <1>42, <1>43, <1>44, <1>45, <1>46, <1>47, <1>48,
     <1>49, <1>50, <1>51
     DEF Next, Request, Fault, CoreStep

\* It leaves the core what it relies on.
LEMMA DataStepsStep == ~InboxCleans /\ DataInv /\ [Next]_vars /\ ~tampered' => DataSteps'
<1> SUFFICES ASSUME ~InboxCleans, DataInv, [Next]_vars, ~tampered' PROVE DataSteps'
  OBVIOUS
<1> USE DEF Goto, Done, disk, log, world
<1>0. /\ TypeOK /\ OpOK /\ PhaseSound /\ RecordSound /\ txn \in Txns /\ op \in Ops /\ Files /\ Steps
      /\ Opened /\ DataFiles /\ DataSteps /\ Growing
  BY TamperStays, PairsStay DEF RecordInv, FilesInv, FilesSound, TypeOK, DataInv, DataSound, Growing
<1>1. CASE Crash
  BY <1>1, QuietSteps DEF Crash
<1>2. CASE PreDeploySnapshot
  <2>1. txn.id = 0 /\ pc' = "open" /\ UNCHANGED code
    BY <1>0, <1>2 DEF PreDeploySnapshot, PhaseSound
  <2>2. Pairs(snaps', op'.snap, code)
    <3>1. CASE TakeSnapshot
      BY <1>0, <2>1, <3>1, SnapshotPairs DEF DataFiles
    <3>2. CASE op' = [op EXCEPT !.snap = 0]
      <4>1. op'.snap = 0
        BY <1>0, <3>2 DEF Ops
      <4>2. QED
        BY <4>1 DEF Pairs
    <3>3. QED
      BY <1>2, <3>1, <3>2 DEF PreDeploySnapshot
  <2>3. QED
    BY <2>1, <2>2 DEF DataSteps, Installing
<1>3. CASE OpenTxn
  <2>1. OpenNew("bundle", op.ref, IF Deployed THEN liveJson ELSE None)
    BY <1>3 DEF OpenTxn
  <2>2. txn'.replaced = (IF Deployed THEN liveJson ELSE None)
    BY <1>0, <2>1, OpenRecord
  <2>3. pc' = IF Kept' THEN "undoDir" ELSE "kept"
    BY <1>3, <2>2 DEF OpenTxn, Kept
  <2>4. QED
    BY <2>3 DEF DataSteps, Installing
<1>4. CASE UndoDropPrev
  BY <1>4, QuietSteps DEF UndoDropPrev
<1>5. CASE UndoDir
  BY <1>5, QuietSteps DEF UndoDir
<1>6. CASE UndoDropMeta
  BY <1>6, QuietSteps DEF UndoDropMeta
<1>7. CASE UndoMeta
  BY <1>7, QuietSteps DEF UndoMeta, AfterUndo
<1>8. CASE KeepAside
  BY <1>8, QuietSteps DEF KeepAside
<1>9. CASE KeepAsideMeta
  BY <1>9, QuietSteps DEF KeepAsideMeta
<1>10. CASE KeepDir
  BY <1>10, QuietSteps DEF KeepDir
<1>11. CASE KeepMeta
  <2>1. pc' = "kept" /\ prevMeta'.snap = txn'.snap
    BY <1>11 DEF KeepMeta, KeptMeta
  <2>2. QED
    BY <2>1 DEF DataSteps, Installing
<1>12. CASE KeepFails
  BY <1>12, QuietSteps DEF KeepFails
<1>13. CASE AdvanceKept
  <2>1. pc' = "install" /\ Bundle
    BY <1>0, <1>13 DEF AdvanceKept, Steps, KeepSteps
  <2>2. Bundle'
    BY <1>0, <1>13, <2>1, AdvanceSame DEF AdvanceKept, Bundle, Phases
  <2>3. QED
    BY <2>1, <2>2 DEF DataSteps
<1>14. CASE OverRollbackSnapshot
  <2>1. pc = "overRollback" /\ pc' = "supersede" /\ txn.id # 0 /\ UNCHANGED <<txn, prev>>
        /\ TakeSnapshot
    BY <1>0, <1>14 DEF OverRollbackSnapshot, PhaseSound, OutsideTxn
  <2>2. ~Bundle /\ DataRestored /\ prevMeta # NoMeta
    BY <1>0, <2>1 DEF DataSteps, Steps, CloseSteps
  <2>3. data <= prev.gen
    BY <1>0, <2>1, <2>2 DEF DataFiles, DataRestored, Files, RollbackFiles, Installed
  <2>4. Pairs(snaps', op'.snap, prev)
    BY <1>0, <2>1, <2>3, SnapshotPairs
  <2>5. ~Bundle'
    BY <2>1, <2>2 DEF Bundle
  <2>6. QED
    BY <2>1, <2>4, <2>5 DEF DataSteps, Installing
<1>15. CASE Supersede
  BY <1>15, QuietSteps DEF Supersede
<1>16. CASE EnsurePairing
  <2>1. pc' = "install" /\ Bundle'
    BY <1>0, <1>16 DEF EnsurePairing, Steps, CloseSteps, Bundle
  <2>2. QED
    BY <2>1 DEF DataSteps
<1>17. CASE InstallBegin
  <2>1. /\ UNCHANGED <<txn, Bundle, op, prev>> /\ pc = "install"
        /\ pc' = "installing" \/ (pc' = "hook" /\ Bundle)
    BY <1>0, <1>17, SameTxn DEF InstallBegin, Steps, CodeSteps
  <2>2. QED
    BY <1>0, <2>1 DEF DataSteps, Installing, Growing
<1>18. CASE InstallEnd
  <2>1. UNCHANGED <<txn, Bundle, op, prev>> /\ pc = "installing" /\ pc' = "markLive"
    BY <1>18, SameTxn DEF InstallEnd
  <2>2. QED
    BY <1>0, <2>1 DEF DataSteps, Installing, Growing
<1>19. CASE MarkLive
  <2>1. /\ UNCHANGED <<txn, Bundle, op, prev>> /\ pc = "markLive"
        /\ pc' \in {"codeRestored", "onInstalled", "installed"}
    BY <1>19, SameTxn DEF MarkLive
  <2>2. QED
    BY <1>0, <2>1 DEF DataSteps, Installing, Growing
<1>20. CASE AdvanceInstalled
  <2>1. /\ UNCHANGED <<op, prev>> /\ pc = "installed"
        /\ pc' = "onInstalled" \/ (pc' = "restore" /\ ~Bundle)
    BY <1>20 DEF AdvanceInstalled, Bundle
  <2>2. ~DataRestored'
    BY <1>0, <1>20, AdvanceSame DEF AdvanceInstalled, DataRestored, Phases
  <2>3. QED
    BY <1>0, <2>1, <2>2 DEF DataSteps, Installing, Growing
<1>21. CASE OnInstalled
  <2>1. pc' = "idle" \/ (pc' = "hook" /\ Bundle')
    BY <1>0, <1>21 DEF OnInstalled, Steps, CodeSteps, Bundle
  <2>2. QED
    BY <2>1 DEF DataSteps, Installing
<1>22. CASE AdvanceHookStarted
  BY <1>22, QuietSteps DEF AdvanceHookStarted
<1>23. CASE RunHook
  BY <1>23, QuietSteps DEF RunHook
<1>24. CASE HookFails
  BY <1>24, QuietSteps DEF HookFails
<1>25. CASE AdvanceSwitching
  BY <1>25, QuietSteps DEF AdvanceSwitching
<1>26. CASE StartRelease
  <2>1. pc' = "record" /\ UNCHANGED code
    BY <1>26 DEF StartRelease
  <2>2. op'.ok => running' = code
    <3>1. CASE running' = code
      BY <3>1
    <3>2. CASE op' = [op EXCEPT !.ok = FALSE]
      BY <1>0, <3>2 DEF Ops
    <3>3. QED
      BY <1>26, <3>1, <3>2 DEF StartRelease
  <2>3. QED
    BY <2>1, <2>2 DEF DataSteps, Installing
<1>27. CASE RecordDeploy
  <2>1. /\ UNCHANGED <<code, running>> /\ pc = "record"
        /\ pc' = "closeDir" \/ (pc' = "discardMeta" /\ op.ok)
    BY <1>27 DEF RecordDeploy
  <2>2. QED
    BY <1>0, <2>1 DEF DataSteps, Installing
<1>28. CASE DiscardPreviousMeta
  BY <1>28, QuietSteps DEF DiscardPreviousMeta
<1>29. CASE DiscardPreviousDir
  BY <1>29, QuietSteps DEF DiscardPreviousDir
<1>30. CASE CloseDir
  BY <1>30, QuietSteps DEF CloseDir
<1>31. CASE CloseMeta
  BY <1>31, QuietSteps DEF CloseMeta
<1>32. CASE CloseRecord
  BY <1>32, QuietSteps DEF CloseRecord
<1>33. CASE Rollback
  <2>1. UNCHANGED <<txn, Bundle, DataRestored, prev>>
    BY <1>33, SameTxn DEF Rollback, DataRestored
  <2>2. CASE pc' = "discardMeta" /\ RollbackFinished /\ UNCHANGED prevMeta
    BY <2>2 DEF RollbackFinished, DataSteps, Installing
  <2>3. CASE ~RollbackFinished
    <3>1. /\ prev # NoTree /\ PairedMeta(txn) # NoMeta /\ prevMeta' = PairedMeta(txn)
             /\ pc' = RollbackStep
          /\ txn.id # 0 => ~Abandoning(txn) /\ DataMayHaveChanged(txn)
      BY <1>33, <2>3 DEF Rollback
    <3>2. op'.snap = PairedSnap
      BY <1>33, <2>3, Blanks DEF Rollback, Ops
    <3>3. prevMeta'.snap = PairedSnap
      BY <3>1 DEF PairedMeta, PairedSnap, KeptMeta
    <3>4. Pairs(snaps, PairedSnap, prev)
      BY <1>0, <3>1, MayRollBackPairs
    <3>5. /\ pc' \in {"openRollback", "install", "restore", "hook", "generate"}
          /\ pc' = "hook" => DataRestored
          /\ pc' = "restore" => ~DataRestored
      BY <1>0, <3>1, ReachedPhases DEF RollbackStep, DataRestored
    <3>6. QED
      BY <1>0, <2>1, <3>2, <3>3, <3>4, <3>5 DEF DataSteps, Installing, Growing
  <2>4. QED
    BY <1>33, <2>2, <2>3 DEF Rollback
<1>34. CASE OpenRollback
  <2>1. pc = "openRollback" /\ pc' = "install" /\ UNCHANGED <<op, prev>>
    BY <1>34 DEF OpenRollback
  <2>2. QED
    BY <1>0, <2>1 DEF DataSteps, Installing, Growing
<1>35. CASE RestoreBegin
  <2>1. pc = "restore" /\ pc' = "restoring" /\ UNCHANGED <<op, prev, txn, DataRestored>>
    BY <1>35 DEF RestoreBegin, DataRestored
  <2>2. QED
    BY <1>0, <2>1 DEF DataSteps, Installing, Growing
<1>36. CASE RestoreEnd
  <2>1. /\ pc = "restoring" /\ pc' = "restored" /\ UNCHANGED <<code, op, snaps>>
        /\ data' = IF snaps[op.snap] > code.gen THEN snaps[op.snap] ELSE code.gen
    BY <1>36 DEF RestoreEnd
  <2>2. ~Bundle /\ code = prev
    BY <1>0, <2>1 DEF PhaseSound, Bundle, Steps, CodeSteps, Ready
  <2>3. op.snap \in 1 .. Len(snaps)
    BY <1>0, <2>1 DEF OpOK
  <2>4. snaps[op.snap] <= code.gen
    BY <1>0, <2>1, <2>2, <2>3, Numbers DEF DataSteps, Pairs
  <2>5. data' <= code'.gen
    BY <1>0, <2>1, <2>3, <2>4, Numbers
  <2>6. QED
    BY <2>1, <2>5 DEF DataSteps, Installing
<1>37. CASE RestoreFails
  BY <1>37, QuietSteps DEF RestoreFails
<1>38. CASE AdvanceDataRestored
  <2>1. pc' = "hook" /\ DataRestored'
    BY <1>0, <1>38, AdvanceSame DEF AdvanceDataRestored, DataRestored, Phases
  <2>2. QED
    BY <2>1 DEF DataSteps, Installing
<1>39. CASE Abandon
  <2>1. Undoable /\ Bundle
    BY <1>0, <1>39, ReachedPhases, TxnFields
       DEF Abandon, DataMayHaveChanged, PhaseSound, Undoable, Bundle, Phases
  <2>2. txn'.source = txn.source
    BY <1>0, <1>39, AdvanceSame DEF Abandon, Phases
  <2>3. Bundle' /\ pc' \in {"install", "codeRestored", "undoDir"}
    BY <1>39, <2>1, <2>2 DEF Abandon, Bundle
  <2>4. QED
    BY <2>3 DEF DataSteps, Installing
<1>40. CASE CodeRestored
  BY <1>40, QuietSteps DEF CodeRestored
<1>41. CASE Drop
  BY <1>41, QuietSteps DEF Drop
<1>42. CASE RescueDir
  BY <1>0, <1>42 DEF RescueDir, RecordSound
<1>43. CASE RescueMeta
  BY <1>0, <1>43 DEF RescueMeta, RecordSound
<1>44. CASE RedeploySnapshot
  BY <1>44, QuietSteps DEF RedeploySnapshot
<1>45. CASE RedeployStart
  BY <1>45, QuietSteps DEF RedeployStart
<1>46. CASE OtherStart
  BY <1>46, QuietSteps DEF OtherStart
<1>47. CASE InboxClean
  BY <1>47 DEF InboxClean
<1>48. CASE Tamper
  BY <1>48 DEF Tamper
<1>49. ASSUME NEW r \in Refs, Deploy(r) PROVE DataSteps'
  <2>1. /\ UNCHANGED <<txn, Bundle, Kept, DataRestored, prev>> /\ pc' = DeployStep(r)
        /\ ~Bundle => prevMeta # NoMeta
    BY <1>0, <1>49, SameTxn, TxnFields DEF Deploy, DataRestored, Bundle
  <2>2. op'.snap = txn.snap
    BY <1>49, Blanks DEF Deploy, Ops
  <2>3. CASE pc' = "overRollback"
    <3>1. txn.source = "rollback" /\ Reached(txn, "data_restored")
      BY <2>1, <2>3 DEF DeployStep, FixForwardStep
    <3>2. QED
      BY <1>0, <2>1, <2>3, <3>1, ReachedPhases DEF DataSteps, Installing, Bundle, DataRestored
  <2>4. CASE pc' = "supersede"
    <3>1. txn.id # 0
      BY <2>1, <2>4 DEF DeployStep
    <3>2. ~Bundle => Pairs(snaps, txn.snap, prev)
      BY <1>0, <2>1, <3>1 DEF DataFiles
    <3>3. QED
      BY <1>0, <2>1, <2>2, <2>4, <3>2 DEF DataSteps, Installing, Growing
  <2>5. CASE pc' = "kept"
    <3>1. ~Kept
      BY <2>1, <2>5 DEF DeployStep, FixForwardStep, Kept
    <3>2. QED
      BY <2>1, <2>5, <3>1 DEF DataSteps, Installing
  <2>6. CASE pc' = "install"
    <3>1. Bundle
      BY <2>1, <2>6 DEF DeployStep, FixForwardStep, Bundle
    <3>2. QED
      BY <2>1, <2>6, <3>1 DEF DataSteps, Installing
  <2>7. CASE pc' \in {"snapshot", "undoDir", "generate"}
    BY <2>7, QuietSteps
  <2>8. QED
    BY <2>1, <2>3, <2>4, <2>5, <2>6, <2>7 DEF DeployStep, FixForwardStep
<1>50. ASSUME NEW r \in Refs, Upload(r) PROVE DataSteps'
  BY <1>0, <1>50, SameDataSteps DEF Upload
<1>51. CASE UNCHANGED vars
  BY <1>0, <1>51, SameDataSteps DEF vars
<1>52. QED
  BY <1>1, <1>2, <1>3, <1>4, <1>5, <1>6, <1>7, <1>8, <1>9, <1>10, <1>11, <1>12,
     <1>13, <1>14, <1>15, <1>16, <1>17, <1>18, <1>19, <1>20, <1>21, <1>22, <1>23, <1>24,
     <1>25, <1>26, <1>27, <1>28, <1>29, <1>30, <1>31, <1>32, <1>33, <1>34, <1>35, <1>36,
     <1>37, <1>38, <1>39, <1>40, <1>41, <1>42, <1>43, <1>44, <1>45, <1>46, <1>47, <1>48,
     <1>49, <1>50, <1>51
     DEF Next, Request, Fault, CoreStep

-----------------------------------------------------------------------------
(* The theorems. *)

\* A new box has no data, and no snapshot of it.
LEMMA DataInit == Init => Opened /\ DataSound
<1> SUFFICES ASSUME Init PROVE Opened /\ DataSound
  OBVIOUS
<1>1. /\ txn.id = 0 /\ nextId = 1 /\ data = 0 /\ code.gen = 0 /\ prev.gen = 0 /\ sup.gen = 0
      /\ prevMeta.snap = 0 /\ snaps = <<>> /\ pc = "idle"
  BY BlankFields, NoGen DEF Init
<1>2. base.data = 0 /\ base.code.gen = 0 /\ base.prev.gen = 0
  BY NoGen DEF Init, NoBase
<1>3. Opened
  BY <1>1, <1>2 DEF Opened
<1>4. DataFiles
  BY <1>1 DEF DataFiles, Pairs
<1>5. DataSteps
  BY <1>1 DEF DataSteps, Installing
<1>6. QED
  BY <1>3, <1>4, <1>5 DEF DataSound

\* Where no bundle is removed under an open install, the invariant holds of
\* every state of every run.
LEMMA DataAlways == ASSUME ~InboxCleans PROVE Spec => []DataInv
<1>1. Init => Opened /\ DataSound
  BY DataInit
<1>2. FilesInv /\ FilesInv' /\ DataInv /\ [Next]_vars => DataInv'
  <2>1. FilesInv /\ Opened /\ [Next]_vars => Opened'
    BY OpenedStep DEF FilesInv, RecordInv
  <2>2. DataInv /\ [Next]_vars /\ ~tampered' => DataSound'
    BY DataFilesStep, DataStepsStep DEF DataSound
  <2>3. QED
    BY <2>1, <2>2 DEF DataInv
<1>3. FilesInv /\ Opened /\ DataSound => DataInv
  BY DEF DataInv
<1>4. QED
  BY <1>1, <1>2, <1>3, FilesAlways, PTL DEF Spec

\* Whenever `rollback` would run, the kept release is whole and the one that
\* previous.json names, and the snapshot it would restore holds nothing that a
\* newer release wrote (find_rollback_target).
THEOREM PairingSoundHolds == ASSUME ~InboxCleans PROVE Spec => []PairingSound
<1>1. DataInv => PairingSound
  <2> SUFFICES ASSUME DataInv, MayRollBack, ~tampered, prev # NoTree, prevMeta # NoMeta
               PROVE  /\ prev.whole /\ prev.ref = prevMeta.ref
                      /\ PairedSnap # 0 => /\ PairedSnap <= Len(snaps)
                                           /\ snaps[PairedSnap] <= prev.gen
    BY DEF PairingSound
  <2>1. TypeOK /\ txn \in Txns /\ PhaseSound /\ Files /\ DataFiles
    BY DEF DataInv, FilesInv, RecordInv, FilesSound, TypeOK, DataSound
  <2>2. txn.id # 0 => ~Abandoning(txn) /\ DataMayHaveChanged(txn)
    BY DEF MayRollBack
  <2>3. PairedMeta(txn) # NoMeta
    <3>1. CASE PairsKept(txn)
      <4>1. KeptMeta(txn).ref # None
        BY <3>1 DEF PairsKept, KeptMeta
      <4>2. QED
        BY <3>1, <4>1, Nothings DEF PairedMeta
    <3>2. CASE ~PairsKept(txn)
      BY <3>2 DEF PairedMeta
    <3>3. QED
      BY <3>1, <3>2
  <2>4. Pairs(snaps, PairedSnap, prev)
    BY <2>1, <2>2, <2>3, MayRollBackPairs
  <2>5. PairedSnap # 0 => PairedSnap <= Len(snaps) /\ snaps[PairedSnap] <= prev.gen
    BY <2>1, <2>4, Numbers DEF Pairs
  <2>6. prev.whole /\ prev.ref = prevMeta.ref
    <3>1. CASE txn.id = 0
      BY <2>1, <3>1 DEF Files, ClosedFiles, Clean
    <3>2. CASE txn.id # 0 /\ Bundle /\ Kept
      <4>1. txn.phase = "committed" => txn.touched = ""
        BY <2>1, <3>2 DEF Files, BundleFiles
      <4>2. PastKeep
        BY <2>1, <2>2, <3>2, <4>1, ReachedPhases, TxnFields
           DEF DataMayHaveChanged, PhaseSound, PastKeep, Bundle, Abandoning, AbandonPhases, Phases
      <4>3. QED
        BY <2>1, <3>2, <4>2 DEF Files, BundleFiles
    <3>3. CASE txn.id # 0 /\ Bundle /\ ~Kept
      BY <2>1, <3>3 DEF Files, BundleFiles, FoundFiles, Clean
    <3>4. CASE txn.id # 0 /\ ~Bundle
      BY <2>1, <3>4 DEF Files, RollbackFiles
    <3>5. QED
      BY <3>1, <3>2, <3>3, <3>4
  <2>7. QED
    BY <2>5, <2>6
<1>2. QED
  BY <1>1, DataAlways, PTL

\* A rollback that drops its target has put production on that release, and on
\* data that no newer release wrote (start_rolled_back).
THEOREM RollbackReturnsHolds == ASSUME ~InboxCleans PROVE Spec => RollbackReturns
<1>1. DataInv /\ [Next]_vars
      => [(txn.source = "rollback" /\ prevMeta # NoMeta /\ prevMeta' = NoMeta /\ ~tampered')
          => /\ running = prev /\ code = prev /\ liveJson = prev.ref
             /\ data <= prev.gen ]_vars
  <2> SUFFICES ASSUME DataInv, [Next]_vars, txn.source = "rollback", prevMeta # NoMeta,
                      prevMeta' = NoMeta, ~tampered'
               PROVE  running = prev /\ code = prev /\ liveJson = prev.ref /\ data <= prev.gen
    OBVIOUS
  <2> USE DEF disk, log, world
  <2>1. /\ TypeOK /\ txn \in Txns /\ PhaseSound /\ RecordSound /\ Files /\ Steps /\ DataFiles
           /\ DataSteps
    BY TamperStays DEF DataInv, FilesInv, RecordInv, FilesSound, TypeOK, DataSound
  <2>2. ~Bundle /\ PairedMeta(txn) = prevMeta
    BY DEF Bundle, PairedMeta, PairsKept
  <2>3. pc \notin {"undoMeta", "keepAsideMeta", "keepMeta", "rescueMeta"}
    BY <2>1, <2>2 DEF Steps, CloseSteps, Keeping, RecordSound
  <2>4. DiscardPreviousMeta
    BY <2>2, <2>3
       DEF Next, Request, Fault, CoreStep, vars, Crash, PreDeploySnapshot, OpenTxn,
           UndoDropPrev, UndoDir, UndoDropMeta, UndoMeta, KeepAside, KeepAsideMeta, KeepDir,
           KeepMeta, KeepFails, AdvanceKept, OverRollbackSnapshot, Supersede, EnsurePairing,
           InstallBegin, InstallEnd, MarkLive, AdvanceInstalled, OnInstalled,
           AdvanceHookStarted, RunHook, HookFails, AdvanceSwitching, StartRelease, RecordDeploy,
           DiscardPreviousDir, CloseDir, CloseMeta, CloseRecord, Rollback, OpenRollback,
           RestoreBegin, RestoreEnd, RestoreFails, AdvanceDataRestored, Abandon, CodeRestored,
           Drop, RescueDir, RescueMeta, RedeploySnapshot, RedeployStart, OtherStart, InboxClean,
           Tamper, Deploy, Upload
  <2>5. pc = "discardMeta" /\ txn.phase = "switching" /\ txn.id # 0
    BY <2>1, <2>4 DEF DiscardPreviousMeta, PhaseSound, OutsideTxn
  <2>6. running = code /\ data <= code.gen
    BY <2>1, <2>2, <2>5 DEF DataSteps, DataFiles, DataRestored
  <2>7. code = prev /\ liveJson = txn.ref /\ prev.ref = txn.ref
    BY <2>1, <2>2, <2>5 DEF Files, RollbackFiles, Installed
  <2>8. QED
    BY <2>6, <2>7
<1>2. QED
  BY <1>1, DataAlways, PTL DEF Spec, RollbackReturns

-----------------------------------------------------------------------------
(* The install cores implement InstallSpec. *)

\* A snapshot keeps what it holds when others are taken.
LEMMA SnapshotsStay ==
    ASSUME TypeOK, [Next]_vars
    PROVE  \A s \in 1 .. Len(snaps) : snaps'[s] = snaps[s]
<1>1. CASE snaps' = snaps
  BY <1>1
<1>2. CASE snaps' = Append(snaps, data)
  <2>1. snaps \in Seq(Ids) /\ data \in Ids
    BY DEF TypeOK
  <2>2. QED
    BY <1>2, <2>1
<1>3. QED
  BY <1>1, <1>2, SnapshotsGrow

\* An install is opened by a deploy or a rollback.
LEMMA Opens ==
    ASSUME PhaseSound, [Next]_vars, txn.id = 0, txn'.id # 0
    PROVE  OpenTxn \/ OpenRollback
<1> USE DEF disk, log, world
<1>1. pc \in OutsideTxn
  BY DEF PhaseSound
<1>2. ~CloseRecord
  BY BlankFields DEF CloseRecord
<1>3. QED
  BY <1>1, <1>2
     DEF OutsideTxn, Next, Request, Fault, CoreStep, vars, Crash, PreDeploySnapshot,
         UndoDropPrev, UndoDir, UndoDropMeta, UndoMeta, KeepAside, KeepAsideMeta, KeepDir,
         KeepMeta, KeepFails, AdvanceKept, OverRollbackSnapshot, Supersede, EnsurePairing,
         InstallBegin, InstallEnd, MarkLive, AdvanceInstalled, OnInstalled, AdvanceHookStarted,
         RunHook, HookFails, AdvanceSwitching, StartRelease, RecordDeploy, DiscardPreviousMeta,
         DiscardPreviousDir, CloseDir, CloseMeta, Rollback, RestoreBegin, RestoreEnd,
         RestoreFails, AdvanceDataRestored, Abandon, CodeRestored, Drop, RescueDir, RescueMeta,
         RedeploySnapshot, RedeployStart, OtherStart, InboxClean, Tamper, Deploy, Upload

\* Only the removal of the record closes an install.
LEMMA Closes ==
    ASSUME TypeOK, [Next]_vars, txn.id # 0, txn'.id = 0
    PROVE  CloseRecord
<1> USE DEF disk, log, world
<1>1. txn \in Txns /\ nextId # 0 /\ txn' # txn
  BY DEF TypeOK
<1>2. \A phase \in Phases : ~AdvanceTo(phase)
  BY <1>1, AdvanceSame
<1>3. \A source, ref, replaced, phase, before, had, touched :
         ~NewTxn(source, ref, replaced, phase, before, had, touched)
  BY <1>1 DEF NewTxn
<1>4. QED
  BY <1>1, <1>2, <1>3
     DEF Next, Request, Fault, CoreStep, vars, OpenNew, SupersedeBy, Phases, Crash,
         PreDeploySnapshot, OpenTxn, UndoDropPrev, UndoDir, UndoDropMeta, UndoMeta, KeepAside,
         KeepAsideMeta, KeepDir, KeepMeta, KeepFails, AdvanceKept, OverRollbackSnapshot,
         Supersede, EnsurePairing, InstallBegin, InstallEnd, MarkLive, AdvanceInstalled,
         OnInstalled, AdvanceHookStarted, RunHook, HookFails, AdvanceSwitching, StartRelease,
         RecordDeploy, DiscardPreviousMeta, DiscardPreviousDir, CloseDir, CloseMeta, Rollback,
         OpenRollback, RestoreBegin, RestoreEnd, RestoreFails, AdvanceDataRestored, Abandon,
         CodeRestored, Drop, RescueDir, RescueMeta, RedeploySnapshot, RedeployStart, OtherStart,
         InboxClean, Tamper, Deploy, Upload

\* A deploy or a rollback that is open may not forget that it may have changed
\* the data (TouchedBy, the order of the phases).
LEMMA StaysDirty ==
    ASSUME DataInv, [Next]_vars, ~tampered', ~InboxCleans, txn.id # 0, txn'.id # 0
    PROVE  DataMayHaveChanged(txn) => DataMayHaveChanged(txn')
<1> SUFFICES ASSUME DataMayHaveChanged(txn) PROVE DataMayHaveChanged(txn')
  OBVIOUS
<1> USE DEF disk, log, world
<1>1. TypeOK /\ TypeOK' /\ txn \in Txns /\ txn' \in Txns /\ PhaseSound /\ Files /\ Steps
  BY TypeStep, TamperStays DEF DataInv, FilesInv, RecordInv, FilesSound, TypeOK
<1>2. ~Undoable
  BY <1>1, ReachedPhases DEF DataMayHaveChanged, Undoable, Bundle
<1>3. ASSUME NEW source, NEW ref, NEW replaced, NEW phase, SupersedeBy(source, ref, replaced, phase)
      PROVE  DataMayHaveChanged(txn')
  <2>1. txn'.touched = TouchedBy(txn)
    BY <1>1, <1>3, NewRecord DEF SupersedeBy
  <2>2. TouchedBy(txn) # ""
    BY DEF TouchedBy
  <2>3. QED
    BY <2>1, <2>2 DEF DataMayHaveChanged
<1>4. ASSUME NEW phase \in Phases, AdvanceTo(phase), ~Bundle
             \/ phase \in {"hook_started", "switching"} \/ txn.touched # ""
      PROVE  DataMayHaveChanged(txn')
  <2>1. txn'.source = txn.source /\ txn'.touched = txn.touched /\ txn'.phase = phase
    BY <1>1, <1>4, AdvanceSame
  <2>2. QED
    BY <1>1, <1>4, <2>1, ReachedPhases, TxnFields DEF DataMayHaveChanged, Bundle
<1>5. CASE UNCHANGED txn
  BY <1>5
<1>6. CASE Supersede \/ OpenRollback
  BY <1>3, <1>6 DEF Supersede, OpenRollback
<1>7. CASE AdvanceKept \/ AdvanceInstalled
  <2>1. PICK phase \in Phases : AdvanceTo(phase)
    BY <1>7 DEF AdvanceKept, AdvanceInstalled, Phases
  <2>2. ~Bundle \/ txn.touched # ""
    BY <1>1, <1>7, ReachedPhases
       DEF AdvanceKept, AdvanceInstalled, Steps, KeepSteps, CodeSteps, DataMayHaveChanged, Bundle
  <2>3. QED
    BY <1>4, <2>1, <2>2
<1>8. CASE AdvanceHookStarted \/ AdvanceSwitching \/ AdvanceDataRestored
  <2>1. AdvanceDataRestored => ~Bundle
    BY <1>1 DEF AdvanceDataRestored, PhaseSound, Bundle
  <2>2. QED
    BY <1>4, <1>5, <1>8, <2>1 DEF AdvanceHookStarted, AdvanceSwitching, AdvanceDataRestored, Phases
<1>9. ~CodeRestored /\ ~Abandon
  <2>1. ~CodeRestored
    BY <1>1, <1>2 DEF CodeRestored, Steps, CodeSteps
  <2>2. QED
    BY <2>1 DEF Abandon
<1>10. ~OpenTxn /\ ~CloseRecord
  BY <1>1, BlankFields DEF OpenTxn, CloseRecord, PhaseSound
<1>11. QED
  BY <1>5, <1>6, <1>7, <1>8, <1>9, <1>10
     DEF Next, Request, Fault, CoreStep, vars, Crash, PreDeploySnapshot, UndoDropPrev, UndoDir,
         UndoDropMeta, UndoMeta, KeepAside, KeepAsideMeta, KeepDir, KeepMeta, KeepFails,
         OverRollbackSnapshot, EnsurePairing, InstallBegin, InstallEnd, MarkLive, OnInstalled,
         RunHook, HookFails, StartRelease, RecordDeploy, DiscardPreviousMeta,
         DiscardPreviousDir, CloseDir, CloseMeta, Rollback, RestoreBegin, RestoreEnd,
         RestoreFails, Drop, RescueDir, RescueMeta, RedeploySnapshot, RedeployStart, OtherStart,
         InboxClean, Tamper, Deploy, Upload

\* What the install found stays what it found until it closes, and nothing but
\* an install changes the release and its target.
LEMMA OpenFrame ==
    ASSUME DataInv, [Next]_vars
    PROVE  /\ txn.id # 0 /\ txn'.id # 0 => UNCHANGED base
           /\ txn.id = 0 /\ txn'.id = 0 /\ ~tampered' => UNCHANGED <<code, prev, prevMeta>>
<1> USE DEF disk, log, world
<1>1. TypeOK /\ txn \in Txns /\ PhaseSound
  BY DEF DataInv, FilesInv, RecordInv, TypeOK
<1>2. txn.id # 0 /\ txn'.id # 0 => UNCHANGED base
  <2>1. ~OpenTxn \/ txn.id = 0
    BY <1>1 DEF OpenTxn, PhaseSound
  <2>2. ~CloseRecord \/ txn'.id = 0
    BY BlankFields DEF CloseRecord
  <2>3. QED
    BY <2>1, <2>2
       DEF Next, Request, Fault, CoreStep, vars, SupersedeBy, Crash, PreDeploySnapshot,
           UndoDropPrev, UndoDir, UndoDropMeta, UndoMeta, KeepAside, KeepAsideMeta, KeepDir,
           KeepMeta, KeepFails, AdvanceKept, OverRollbackSnapshot, Supersede, EnsurePairing,
           InstallBegin, InstallEnd, MarkLive, AdvanceInstalled, OnInstalled,
           AdvanceHookStarted, RunHook, HookFails, AdvanceSwitching, StartRelease, RecordDeploy,
           DiscardPreviousMeta, DiscardPreviousDir, CloseDir, CloseMeta, Rollback, OpenRollback,
           RestoreBegin, RestoreEnd, RestoreFails, AdvanceDataRestored, Abandon, CodeRestored,
           Drop, RescueDir, RescueMeta, RedeploySnapshot, RedeployStart, OtherStart, InboxClean,
           Tamper, Deploy, Upload
<1>3. ASSUME txn.id = 0, txn'.id = 0, ~tampered'
      PROVE  UNCHANGED <<code, prev, prevMeta>>
  <2>1. pc \in OutsideTxn
    BY <1>1, <1>3 DEF PhaseSound
  <2>2. PairedMeta(txn) = prevMeta
    BY <1>3 DEF PairedMeta, PairsKept
  <2>3. QED
    BY <1>3, <2>1, <2>2
       DEF OutsideTxn, Next, Request, Fault, CoreStep, vars, Crash, PreDeploySnapshot, OpenTxn,
           UndoDropPrev, UndoDir, UndoDropMeta, UndoMeta, KeepAside, KeepAsideMeta, KeepDir,
           KeepMeta, KeepFails, AdvanceKept, OverRollbackSnapshot, Supersede, EnsurePairing,
           InstallBegin, InstallEnd, MarkLive, AdvanceInstalled, OnInstalled,
           AdvanceHookStarted, RunHook, HookFails, AdvanceSwitching, StartRelease, RecordDeploy,
           DiscardPreviousMeta, DiscardPreviousDir, CloseDir, CloseMeta, CloseRecord, Rollback,
           OpenRollback, RestoreBegin, RestoreEnd, RestoreFails, AdvanceDataRestored, Abandon,
           CodeRestored, Drop, RescueDir, RescueMeta, RedeploySnapshot, RedeployStart,
           OtherStart, InboxClean, Tamper, Deploy, Upload
<1>4. QED
  BY <1>2, <1>3

\* Every step of the install cores, a kill at any of them included, is a step of
\* InstallSpec or leaves its state alone: what is in force changes only when an
\* install that may have touched the data closes.
THEOREM ImplementsInstallHolds ==
    ASSUME ~InboxCleans, ~Tampering PROVE Spec => ImplementsInstall
<1> DEFINE release == IF txn.id = 0 THEN code ELSE base.code
           target == IF txn.id = 0 THEN PairOf(prev, prevMeta) ELSE PairOf(base.prev, base.meta)
           pending == IF txn.id = 0 THEN "none"
                      ELSE IF DataMayHaveChanged(txn) THEN "dirty" ELSE "clean"
<1>1. Init => Abstract!Init
  <2> SUFFICES ASSUME Init PROVE Abstract!Init
    OBVIOUS
  <2>1. txn.id = 0 /\ code = NoTree /\ prev = NoTree
    BY BlankFields DEF Init
  <2>2. release = NoTree /\ target = [tree |-> NoTree, mark |-> 0] /\ pending = "none"
    BY <2>1 DEF PairOf
  <2>3. QED
    BY <2>2 DEF Abstract!Init, Abstract!NoTarget
<1>2. DataInv /\ DataInv' /\ ~tampered /\ ~tampered' /\ [Next]_vars
      => [Abstract!Next]_Abstract!avars
  <2> SUFFICES ASSUME DataInv, DataInv', ~tampered, ~tampered', [Next]_vars
               PROVE  [Abstract!Next]_Abstract!avars
    OBVIOUS
  <2>1. /\ TypeOK /\ TypeOK' /\ PhaseSound /\ Files /\ Files' /\ Steps /\ DataFiles /\ DataFiles'
        /\ txn \in Txns /\ txn' \in Txns
    BY DEF DataInv, FilesInv, RecordInv, FilesSound, DataSound, TypeOK
  <2>2. CASE txn.id = 0 /\ txn'.id = 0
    <3>1. UNCHANGED <<code, prev, prevMeta>>
      BY <2>2, OpenFrame
    <3>2. Pairs(snaps, prevMeta.snap, prev) /\ \A s \in 1 .. Len(snaps) : snaps'[s] = snaps[s]
      BY <2>1, <2>2, SnapshotsStay DEF DataFiles
    <3>3. PairOf(prev, prevMeta)' = PairOf(prev, prevMeta)
      BY <3>1, <3>2 DEF PairOf, Pairs
    <3>4. QED
      BY <2>2, <3>1, <3>3 DEF Abstract!avars
  <2>3. CASE txn.id = 0 /\ txn'.id # 0
    <3>1. OpenTxn \/ OpenRollback
      BY <2>1, <2>3, Opens
    <3>2. /\ UNCHANGED snaps
          /\ base'.code = code /\ base'.prev = prev /\ base'.meta = prevMeta
      BY <2>1, <2>3, <3>1, OpenRecord DEF OpenTxn, OpenRollback, world
    <3>3. PairOf(base.prev, base.meta)' = PairOf(prev, prevMeta)
      BY <3>2 DEF PairOf
    <3>4. pending = "none" /\ pending' \in {"clean", "dirty"} /\ UNCHANGED <<release, target>>
      BY <2>3, <3>2, <3>3
    <3>5. Abstract!Begin
      BY <3>4 DEF Abstract!Begin
    <3>6. QED
      BY <3>5 DEF Abstract!Next
  <2>4. CASE txn.id # 0 /\ txn'.id # 0
    <3>1. UNCHANGED base
      BY <2>4, OpenFrame
    <3>2. PairOf(base.prev, base.meta)' = PairOf(base.prev, base.meta)
      <4>1. /\ Pairs(snaps, base.meta.snap, base.prev)
            /\ \A s \in 1 .. Len(snaps) : snaps'[s] = snaps[s]
        BY <2>1, <2>4, SnapshotsStay DEF DataFiles
      <4>2. QED
        BY <3>1, <4>1 DEF PairOf, Pairs
    <3>3. UNCHANGED <<release, target>>
      BY <2>4, <3>1, <3>2
    <3>4. UNCHANGED pending \/ (pending = "clean" /\ pending' = "dirty")
      BY <2>4, StaysDirty
    <3>5. QED
      BY <3>3, <3>4 DEF Abstract!Next, Abstract!Touch, Abstract!avars
  <2>5. CASE txn.id # 0 /\ txn'.id = 0
    <3>1. CloseRecord
      BY <2>1, <2>5, Closes
    <3>2. UNCHANGED <<code, prev, prevMeta, snaps>> /\ pc = "closeRecord"
      BY <3>1 DEF CloseRecord, disk, world
    <3>3. CASE Undoable
      <4>1. /\ prev = base.prev /\ prevMeta = base.meta /\ code = base.code
        BY <2>1, <2>5, <3>2, <3>3 DEF Steps, CloseSteps, Closing, Files, UndoFiles
      <4>2. ~DataMayHaveChanged(txn)
        BY <2>1, <3>3, ReachedPhases DEF Undoable, DataMayHaveChanged, Bundle
      <4>3. PairOf(prev, prevMeta)' = PairOf(base.prev, base.meta)
        BY <3>2, <4>1 DEF PairOf
      <4>4. pending = "clean" /\ pending' = "none" /\ UNCHANGED <<release, target>>
        BY <2>5, <3>2, <4>1, <4>2, <4>3
      <4>5. QED
        BY <4>4 DEF Abstract!Next, Abstract!GiveUp
    <3>4. CASE ~Undoable
      <4>1. DataMayHaveChanged(txn)
        <5>1. txn.phase = "switching"
          BY <2>1, <3>2, <3>4 DEF Steps, CloseSteps, Closing
        <5>2. QED
          BY <2>1, <5>1, ReachedPhases DEF DataMayHaveChanged
      <4>2. release = base.code /\ release' = code /\ code \in {t \in Trees : t.whole}
        BY <2>1, <2>5, <3>2 DEF TypeOK, Files, ClosedFiles, Clean
      <4>3. target' = PairOf(prev, prevMeta) /\ target = PairOf(base.prev, base.meta)
        BY <2>5, <3>2 DEF PairOf
      <4>4. \/ target' = [tree |-> NoTree, mark |-> 0]
            \/ /\ target'.tree \in {release, target.tree} \ {NoTree}
               /\ target'.mark <= target'.tree.gen
        <5>1. CASE prev = NoTree \/ prevMeta = NoMeta
          BY <4>3, <5>1 DEF PairOf
        <5>2. CASE prev # NoTree /\ prevMeta # NoMeta
          <6>1. target'.tree = prev
                /\ target'.mark = (IF prevMeta.snap = 0 THEN 0 ELSE snaps[prevMeta.snap])
            BY <4>3, <5>2 DEF PairOf
          <6>2. Pairs(snaps, prevMeta.snap, prev)
            BY <2>1, <2>5, <3>2 DEF DataFiles
          <6>3. target'.mark <= prev.gen
            BY <2>1, <6>1, <6>2, Numbers DEF Pairs
          <6>4. prev.ref # None
            BY <2>1, <2>5, <3>2, <5>2 DEF Files, ClosedFiles, Clean
          <6>5. prev = base.prev => target.tree = prev
            <7>1. SUFFICES ASSUME prev = base.prev PROVE target.tree = prev
              OBVIOUS
            <7>2. base.meta # NoMeta
              BY <2>1, <2>5, <6>4, <7>1, Nothings DEF Files, FoundFiles, Clean
            <7>3. QED
              BY <4>3, <5>2, <7>1, <7>2 DEF PairOf
          <6>6. prev \in {base.code, base.prev}
            BY <2>1, <2>5, <5>2 DEF DataFiles
          <6>7. QED
            BY <4>2, <5>2, <6>1, <6>3, <6>5, <6>6
        <5>3. QED
          BY <5>1, <5>2
      <4>5. pending = "dirty" /\ pending' = "none"
        BY <2>5, <4>1
      <4>6. Abstract!Finish
        BY <4>2, <4>4, <4>5 DEF Abstract!Finish, Abstract!NoTarget
      <4>7. QED
        BY <4>6 DEF Abstract!Next
    <3>5. QED
      BY <3>3, <3>4
  <2>6. QED
    BY <2>2, <2>3, <2>4, <2>5
<1>3. QED
  BY <1>1, <1>2, DataAlways, NeverTampered, PTL DEF Spec, ImplementsInstall, Abstract!Spec

===========================================================================
