------------------------- MODULE InstallRefinement -------------------------
(***************************************************************************)
(* The install cores implement InstallSpec, and an open install closes.    *)
(***************************************************************************)
EXTENDS InstallSafety

(* The install as one step: InstallSpec under this refinement mapping. *)

PairOf(tree, meta) ==
    IF tree = NoTree \/ meta = NoMeta THEN [tree |-> NoTree, mark |-> 0]
    ELSE [tree |-> tree, mark |-> IF meta.snap = 0 THEN 0 ELSE snaps[meta.snap]]

Abstract == INSTANCE InstallSpec WITH
    Releases <- {t \in Trees : t.whole},
    NoRelease <- NoTree,
    release <- IF txn.id = 0 THEN code ELSE base.code,
    target <- IF txn.id = 0 THEN PairOf(prev, prevMeta) ELSE PairOf(base.prev, base.meta),
    pending <- IF txn.id = 0 THEN "none"
               ELSE IF DataMayHaveChanged(txn) THEN "dirty" ELSE "clean"

\* Every step of the install cores, crashes included, is a step of InstallSpec
\* or leaves release, target and pending alone.
ImplementsInstall == Abstract!Spec

-----------------------------------------------------------------------------
(* Liveness. *)

\* The command that resumes the open install (rerun_command, and for a stale
\* record install-txn --drop).
Resume ==
    \/ Drop
    \/ Abandoning(txn) /\ Abandon
    \/ ~Abandoning(txn) /\ txn.source = "rollback" /\ Rollback
    \/ ~Abandoning(txn) /\ txn.source = "bundle" /\ Deploy(txn.ref)

\* The way out that is left where that command is refused (options_text): to
\* deploy a different bundle over the install, uploaded first if need be.
Fix == \/ \E r \in inbox : Deploy(r)
       \/ inbox = {} /\ \E r \in Refs \ {txn.ref} : Upload(r)

\* What the refusals tell the operator to run.
Rerun == pc = "idle" /\ txn.id # 0 /\ (Resume \/ (~ENABLED Resume /\ Fix))

\* Bounds of the liveness run.  A new install is of one release, a fix of any;
\* uploads come one at a time, and never bring a name a second time while it is
\* being installed (receive_bundle).  The last id is for the fix an open install
\* may need: once it is taken nothing goes wrong any more, and while only it is
\* left nobody removes a bundle or rewrites a record.
First == CHOOSE r \in Refs : TRUE

LivenessBounds ==
    /\ txn.id = 0 /\ pc = "idle" /\ pc' # pc => nextId < MaxTxn
    /\ InboxClean \/ Tamper => nextId < MaxTxn
    /\ Fault => nextId <= MaxTxn \/ CoreStep
    /\ tampered /\ pc = "idle" => txn.id # 0
    /\ inbox' \subseteq inbox
       \/ /\ inbox = {}
          /\ inbox' \subseteq IF txn.id = 0 THEN {First} ELSE Refs \ {txn.ref}

\* A core that is not killed goes on, the operator runs the command the refusal
\* names, and faults end (a kill that leaves what a step would is no fault).
FairSpec ==
    /\ Spec
    /\ WF_vars(CoreStep)
    /\ WF_vars(Rerun)
    /\ <>[][Fault \/ InboxClean => CoreStep]_vars

\* An open install is closed in the end: rerunning its command, or deploying a
\* fix where a crash has left that refused (options_text).
InstallCloses == (txn.id # 0) ~> (txn.id = 0)
=============================================================================
