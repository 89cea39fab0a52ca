--------------------------- MODULE InstallRecord ---------------------------
(***************************************************************************)
(* The install transaction's record (release_txn.py), as a value: its      *)
(* fields, the order of its phases and the questions the cores ask of it.  *)
(*                                                                         *)
(* A release tree is a record: the ref it carries, the id of the           *)
(* transaction that unpacked it (gen: a rollback that puts a kept tree     *)
(* back keeps its gen), whether it is whole and whether manifest.yml is in *)
(* it.  previous.json and the transaction are records of the fields the    *)
(* code compares; a SHA-256 of a file is the file's content.  Time stamps  *)
(* (started_at, replaced_at) are the id of the transaction that stamped    *)
(* them.  Snapshots are numbered from 1 in the order they are taken; 0 is  *)
(* "no snapshot".                                                          *)
(***************************************************************************)
EXTENDS Naturals

CONSTANTS Refs,      \* the releases a bundle may carry
          None,      \* Python's None where a ref is expected
          MaxTxn,    \* bound: transactions opened or superseded in a run
          MaxSnaps   \* bound: pre-deploy snapshots taken in a run

ASSUME NoneAssumption == None \notin Refs
ASSUME MaxAssumption == MaxTxn \in Nat \ {0} /\ MaxSnaps \in Nat

Ids == 0 .. MaxTxn
SnapIds == 0 .. MaxSnaps
OptRef == Refs \cup {None}

Phases == {"committed", "previous_kept", "installed", "data_restored",
           "hook_started", "switching", "abandoning", "abandoned_code"}
AbandonPhases == {"abandoning", "abandoned_code"}

NoTree == [ref |-> None, gen |-> 0, whole |-> TRUE, manifest |-> FALSE]
\* A project dir some of whose entries are another release's, or missing; the
\* entry that is missing may be manifest.yml.
Mixed == [ref |-> None, gen |-> 0, whole |-> FALSE, manifest |-> TRUE]
Bare == [ref |-> None, gen |-> 0, whole |-> FALSE, manifest |-> FALSE]
\* A whole release has a manifest (validate_release_tree).
Trees == {t \in [ref : OptRef, gen : Ids, whole : BOOLEAN, manifest : BOOLEAN] :
             t.whole => t.manifest \/ t = NoTree}

Metas == [ref : OptRef, snap : SnapIds, at : Ids, by : OptRef]
NoMeta == [ref |-> None, snap |-> 0, at |-> 0, by |-> None]

Txns == [id : Ids, source : {"bundle", "rollback"}, ref : OptRef, replaced : OptRef,
         snap : SnapIds, phase : Phases, expLive : OptRef, expPrev : Metas,
         before : Metas, had : BOOLEAN, touched : {"", "hook_started", "switching"}]
NoTxn == [id |-> 0, source |-> "bundle", ref |-> None, replaced |-> None, snap |-> 0,
          phase |-> "committed", expLive |-> None, expPrev |-> NoMeta,
          before |-> NoMeta, had |-> FALSE, touched |-> ""]

(***************************************************************************)
(* The phases in order; --abandon's checkpoints count as `committed`.      *)
(***************************************************************************)
Rank(phase) == CASE phase = "switching" -> 5
                 [] phase = "hook_started" -> 4
                 [] phase = "data_restored" -> 3
                 [] phase = "installed" -> 2
                 [] phase = "previous_kept" -> 1
                 [] OTHER -> 0

Reached(t, phase) == Rank(t.phase) >= Rank(phase)

Abandoning(t) == t.phase \in AbandonPhases

DataMayHaveChanged(t) ==
    t.source = "rollback" \/ t.touched # "" \/ Reached(t, "hook_started")

ContainersMayRunOther(t) == t.touched = "switching" \/ Reached(t, "switching")

TouchedBy_Nothing(t) == ""   \* mutant: a superseding transaction starts clean

\* What a transaction that supersedes `t` inherits of what `t` may have done.
TouchedBy(t) == IF t.source = "rollback" \/ ContainersMayRunOther(t) THEN "switching"
                ELSE IF DataMayHaveChanged(t) THEN "hook_started" ELSE ""

\* previous.json as the keep of `t` writes it.
KeptMeta(t) == [ref |-> t.replaced, snap |-> t.snap, at |-> t.id, by |-> t.ref]

\* The kept previous release pairs with t's snapshot, whatever previous.json says.
PairsKept(t) == /\ t.id # 0
                /\ t.source # "rollback"
                /\ t.replaced # None
                /\ ~Abandoning(t)
                /\ Reached(t, "previous_kept")

\* What previous.json may hold while `t` is open: what `t` left, what its first
\* keep found, what the keep writes, or (a rollback's close) nothing.
PrevExpected(t) == {t.expPrev, t.before, KeptMeta(t)}
                   \cup (IF t.source = "rollback" THEN {NoMeta} ELSE {})

\* A crash between the keep's two writes of previous.json.
KeepInProgress_Never(t, prevMeta, supMeta) == FALSE  \* mutant: not recognised
KeepInProgress(t, prevMeta, supMeta) ==
    /\ t.phase \in {"committed"} \cup AbandonPhases
    /\ prevMeta = NoMeta
    /\ supMeta = t.before

\* live.json and previous.json are neither as `t` left them nor as one of its
\* own steps writes them.
IsStale(t, liveJson, prevMeta, supMeta) ==
    \/ liveJson \notin {t.expLive, t.ref, t.replaced}
    \/ prevMeta \notin PrevExpected(t) /\ ~KeepInProgress(t, prevMeta, supMeta)
=============================================================================
