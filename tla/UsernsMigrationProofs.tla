------------------------ MODULE UsernsMigrationProofs ------------------------
(***************************************************************************)
(* Proofs about UsernsMigration: its types, and, when no project is first  *)
(* deployed inside a run, that containers run on their own data, that the  *)
(* marker is down only over a box in order, that no data is lost and that  *)
(* no file loses its setuid bit; for every set of trees and any number of  *)
(* kills, reboots and failed steps.                                        *)
(*                                                                         *)
(* A run may end between any two saves and be resumed or reversed later,   *)
(* so the invariant reads the journal: TreesOK says for each phase and for *)
(* each item where that tree's data is, whose ids it has and what a list   *)
(* of setuid entries holds of the bits a cut shift has cleared; MarkerOK,  *)
(* DaemonOK and BoxOK what the phase means for the host; StepsOK what a    *)
(* run has seen to by the time it is at a step.                            *)
(***************************************************************************)
EXTENDS UsernsMigration, TLAPS

-----------------------------------------------------------------------------
\* The invariant.

\* How far the journal is: nothing carried yet, the daemon the remapped one
\* (from the switch until a rollback goes back), trees on the way.
Fresh == {"none", "rolled-back"}
Prior == {"started", "prepared", "quiesced"}
Carry == {"switched", "rebuilt"}
Opening == {"rb-started", "rb-saved"}
Ours == Carry \cup Opening \cup {"applied", "committed", "rb-quiesced"}
Moving == Carry \cup Opening \cup {"rb-quiesced", "rb-restored", "rb-switched"}

Roots == {"none", "old", "new", "path", "lost"}
Boxes == {"none", "stopped", "halted", "up"}
Items == {"none", "created", "moved", "shifted"}
RbItems == {"none", "old", "stayed", "moved", "restored",
            "soak", "soak-created", "soak-moved", "soak-restored"}
Journals == [phase : Phases, inv : SUBSET Trees, rinv : SUBSET AllVols,
             items : [Trees -> Items], rb : [Trees -> RbItems],
             setid : [Trees -> Listed], rbSetid : [Trees -> Listed],
             up : BOOLEAN, rbUp : BOOLEAN, abortUp : BOOLEAN, timers : BOOLEAN,
             committing : BOOLEAN]
TreeStates == [root : Roots, oldDir : BOOLEAN, ids : {"host", "part", "remap"},
               suid : BOOLEAN, want : BOOLEAN]

Types ==
    /\ run \in {"none", "migrate", "rollback", "commit"} /\ cur \in Trees
    /\ (run = "none" <=> pc = "idle")
    /\ j \in Journals /\ tree \in [Trees -> TreeStates] /\ box \in [{"old", "new"} -> Boxes]
    /\ conf \in {"prior", "ours"} /\ daemon \in {"old", "new", "none"}
    /\ rec \in BOOLEAN /\ marker \in BOOLEAN /\ timers \in BOOLEAN
    /\ faults \in 0 .. MaxFaults

\* A tree with the daemon it came from, one with the remapped daemon, and a
\* volume nobody has made.
Same(t) == tree[t].suid = tree[t].want
Home(t) ==
    /\ tree[t].ids = "host" /\ Same(t)
    /\ t \in Binds => tree[t].root = "path"
    /\ t \notin Binds => tree[t].root \in {"old", "none"}
                         /\ (tree[t].oldDir <=> tree[t].root = "old")
Abroad(t) ==
    /\ tree[t].ids = "remap" /\ Same(t)
    /\ tree[t].root = IF t \in Binds THEN "path" ELSE "new"
Absent(t) == Home(t) /\ tree[t].root = "none"
AllHome == \A t \in Trees : Home(t)
AllAbroad == \A t \in Trees : Abroad(t) \/ Absent(t)

\* The setuid lists of either direction have what a cut shift has cleared.
ListedYes(t) == Unfinished(t) = "yes" \/ j.rbSetid[t] = "yes"
Modes(t) ==
    /\ ListedYes(t) => tree[t].want
    /\ tree[t].ids # "part" => Same(t)
    /\ tree[t].ids = "part" => ~tree[t].suid /\ (tree[t].want => ListedYes(t))

\* Where the way there has brought a tree.
Carried(t) ==
    /\ t \in Binds => /\ tree[t].root = "path" /\ j.items[t] \in {"none", "shifted"}
                      /\ j.items[t] = "shifted" => tree[t].ids = "remap"
    /\ t \notin Binds =>
         /\ j.items[t] = "none" => /\ Home(t) \/ (Abroad(t) /\ ~tree[t].oldDir)
                                   /\ j.setid[t] = "unset"
         /\ j.items[t] = "created" => /\ tree[t].ids = "host" /\ j.setid[t] = "unset"
                                      /\ tree[t].root \in {"old", "new"} /\ tree[t].oldDir
         /\ j.items[t] = "moved" => tree[t].root = "new" /\ tree[t].oldDir
         /\ j.items[t] = "shifted" => Abroad(t) /\ tree[t].oldDir

\* Where the way back has brought it.
Returned(t) ==
    /\ t \in Binds => /\ tree[t].root = "path" /\ j.rb[t] \in {"none", "restored"}
                      /\ j.rb[t] = "restored" => Home(t)
    /\ t \notin Binds =>
         /\ t \notin j.rinv => Home(t) /\ j.rb[t] = "none"
         /\ j.rb[t] = "soak" => Abroad(t) /\ ~tree[t].oldDir
         /\ j.rb[t] \in {"stayed", "restored", "soak-restored"} => Home(t)
         /\ j.rb[t] = "old" => tree[t].root \in {"old", "new"} /\ tree[t].oldDir
         /\ j.rb[t] \in {"moved", "soak-moved"} => tree[t].root = "old" /\ tree[t].oldDir
         /\ j.rb[t] = "soak-created" => tree[t].root \in {"old", "new"} /\ tree[t].oldDir

Inventoried == j.inv = {v \in AllVols : OnOld(v)} \cup Binds
InventoriedBack == j.rinv = {v \in AllVols : OnNew(v)}

HomeOK == j.phase \in Fresh \cup Prior \cup {"rb-rebuilt"} => AllHome
AbroadOK == j.phase \in {"rebuilt", "applied", "committed"} => AllAbroad
PriorOK ==
    j.phase \in Prior => \A t \in Trees : j.items[t] = "none" /\ j.setid[t] = "unset"
BackUnused ==
    j.phase \in Prior \cup Carry \cup Opening \cup {"applied"} =>
        \A t \in Trees : j.rb[t] = "none" /\ j.rbSetid[t] = "unset"
CarriedOK ==
    j.phase \in Carry \cup Opening \/ (j.phase = "applied" /\ ~j.committing) =>
        \A t \in Trees : Carried(t)
SwitchedOK ==
    j.phase = "switched" =>
        \A t \in Trees : /\ j.items[t] = "none" /\ t \notin Binds =>
                            Home(t) /\ (t \in j.inv <=> OnOld(t))
                         /\ t \notin j.inv => Absent(t) /\ j.items[t] = "none"
RebuiltOK == j.phase = "rebuilt" => \A t \in j.inv : j.items[t] = "shifted"
ModesOK == j.phase \in Moving => \A t \in Trees : Modes(t)
DoneOK == j.phase \in {"rebuilt", "applied"} => \A t \in Trees : ~ListedYes(t)
ReturningOK ==
    j.phase = "rb-quiesced" =>
        \A t \in Trees :
          /\ Returned(t)
          /\ j.rb[t] \in {"none", "old", "stayed", "moved", "restored", "soak"}
          /\ t \notin Binds /\ j.rb[t] = "none" => /\ Carried(t) /\ j.rbSetid[t] = "unset"
                                                   /\ (t \in j.rinv <=> OnNew(t))
ReturnedOK ==
    /\ j.phase \in {"rb-restored", "rb-switched"} =>
         \A t \in Trees : Returned(t) /\ (t \in Binds => j.rb[t] = "restored")
    /\ j.phase = "rb-restored" =>
         \A t \in j.rinv : j.rb[t] \in {"soak", "stayed", "restored"}
    /\ j.phase = "rb-switched" =>
         \A t \in j.rinv : j.rb[t] \in {"soak", "soak-created", "soak-moved", "soak-restored",
                                        "stayed", "restored"}
    /\ j.phase = "rb-rebuilt" =>
         \A t \in j.rinv : j.rb[t] \in {"stayed", "restored", "soak-restored"}

TreesOK == /\ HomeOK /\ AbroadOK /\ PriorOK /\ BackUnused /\ CarriedOK /\ SwitchedOK
           /\ RebuiltOK /\ ModesOK /\ DoneOK /\ ReturningOK /\ ReturnedOK

\* Project commands are only let in with every tree where the daemon looks.
MarkerOK ==
    /\ ~marker => timers
    /\ ~marker =>
         \/ j.phase \in Fresh \cup Prior \cup {"rb-rebuilt"} /\ conf = "prior" /\ ~rec
         \/ /\ j.phase \in {"rebuilt", "applied", "committed"} \cup Opening
            /\ AllAbroad /\ (j.phase \in Opening => \A t \in Trees : ~ListedYes(t))
    /\ j.timers
    /\ j.phase \in Fresh => ~marker

DaemonOK ==
    /\ daemon \in {"none", ConfiguredDaemon}
    /\ j.phase \in Ours => conf = "ours" /\ rec
    /\ j.phase \in Fresh \cup {"started", "prepared", "rb-switched", "rb-rebuilt"} =>
         conf = "prior" /\ ~rec

BoxOK ==
    /\ j.phase \in Ours => box.old # "up"
    /\ box.new # "none" =>
         j.phase \in {"rebuilt", "applied", "committed"} \cup Opening /\ AllAbroad

\* What a run has seen to when it gets to each step.
BackSteps == {"back-stop", "back-config", "back-record", "back-start"}
AtPrior == conf = "prior" /\ ~rec
StepsOK ==
    /\ pc \in BackSteps =>
         \/ after \in {"phase0", "abort-up", "undo-up"} /\ j.phase = "quiesced"
         \/ after = "rb-switched" /\ j.phase = "rb-restored"
    /\ pc \in {"back-config", "back-record", "back-start",
               "switch-config", "switch-record", "switch-start"} => daemon = "none"
    /\ pc \in {"back-record", "back-start"} => conf = "prior"
    /\ pc = "back-start" => ~rec
    /\ pc = "prior" => j.phase \in Prior /\ after \in {"phase0", "abort-up"}
    /\ pc = "phase0" => j.phase \in Fresh \cup Prior /\ AtPrior
    /\ pc = "prepare" => j.phase \in Prior /\ AtPrior /\ Inventoried
    /\ pc \in {"marker", "timers", "quiesce"} =>
         \/ j.phase \in {"prepared", "quiesced"} /\ AtPrior /\ Inventoried
         \/ j.phase \in Carry
    /\ pc \in {"timers", "quiesce"} => marker
    /\ pc \in {"switch-stop", "switch-config", "switch-record", "switch-start"} =>
         j.phase = "quiesced" /\ marker /\ box.old # "up" /\ Inventoried
    /\ pc \in {"switch-stop", "switch-config"} => AtPrior
    /\ pc \in {"switch-record", "switch-start"} => conf = "ours"
    /\ pc = "switch-start" => rec
    /\ pc \in {"undo-up", "undo-timers", "undo-marker", "undo-save"} =>
         j.phase = "quiesced" /\ AtPrior
    /\ pc \in {"undo-marker", "undo-save", "on-marker", "apply", "abort-marker", "abort-save",
               "rb-clear", "rb-done"} => timers
    /\ pc = "rebuild" => j.phase \in Carry /\ marker
    /\ pc \in {"move", "save-moved", "list", "chown", "chmod", "save-shifted"} =>
         j.phase = "switched" /\ cur \in j.inv
    /\ pc \in {"move", "save-moved"} => cur \notin Binds /\ j.items[cur] = "created"
    /\ pc = "save-moved" => tree[cur].root = "new"
    /\ pc \in {"list", "chown", "chmod", "save-shifted"} =>
         j.items[cur] = IF cur \in Binds THEN "none" ELSE "moved"
    /\ pc \in {"chown", "chmod"} => (j.setid[cur] = "yes" <=> tree[cur].want)
    /\ pc = "chmod" => tree[cur].ids # "host"
    /\ pc = "save-shifted" => tree[cur].ids = "remap"
    /\ pc \in {"bring-up", "on-timers", "on-marker", "apply"} => j.phase = "rebuilt"
    /\ pc \in {"abort-up", "abort-timers", "abort-marker", "abort-save"} =>
         j.phase \in Prior /\ AtPrior
    /\ pc \in {"abort-save", "rb-done"} => ~marker
    /\ pc \in {"rb-save", "rb-marker", "rb-stop-timers", "rb-quiesce", "rb-remove", "rb-stop",
               "rb-quiesced"} => j.phase \in Opening /\ InventoriedBack
    /\ pc \in {"rb-stop-timers", "rb-quiesce", "rb-remove", "rb-stop", "rb-quiesced"} => marker
    /\ pc \in {"rb-stop", "rb-quiesced"} => box.new = "none"
    /\ pc = "rb-restore" =>
         j.phase \in {"rb-quiesced", "rb-restored", "rb-switched", "rb-rebuilt"}
    /\ pc \in {"rb-trees", "rb-move", "rb-save-moved"} => j.phase = "rb-quiesced"
    /\ pc \in {"rb-move", "rb-save-moved"} => cur \notin Binds /\ j.rb[cur] = "old"
    /\ pc \in {"rb-save-moved", "soak-save-moved"} => tree[cur].root = "old"
    /\ pc \in {"rb-list", "rb-chown", "rb-chmod", "rb-save-restored"} =>
         \/ j.phase = "rb-quiesced" /\ j.rb[cur] = IF cur \in Binds THEN "none" ELSE "moved"
         \/ j.phase = "rb-switched" /\ cur \notin Binds /\ j.rb[cur] = "soak-moved"
    /\ pc \in {"rb-chown", "rb-chmod"} => (j.rbSetid[cur] = "yes" <=> tree[cur].want)
    /\ pc = "rb-chmod" => tree[cur].ids # "remap"
    /\ pc = "rb-save-restored" => tree[cur].ids = "host"
    /\ pc = "rb-switched" => j.phase = "rb-restored" /\ AtPrior
    /\ pc = "rb-soak" => j.phase \in {"rb-switched", "rb-rebuilt"}
    /\ pc \in {"soak-move", "soak-save-moved"} =>
         j.phase = "rb-switched" /\ cur \notin Binds /\ j.rb[cur] = "soak-created"
    /\ pc \in {"rb-up", "rb-rmtree", "rb-timers", "rb-clear", "rb-done"} => j.phase = "rb-rebuilt"
    /\ pc \in {"delete", "committed"} => j.phase = "applied" /\ j.committing
    /\ j.committing => j.phase \in {"applied", "committed"}

Inv == TreesOK /\ MarkerOK /\ DaemonOK /\ BoxOK /\ StepsOK

-----------------------------------------------------------------------------
\* The phases, and the journal's fields.

ForwardPhases ==
    {"started", "prepared", "quiesced", "switched", "rebuilt", "applied", "committed"}
RollbackPhases == {"rb-started", "rb-saved", "rb-quiesced", "rb-restored", "rb-switched",
                   "rb-rebuilt", "rolled-back"}

\* Both orders by their names.
LEMMA PhaseNames ==
    /\ {Forward[i] : i \in 1 .. 7} = ForwardPhases
    /\ {Rollback[i] : i \in 1 .. 7} = RollbackPhases
    /\ Phases = {"none"} \cup ForwardPhases \cup RollbackPhases
<1>1. \A x : x \in {Forward[i] : i \in 1 .. 7} <=> x \in ForwardPhases
  BY DEF Forward, ForwardPhases
<1>2. \A x : x \in {Rollback[i] : i \in 1 .. 7} <=> x \in RollbackPhases
  BY DEF Rollback, RollbackPhases
<1> QED
  BY <1>1, <1>2 DEF Phases

\* The direction the journal has.
LEMMA Directions ==
    ASSUME j.phase \in Phases
    PROVE  IsForward <=> j.phase \in ForwardPhases
BY PhaseNames DEF IsForward

\* The place of a phase among those of its direction.
LEMMA Places ==
    /\ \A i \in 1 .. 7 : IndexOf(Forward, Forward[i]) = i
    /\ \A i \in 1 .. 7 : IndexOf(Rollback, Rollback[i]) = i
<1>1. \A i, k \in 1 .. 7 : Forward[i] = Forward[k] => i = k
  BY DEF Forward
<1>2. \A i, k \in 1 .. 7 : Rollback[i] = Rollback[k] => i = k
  BY DEF Rollback
<1> QED
  BY <1>1, <1>2 DEF IndexOf

\* Reached, by the places in the order.
LEMMA ForwardReached ==
    ASSUME NEW k \in 1 .. 7, NEW i \in 1 .. 7, j.phase = Forward[i]
    PROVE  Reached(Forward[k]) <=> i >= k
<1>1. IsForward
  BY DEF IsForward
<1>2. IndexOf(Forward, j.phase) = i
  BY Places
<1>3. \A n \in 1 .. 7 : Forward[n] = Forward[k] => n = k
  BY DEF Forward
<1> QED
  BY <1>1, <1>2, <1>3 DEF Reached

LEMMA RollbackReached ==
    ASSUME NEW k \in 1 .. 7, NEW i \in 1 .. 7, j.phase = Rollback[i]
    PROVE  Reached(Rollback[k]) <=> i >= k
<1>1. ~IsForward /\ j.phase # "none"
  BY DEF IsForward, Rollback, Forward
<1>2. IndexOf(Rollback, j.phase) = i
  BY Places
<1>3. \A n \in 1 .. 7 : Rollback[n] = Rollback[k] => n = k
  BY DEF Rollback
<1> QED
  BY <1>1, <1>2, <1>3 DEF Reached

\* What the commands ask of the journal.
LEMMA Asked ==
    ASSUME j.phase \in Phases
    PROVE  /\ IsForward =>
                /\ Reached("prepared") <=> j.phase # "started"
                /\ Reached("switched") <=>
                     j.phase \in {"switched", "rebuilt", "applied", "committed"}
                /\ Reached("rebuilt") <=> j.phase \in {"rebuilt", "applied", "committed"}
           /\ j.phase \in RollbackPhases =>
                /\ Reached("rb-quiesced") <=> j.phase \notin {"rb-started", "rb-saved"}
                /\ Reached("rb-restored") <=>
                     j.phase \notin {"rb-started", "rb-saved", "rb-quiesced"}
                /\ Reached("rb-switched") <=>
                     j.phase \in {"rb-switched", "rb-rebuilt", "rolled-back"}
                /\ Reached("rb-rebuilt") <=> j.phase \in {"rb-rebuilt", "rolled-back"}
<1>1. ASSUME IsForward
      PROVE  /\ Reached("prepared") <=> j.phase # "started"
             /\ Reached("switched") <=> j.phase \in {"switched", "rebuilt", "applied", "committed"}
             /\ Reached("rebuilt") <=> j.phase \in {"rebuilt", "applied", "committed"}
  <2>1. PICK i \in 1 .. 7 : j.phase = Forward[i]
    BY <1>1 DEF IsForward
  <2>2. \A k \in 1 .. 7 : Reached(Forward[k]) <=> i >= k
    BY <2>1, ForwardReached
  <2>3. (Reached("prepared") <=> i >= 2) /\ (Reached("switched") <=> i >= 4)
        /\ (Reached("rebuilt") <=> i >= 5)
    <3>1. Forward[2] = "prepared" /\ Forward[4] = "switched" /\ Forward[5] = "rebuilt"
      BY DEF Forward
    <3>2. (Reached(Forward[2]) <=> i >= 2) /\ (Reached(Forward[4]) <=> i >= 4)
          /\ (Reached(Forward[5]) <=> i >= 5)
      BY <2>2
    <3> QED
      BY <3>1, <3>2
  <2> QED
    BY <2>1, <2>3 DEF Forward
<1>2. ASSUME j.phase \in RollbackPhases
      PROVE  /\ Reached("rb-quiesced") <=> j.phase \notin {"rb-started", "rb-saved"}
             /\ Reached("rb-restored") <=>
                  j.phase \notin {"rb-started", "rb-saved", "rb-quiesced"}
             /\ Reached("rb-switched") <=> j.phase \in {"rb-switched", "rb-rebuilt", "rolled-back"}
             /\ Reached("rb-rebuilt") <=> j.phase \in {"rb-rebuilt", "rolled-back"}
  <2>1. PICK i \in 1 .. 7 : j.phase = Rollback[i]
    BY <1>2, PhaseNames
  <2>2. \A k \in 1 .. 7 : Reached(Rollback[k]) <=> i >= k
    BY <2>1, RollbackReached
  <2>3. /\ Reached("rb-quiesced") <=> i >= 3
        /\ Reached("rb-restored") <=> i >= 4
        /\ Reached("rb-switched") <=> i >= 5
        /\ Reached("rb-rebuilt") <=> i >= 6
    <3>1. /\ Rollback[3] = "rb-quiesced" /\ Rollback[4] = "rb-restored"
          /\ Rollback[5] = "rb-switched" /\ Rollback[6] = "rb-rebuilt"
      BY DEF Rollback
    <3>2. /\ Reached(Rollback[3]) <=> i >= 3
          /\ Reached(Rollback[4]) <=> i >= 4
          /\ Reached(Rollback[5]) <=> i >= 5
          /\ Reached(Rollback[6]) <=> i >= 6
      BY <2>2
    <3> QED
      BY <3>1, <3>2
  <2> QED
    BY <2>1, <2>3 DEF Rollback
<1> QED
  BY <1>1, <1>2

\* Only the phase is saved.
LEMMA PhaseSaved ==
    ASSUME j \in Journals, NEW p \in Phases, Phase(p)
    PROVE  /\ j' \in Journals /\ j'.phase = p
           /\ j'.inv = j.inv /\ j'.rinv = j.rinv /\ j'.items = j.items /\ j'.rb = j.rb
           /\ j'.setid = j.setid /\ j'.rbSetid = j.rbSetid
           /\ j'.up = j.up /\ j'.rbUp = j.rbUp /\ j'.abortUp = j.abortUp
           /\ j'.timers = j.timers /\ j'.committing = j.committing
BY DEF Journals, Phase

\* Only one tree's entry is saved.
LEMMA ItemSaved ==
    ASSUME j \in Journals, NEW t \in Trees, NEW x \in Items, j' = [j EXCEPT !.items[t] = x]
    PROVE  /\ j' \in Journals /\ j'.items = [j.items EXCEPT ![t] = x]
           /\ j'.phase = j.phase /\ j'.inv = j.inv /\ j'.rinv = j.rinv /\ j'.rb = j.rb
           /\ j'.setid = j.setid /\ j'.rbSetid = j.rbSetid
           /\ j'.timers = j.timers /\ j'.committing = j.committing
BY DEF Journals

LEMMA RbItemSaved ==
    ASSUME j \in Journals, NEW t \in Trees, NEW x \in RbItems, j' = [j EXCEPT !.rb[t] = x]
    PROVE  /\ j' \in Journals /\ j'.rb = [j.rb EXCEPT ![t] = x]
           /\ j'.phase = j.phase /\ j'.inv = j.inv /\ j'.rinv = j.rinv /\ j'.items = j.items
           /\ j'.setid = j.setid /\ j'.rbSetid = j.rbSetid
           /\ j'.timers = j.timers /\ j'.committing = j.committing
BY DEF Journals

LEMMA SetidSaved ==
    ASSUME j \in Journals, NEW t \in Trees, NEW x \in Listed, j' = [j EXCEPT !.setid[t] = x]
    PROVE  /\ j' \in Journals /\ j'.setid = [j.setid EXCEPT ![t] = x]
           /\ j'.phase = j.phase /\ j'.inv = j.inv /\ j'.rinv = j.rinv /\ j'.items = j.items
           /\ j'.rb = j.rb /\ j'.rbSetid = j.rbSetid
           /\ j'.timers = j.timers /\ j'.committing = j.committing
BY DEF Journals

LEMMA RbSetidSaved ==
    ASSUME j \in Journals, NEW t \in Trees, NEW x \in Listed, j' = [j EXCEPT !.rbSetid[t] = x]
    PROVE  /\ j' \in Journals /\ j'.rbSetid = [j.rbSetid EXCEPT ![t] = x]
           /\ j'.phase = j.phase /\ j'.inv = j.inv /\ j'.rinv = j.rinv /\ j'.items = j.items
           /\ j'.rb = j.rb /\ j'.setid = j.setid
           /\ j'.timers = j.timers /\ j'.committing = j.committing
BY DEF Journals

-----------------------------------------------------------------------------
\* What a step that leaves the trees alone keeps.

\* A tree's part in the invariant stays when nothing of it changes.
LEMMA SameTree ==
    ASSUME NEW t, tree'[t] = tree[t], j'.items[t] = j.items[t], j'.rb[t] = j.rb[t],
           j'.setid[t] = j.setid[t], j'.rbSetid[t] = j.rbSetid[t], j'.rinv = j.rinv
    PROVE  /\ Home(t)' <=> Home(t)
           /\ Abroad(t)' <=> Abroad(t)
           /\ Absent(t)' <=> Absent(t)
           /\ ListedYes(t)' <=> ListedYes(t)
           /\ Modes(t)' <=> Modes(t)
           /\ Carried(t)' <=> Carried(t)
           /\ Returned(t)' <=> Returned(t)
           /\ OnNew(t)' <=> OnNew(t)
           /\ OnOld(t)' <=> OnOld(t)
<1>1. /\ (Home(t)' <=> Home(t)) /\ (Abroad(t)' <=> Abroad(t)) /\ (Absent(t)' <=> Absent(t))
      /\ (ListedYes(t)' <=> ListedYes(t)) /\ (Same(t)' <=> Same(t))
  BY DEF Home, Abroad, Absent, ListedYes, Unfinished, Same
<1>2. (OnNew(t)' <=> OnNew(t)) /\ (OnOld(t)' <=> OnOld(t)) /\ (Modes(t)' <=> Modes(t))
  BY <1>1 DEF OnNew, OnOld, Modes
<1>3. Carried(t)' <=> Carried(t)
  BY <1>1 DEF Carried
<1>4. Returned(t)' <=> Returned(t)
  BY <1>1 DEF Returned
<1> QED
  BY <1>1, <1>2, <1>3, <1>4

\* The same, of all of them.
LEMMA SameTrees ==
    ASSUME UNCHANGED <<tree, j.items, j.rb, j.setid, j.rbSetid, j.rinv>>
    PROVE  /\ \A t : /\ (Home(t)' <=> Home(t)) /\ (Abroad(t)' <=> Abroad(t))
                     /\ (Absent(t)' <=> Absent(t)) /\ (ListedYes(t)' <=> ListedYes(t))
                     /\ (Modes(t)' <=> Modes(t)) /\ (Carried(t)' <=> Carried(t))
                     /\ (Returned(t)' <=> Returned(t))
                     /\ (OnNew(t)' <=> OnNew(t)) /\ (OnOld(t)' <=> OnOld(t))
           /\ (AllAbroad' <=> AllAbroad) /\ (AllHome' <=> AllHome)
<1>1. \A t : /\ (Home(t)' <=> Home(t)) /\ (Abroad(t)' <=> Abroad(t)) /\ (Absent(t)' <=> Absent(t))
             /\ (ListedYes(t)' <=> ListedYes(t)) /\ (OnNew(t)' <=> OnNew(t))
             /\ (OnOld(t)' <=> OnOld(t))
  BY SameTree
<1>2. \A t : /\ (Modes(t)' <=> Modes(t)) /\ (Carried(t)' <=> Carried(t))
             /\ (Returned(t)' <=> Returned(t))
  BY SameTree
<1>3. (AllAbroad' <=> AllAbroad) /\ (AllHome' <=> AllHome)
  BY <1>1 DEF AllAbroad, AllHome
<1> QED
  BY <1>1, <1>2, <1>3

\* All that the invariant of the trees looks at.
TreeView == <<j.phase, j.inv, j.rinv, j.items, j.rb, j.setid, j.rbSetid, j.committing, tree>>

LEMMA TreesStay ==
    ASSUME TreesOK, UNCHANGED TreeView
    PROVE  /\ TreesOK' /\ (AllAbroad' <=> AllAbroad) /\ (AllHome' <=> AllHome)
           /\ \A t \in Trees : ListedYes(t)' <=> ListedYes(t)
<1> USE DEF TreeView
<1>1. /\ \A t : /\ (Home(t)' <=> Home(t)) /\ (Abroad(t)' <=> Abroad(t))
                /\ (Absent(t)' <=> Absent(t)) /\ (ListedYes(t)' <=> ListedYes(t))
                /\ (OnNew(t)' <=> OnNew(t)) /\ (OnOld(t)' <=> OnOld(t))
      /\ (AllAbroad' <=> AllAbroad) /\ (AllHome' <=> AllHome)
  BY SameTrees
<1>2. \A t : /\ (Modes(t)' <=> Modes(t)) /\ (Carried(t)' <=> Carried(t))
             /\ (Returned(t)' <=> Returned(t))
  BY SameTrees
<1>4. HomeOK' /\ AbroadOK' /\ PriorOK' /\ BackUnused' /\ CarriedOK' /\ SwitchedOK'
  BY <1>1, <1>2
     DEF TreesOK, HomeOK, AbroadOK, PriorOK, BackUnused, CarriedOK, SwitchedOK
<1>5. RebuiltOK' /\ ModesOK' /\ DoneOK' /\ ReturningOK' /\ ReturnedOK'
  BY <1>1, <1>2
     DEF TreesOK, RebuiltOK, ModesOK, DoneOK, ReturningOK, ReturnedOK
<1> QED
  BY <1>1, <1>4, <1>5 DEF TreesOK

\* The configured daemon starts; the other's containers are left as they are.
LEMMA Started ==
    ASSUME Types, StartDaemon
    PROVE  /\ daemon' = ConfiguredDaemon /\ box' \in [{"old", "new"} -> Boxes]
           /\ box[ConfiguredDaemon] = "none" => box'[ConfiguredDaemon] = "none"
           /\ \A r \in {"old", "new"} : r # ConfiguredDaemon => box'[r] = box[r]
<1>1. ConfiguredDaemon \in {"old", "new"}
  BY DEF ConfiguredDaemon
<1>2. PICK c \in Restarts(box[ConfiguredDaemon]) : box' = [box EXCEPT ![ConfiguredDaemon] = c]
  BY DEF StartDaemon
<1>3. c \in Boxes /\ (box[ConfiguredDaemon] = "none" => c = "none")
  BY <1>1, <1>2 DEF Restarts, Boxes, Types
<1> QED
  BY <1>1, <1>2, <1>3 DEF StartDaemon, Types

\* With the daemon down nothing runs.
LEMMA StoppedDaemon ==
    ASSUME Types, StopDaemon
    PROVE  /\ daemon' = "none" /\ box' \in [{"old", "new"} -> Boxes]
           /\ \A r \in {"old", "new"} : box'[r] # "up" /\ (box[r] = "none" <=> box'[r] = "none")
BY DEF StopDaemon, Halted, Types, Boxes

-----------------------------------------------------------------------------
\* back_to_prior and ensure_prior.

LEMMA BackStopKeeps == ASSUME Types, Inv, BackStop PROVE Types' /\ Inv'
<1>1. /\ daemon' = "none" /\ box' \in [{"old", "new"} -> Boxes]
      /\ \A r \in {"old", "new"} : box'[r] # "up" /\ (box[r] = "none" <=> box'[r] = "none")
  BY StoppedDaemon DEF BackStop
<1>2. TreesOK' /\ (AllAbroad' <=> AllAbroad) /\ \A t \in Trees : ListedYes(t)' <=> ListedYes(t)
  BY TreesStay DEF BackStop, TreeView, Inv
<1>3. Types'
  BY <1>1 DEF Types, BackStop, Goto, At, NoFault
<1>4. MarkerOK' /\ DaemonOK'
  BY <1>1, <1>2 DEF BackStop, Inv, MarkerOK, DaemonOK
<1>5. BoxOK'
  BY <1>1, <1>2 DEF BackStop, Inv, BoxOK
<1>6. StepsOK'
  BY <1>1 DEF BackStop, Goto, At, Inv, StepsOK, BackSteps, AtPrior
<1> QED
  BY <1>2, <1>3, <1>4, <1>5, <1>6 DEF Inv

LEMMA BackConfigKeeps == ASSUME Types, Inv, BackConfig PROVE Types' /\ Inv'
<1> USE DEF BackConfig, Goto, At, NoFault
<1>1. Types'
  BY DEF Types
<1>2. TreesOK' /\ (AllAbroad' <=> AllAbroad) /\ \A t \in Trees : ListedYes(t)' <=> ListedYes(t)
  BY TreesStay DEF TreeView, Inv
<1>3. daemon = "none" /\ j.phase \in {"quiesced", "rb-restored"}
  BY DEF Inv, StepsOK, BackSteps
<1>4. MarkerOK' /\ DaemonOK' /\ BoxOK'
  BY <1>2, <1>3 DEF Inv, MarkerOK, DaemonOK, BoxOK, Ours, Carry, Opening, Fresh, Prior
<1>5. StepsOK'
  BY <1>3 DEF Inv, StepsOK, BackSteps, AtPrior
<1> QED
  BY <1>1, <1>2, <1>4, <1>5 DEF Inv

LEMMA BackRecordKeeps == ASSUME Types, Inv, BackRecord PROVE Types' /\ Inv'
<1> USE DEF BackRecord, Goto, At, NoFault
<1>1. Types'
  BY DEF Types
<1>2. TreesOK' /\ (AllAbroad' <=> AllAbroad) /\ \A t \in Trees : ListedYes(t)' <=> ListedYes(t)
  BY TreesStay DEF TreeView, Inv
<1>3. daemon = "none" /\ j.phase \in {"quiesced", "rb-restored"} /\ conf = "prior"
  BY DEF Inv, StepsOK, BackSteps
<1>4. MarkerOK' /\ DaemonOK' /\ BoxOK'
  BY <1>2, <1>3 DEF Inv, MarkerOK, DaemonOK, BoxOK, Ours, Carry, Opening, Fresh, Prior
<1>5. StepsOK'
  BY <1>3 DEF Inv, StepsOK, BackSteps, AtPrior
<1> QED
  BY <1>1, <1>2, <1>4, <1>5 DEF Inv

LEMMA BackStartKeeps == ASSUME Types, Inv, BackStart PROVE Types' /\ Inv'
<1> USE DEF BackStart, Goto, At, NoFault
<1>1. /\ conf = "prior" /\ ~rec
      /\ \/ after \in {"phase0", "abort-up", "undo-up"} /\ j.phase = "quiesced"
         \/ after = "rb-switched" /\ j.phase = "rb-restored"
  BY DEF Inv, StepsOK, BackSteps
<1>2. /\ daemon' = "old" /\ box' \in [{"old", "new"} -> Boxes]
      /\ box'["new"] = box["new"]
  BY <1>1, Started DEF ConfiguredDaemon
<1>3. Types'
  BY <1>1, <1>2 DEF Types
<1>4. TreesOK' /\ (AllAbroad' <=> AllAbroad) /\ \A t \in Trees : ListedYes(t)' <=> ListedYes(t)
  BY TreesStay DEF TreeView, Inv
<1>5. MarkerOK' /\ DaemonOK' /\ BoxOK'
  BY <1>1, <1>2, <1>4
     DEF Inv, MarkerOK, DaemonOK, BoxOK, ConfiguredDaemon, Ours, Carry, Opening, Fresh, Prior
<1>6. StepsOK'
  BY <1>1 DEF Inv, StepsOK, BackSteps, AtPrior, Prior
<1> QED
  BY <1>3, <1>4, <1>5, <1>6 DEF Inv

LEMMA EnsurePriorKeeps == ASSUME Types, Inv, EnsurePrior PROVE Types' /\ Inv'
<1> USE DEF EnsurePrior, Goto, At, NoFault
<1>1. j.phase \in Prior /\ after \in {"phase0", "abort-up"}
  BY DEF Inv, StepsOK
<1>2. TreesOK' /\ (AllAbroad' <=> AllAbroad) /\ \A t \in Trees : ListedYes(t)' <=> ListedYes(t)
  BY TreesStay DEF TreeView, Inv
<1>3. CASE (conf = "ours" \/ rec) /\ Goto("back-stop") /\ UNCHANGED <<host, box>>
  <2>1. Types'
    BY <1>3 DEF Types, host
  <2>2. j.phase = "quiesced"
    BY <1>1, <1>3 DEF Inv, DaemonOK, Prior, Types
  <2>3. MarkerOK' /\ DaemonOK' /\ BoxOK'
    BY <1>2, <1>3 DEF Inv, MarkerOK, DaemonOK, BoxOK, host, ConfiguredDaemon
  <2>4. StepsOK'
    BY <1>1, <1>3, <2>2 DEF Inv, StepsOK, BackSteps, AtPrior, host
  <2> QED
    BY <1>2, <2>1, <2>3, <2>4 DEF Inv
<1>4. CASE /\ conf = "prior" /\ ~rec /\ Goto(after)
           /\ \/ daemon = "none" /\ StartDaemon /\ UNCHANGED <<conf, rec, marker, timers>>
              \/ daemon # "none" /\ UNCHANGED <<host, box>>
  <2>1. /\ daemon' \in {"old", "none"} /\ box' \in [{"old", "new"} -> Boxes]
        /\ box'["new"] = box["new"] /\ UNCHANGED <<conf, rec, marker, timers>>
    <3>1. CASE daemon = "none" /\ StartDaemon /\ UNCHANGED <<conf, rec, marker, timers>>
      BY <1>4, <3>1, Started DEF ConfiguredDaemon
    <3>2. CASE daemon # "none" /\ UNCHANGED <<host, box>>
      BY <1>4, <3>2 DEF host, Inv, DaemonOK, ConfiguredDaemon, Types
    <3> QED
      BY <1>4, <3>1, <3>2
  <2>2. Types'
    BY <1>1, <1>4, <2>1 DEF Types
  <2>3. MarkerOK' /\ DaemonOK' /\ BoxOK'
    BY <1>1, <1>2, <1>4, <2>1
       DEF Inv, MarkerOK, DaemonOK, BoxOK, ConfiguredDaemon, Ours, Carry, Opening, Fresh, Prior
  <2>4. StepsOK'
    BY <1>1, <1>4, <2>1 DEF Inv, StepsOK, BackSteps, AtPrior
  <2> QED
    BY <1>2, <2>2, <2>3, <2>4 DEF Inv
<1> QED
  BY <1>3, <1>4

-----------------------------------------------------------------------------
\* The way there: _rebuild and the steps of one tree.

\* The invariant of the trees while they are carried.
SwitchedTree(t) ==
    /\ j.rb[t] = "none" /\ j.rbSetid[t] = "unset"
    /\ Carried(t) /\ Modes(t)
    /\ j.items[t] = "none" /\ t \notin Binds => Home(t) /\ (t \in j.inv <=> OnOld(t))
    /\ t \notin j.inv => Absent(t) /\ j.items[t] = "none"

LEMMA SwitchedTrees ==
    ASSUME j.phase = "switched"
    PROVE  TreesOK <=> \A t \in Trees : SwitchedTree(t)
<1> USE DEF Fresh, Prior, Carry, Opening, Moving
<1>1. /\ HomeOK /\ AbroadOK /\ PriorOK /\ RebuiltOK /\ DoneOK /\ ReturningOK /\ ReturnedOK
  BY DEF HomeOK, AbroadOK, PriorOK, RebuiltOK, DoneOK, ReturningOK, ReturnedOK
<1>2. BackUnused /\ CarriedOK /\ SwitchedOK /\ ModesOK <=> \A t \in Trees : SwitchedTree(t)
  BY DEF BackUnused, CarriedOK, SwitchedOK, ModesOK, SwitchedTree
<1> QED
  BY <1>1, <1>2 DEF TreesOK

\* A step that changes one tree owes the invariant for that tree only.
LEMMA OneSwitchedTree ==
    ASSUME Types, TreesOK, j.phase = "switched", j'.phase = "switched", NEW c \in Trees,
           \A t \in Trees \ {c} :
             /\ tree'[t] = tree[t] /\ j'.items[t] = j.items[t] /\ j'.rb[t] = j.rb[t]
             /\ j'.setid[t] = j.setid[t] /\ j'.rbSetid[t] = j.rbSetid[t],
           j'.rinv = j.rinv, j'.inv = j.inv, SwitchedTree(c)'
    PROVE  TreesOK'
<1>1. \A t \in Trees : SwitchedTree(t)
  BY SwitchedTrees
<1>2. ASSUME NEW t \in Trees, t # c PROVE SwitchedTree(t)'
  BY <1>1, <1>2, SameTree DEF SwitchedTree
<1>3. \A t \in Trees : SwitchedTree(t)'
  BY <1>2
<1>4. (j.phase = "switched" => (TreesOK <=> \A t \in Trees : SwitchedTree(t)))'
  BY SwitchedTrees, PTL
<1> QED
  BY <1>3, <1>4

\* While trees are on the way the rest of the invariant is only about the host.
LEMMA HostStays ==
    ASSUME Types, Inv, UNCHANGED <<host, box>>, j'.phase = j.phase, j'.timers = j.timers,
           j.phase \in {"switched", "rb-quiesced", "rb-restored", "rb-switched"}
    PROVE  marker /\ MarkerOK' /\ DaemonOK' /\ BoxOK'
<1> USE DEF Fresh, Prior, Carry, Opening, Ours
<1>1. marker /\ box.new = "none"
  BY DEF Inv, MarkerOK, BoxOK, Types, Boxes
<1> QED
  BY <1>1 DEF Inv, MarkerOK, DaemonOK, BoxOK, ConfiguredDaemon, host

LEMMA ListSetidKeeps == ASSUME Types, Inv, ListSetid PROVE Types' /\ Inv'
<1> USE DEF ListSetid, Goto, At, NoFault, Save
<1>1. j.phase = "switched" /\ cur \in j.inv /\ cur \in Trees
      /\ j.items[cur] = IF cur \in Binds THEN "none" ELSE "moved"
  BY DEF Inv, StepsOK, Types
<1> DEFINE x == SetidList(cur, j.setid[cur], "unset")
<1>2. x \in {"yes", "no"} /\ (x = "yes" <=> tree[cur].suid \/ j.setid[cur] = "yes")
  BY DEF SetidList
<1>3. j' = [j EXCEPT !.setid[cur] = x]
  OBVIOUS
<1> HIDE DEF x
<1>4. /\ j' \in Journals /\ j'.setid = [j.setid EXCEPT ![cur] = x]
      /\ j'.phase = j.phase /\ j'.inv = j.inv /\ j'.rinv = j.rinv /\ j'.items = j.items
      /\ j'.rb = j.rb /\ j'.rbSetid = j.rbSetid
      /\ j'.timers = j.timers /\ j'.committing = j.committing
  <2>1. j \in Journals /\ x \in Listed
    BY <1>2 DEF Types, Listed
  <2> QED
    BY <1>1, <1>3, <2>1, SetidSaved
<1>5. Types'
  BY <1>4 DEF Types, host
<1>6. j.setid \in [Trees -> Listed] /\ tree[cur] \in TreeStates
  BY <1>1 DEF Types, Journals
<1>7. SwitchedTree(cur)
  BY <1>1, SwitchedTrees DEF Inv
<1>8. j'.setid[cur] = x /\ (x = "yes" <=> tree[cur].want)
  BY <1>1, <1>2, <1>4, <1>6, <1>7 DEF SwitchedTree, Modes, ListedYes, Unfinished, Same, TreeStates
<1>9. SwitchedTree(cur)'
  <2>1. Carried(cur)' /\ Modes(cur)'
    BY <1>1, <1>4, <1>7, <1>8
       DEF SwitchedTree, Modes, ListedYes, Unfinished, Same, Carried, Home, Abroad
  <2> QED
    BY <1>1, <1>4, <1>7, <2>1 DEF SwitchedTree
<1>10. TreesOK'
  BY <1>1, <1>4, <1>6, <1>9, OneSwitchedTree DEF Inv
<1>11. MarkerOK' /\ DaemonOK' /\ BoxOK'
  BY <1>1, <1>4, HostStays
<1>12. StepsOK'
  BY <1>1, <1>4, <1>8 DEF Inv, StepsOK, BackSteps, AtPrior, host
<1> QED
  BY <1>5, <1>10, <1>11, <1>12 DEF Inv

\* A step of the loops changes one tree.
LEMMA OneTree ==
    ASSUME tree \in [Trees -> TreeStates], NEW t \in Trees, NEW state \in TreeStates,
           tree' = [tree EXCEPT ![t] = state]
    PROVE  /\ tree' \in [Trees -> TreeStates] /\ \A u \in Trees \ {t} : tree'[u] = tree[u]
           /\ tree'[t] = state
OBVIOUS

\* What shift_tree and its chmods do to the tree they are at.
LEMMA Chowned ==
    ASSUME Types, NEW step, NEW next, NEW target \in {"host", "remap"}, Chown(step, next, target)
    PROVE  /\ tree' \in [Trees -> TreeStates] /\ \A t \in Trees \ {cur} : tree'[t] = tree[t]
           /\ tree'[cur].root = tree[cur].root /\ tree'[cur].oldDir = tree[cur].oldDir
           /\ tree'[cur].want = tree[cur].want
           /\ tree[cur].ids = target => tree'[cur].ids = target /\ tree'[cur].suid = tree[cur].suid
           /\ tree[cur].ids # target => tree'[cur].ids = "part" /\ ~tree'[cur].suid
<1> DEFINE state == [tree[cur] EXCEPT !.ids = IF @ = target THEN @ ELSE "part",
                                      !.suid = IF tree[cur].ids = target THEN @ ELSE FALSE]
<1>1. cur \in Trees /\ tree[cur] \in TreeStates
  BY DEF Types
<1>2. tree' = [tree EXCEPT ![cur] = state]
  BY DEF Chown
<1>3. /\ state \in TreeStates
      /\ state.root = tree[cur].root /\ state.oldDir = tree[cur].oldDir
      /\ state.want = tree[cur].want
      /\ tree[cur].ids = target => state.ids = target /\ state.suid = tree[cur].suid
      /\ tree[cur].ids # target => state.ids = "part" /\ ~state.suid
  BY <1>1 DEF TreeStates
<1> HIDE DEF state
<1>4. /\ tree' \in [Trees -> TreeStates] /\ \A t \in Trees \ {cur} : tree'[t] = tree[t]
      /\ tree'[cur] = state
  BY <1>1, <1>2, <1>3, OneTree DEF Types
<1> QED
  BY <1>3, <1>4

LEMMA Chmodded ==
    ASSUME Types, NEW step, NEW next, NEW target \in {"host", "remap"}, NEW listed,
           Chmod(step, next, target, listed)
    PROVE  /\ tree' \in [Trees -> TreeStates] /\ \A t \in Trees \ {cur} : tree'[t] = tree[t]
           /\ tree'[cur].root = tree[cur].root /\ tree'[cur].oldDir = tree[cur].oldDir
           /\ tree'[cur].want = tree[cur].want /\ tree'[cur].ids = target
           /\ tree'[cur].suid <=> tree[cur].suid \/ listed = "yes"
<1> DEFINE state == [tree[cur] EXCEPT !.ids = target, !.suid = @ \/ listed = "yes"]
<1>1. cur \in Trees /\ tree[cur] \in TreeStates
  BY DEF Types
<1>2. tree' = [tree EXCEPT ![cur] = state]
  BY DEF Chmod
<1>3. /\ state \in TreeStates
      /\ state.root = tree[cur].root /\ state.oldDir = tree[cur].oldDir
      /\ state.want = tree[cur].want /\ state.ids = target
      /\ state.suid <=> tree[cur].suid \/ listed = "yes"
  BY <1>1 DEF TreeStates
<1> HIDE DEF state
<1>4. /\ tree' \in [Trees -> TreeStates] /\ \A t \in Trees \ {cur} : tree'[t] = tree[t]
      /\ tree'[cur] = state
  BY <1>1, <1>2, <1>3, OneTree DEF Types
<1> QED
  BY <1>3, <1>4

LEMMA ChownThereKeeps ==
    ASSUME Types, Inv, Chown("chown", "chmod", "remap") PROVE Types' /\ Inv'
<1> USE DEF Goto, At, NoFault
<1>1. /\ pc = "chown" /\ pc' = "chmod" /\ UNCHANGED <<run, after, cur, faults, j, host, box>>
  BY DEF Chown
<1>2. /\ tree' \in [Trees -> TreeStates] /\ \A t \in Trees \ {cur} : tree'[t] = tree[t]
      /\ tree'[cur].root = tree[cur].root /\ tree'[cur].oldDir = tree[cur].oldDir
      /\ tree'[cur].want = tree[cur].want
      /\ tree[cur].ids = "remap" => tree'[cur].ids = "remap" /\ tree'[cur].suid = tree[cur].suid
      /\ tree[cur].ids # "remap" => tree'[cur].ids = "part" /\ ~tree'[cur].suid
  BY Chowned
<1>3. Types'
  BY <1>1, <1>2 DEF Types, host
<1>4. j.phase = "switched" /\ cur \in j.inv /\ cur \in Trees
      /\ j.items[cur] = (IF cur \in Binds THEN "none" ELSE "moved")
      /\ (j.setid[cur] = "yes" <=> tree[cur].want)
  BY <1>1 DEF Inv, StepsOK, Types
<1>5. SwitchedTree(cur)
  BY <1>4, SwitchedTrees DEF Inv
<1>6. SwitchedTree(cur)'
  <2>1. Carried(cur)'
    BY <1>1, <1>2, <1>4, <1>5 DEF SwitchedTree, Carried
  <2>2. Modes(cur)'
    BY <1>1, <1>2, <1>4, <1>5 DEF SwitchedTree, Modes, ListedYes, Unfinished, Same
  <2> QED
    BY <1>1, <1>4, <1>5, <2>1, <2>2 DEF SwitchedTree
<1>7. TreesOK'
  BY <1>1, <1>2, <1>4, <1>6, OneSwitchedTree DEF Inv
<1>8. MarkerOK' /\ DaemonOK' /\ BoxOK'
  BY <1>1, <1>4, HostStays
<1>9. StepsOK'
  BY <1>1, <1>2, <1>4 DEF Inv, StepsOK, BackSteps, AtPrior, host
<1> QED
  BY <1>3, <1>7, <1>8, <1>9 DEF Inv

LEMMA ChmodThereKeeps ==
    ASSUME Types, Inv, Chmod("chmod", "save-shifted", "remap", j.setid[cur]) PROVE Types' /\ Inv'
<1> USE DEF Goto, At, NoFault
<1>1. /\ pc = "chmod" /\ pc' = "save-shifted" /\ UNCHANGED <<run, after, cur, faults, j, host, box>>
  BY DEF Chmod
<1>2. /\ tree' \in [Trees -> TreeStates] /\ \A t \in Trees \ {cur} : tree'[t] = tree[t]
      /\ tree'[cur].root = tree[cur].root /\ tree'[cur].oldDir = tree[cur].oldDir
      /\ tree'[cur].want = tree[cur].want /\ tree'[cur].ids = "remap"
      /\ tree'[cur].suid <=> tree[cur].suid \/ j.setid[cur] = "yes"
  BY Chmodded
<1>3. Types'
  BY <1>1, <1>2 DEF Types, host
<1>4. j.phase = "switched" /\ cur \in j.inv /\ cur \in Trees
      /\ j.items[cur] = (IF cur \in Binds THEN "none" ELSE "moved")
      /\ (j.setid[cur] = "yes" <=> tree[cur].want) /\ tree[cur].ids # "host"
  BY <1>1 DEF Inv, StepsOK, Types
<1>5. SwitchedTree(cur) /\ tree[cur] \in TreeStates /\ tree'[cur] \in TreeStates
  BY <1>2, <1>4, SwitchedTrees DEF Inv, Types
<1>6. Same(cur)'
  <2>1. tree'[cur].suid \in BOOLEAN /\ tree[cur].suid \in BOOLEAN /\ tree[cur].want \in BOOLEAN
        /\ tree[cur].ids \in {"part", "remap"}
    BY <1>4, <1>5 DEF TreeStates
  <2>2. CASE tree[cur].ids = "part"
    BY <1>1, <1>2, <1>4, <1>5, <2>1, <2>2 DEF SwitchedTree, Modes, Same
  <2>3. CASE tree[cur].ids = "remap"
    BY <1>1, <1>2, <1>4, <1>5, <2>1, <2>3 DEF SwitchedTree, Modes, Same
  <2> QED
    BY <2>1, <2>2, <2>3
<1>7. SwitchedTree(cur)'
  <2>1. Carried(cur)'
    BY <1>1, <1>2, <1>4, <1>5 DEF SwitchedTree, Carried
  <2>2. Modes(cur)'
    BY <1>1, <1>2, <1>4, <1>5, <1>6 DEF SwitchedTree, Modes, ListedYes, Unfinished
  <2> QED
    BY <1>1, <1>4, <1>5, <2>1, <2>2 DEF SwitchedTree
<1>8. TreesOK'
  BY <1>1, <1>2, <1>4, <1>7, OneSwitchedTree DEF Inv
<1>9. MarkerOK' /\ DaemonOK' /\ BoxOK'
  BY <1>1, <1>4, HostStays
<1>10. StepsOK'
  BY <1>1, <1>2, <1>4 DEF Inv, StepsOK, BackSteps, AtPrior, host
<1> QED
  BY <1>3, <1>8, <1>9, <1>10 DEF Inv

\* volumes.move, either way.
LEMMA MovedTree ==
    ASSUME Types, NEW step, NEW next, NEW to \in {"old", "new"}, Move(step, next, to)
    PROVE  /\ tree' \in [Trees -> TreeStates] /\ \A t \in Trees \ {cur} : tree'[t] = tree[t]
           /\ tree'[cur].root = to /\ tree'[cur].oldDir = tree[cur].oldDir
           /\ tree'[cur].want = tree[cur].want /\ tree'[cur].ids = tree[cur].ids
           /\ tree'[cur].suid = tree[cur].suid
BY DEF Types, TreeStates, Move, Renamed, Roots

LEMMA MoveThereKeeps ==
    ASSUME Types, Inv, Move("move", "save-moved", "new") PROVE Types' /\ Inv'
<1> USE DEF Goto, At, NoFault
<1>1. /\ pc = "move" /\ pc' = "save-moved" /\ UNCHANGED <<run, after, cur, faults, j, host, box>>
  BY DEF Move
<1>2. /\ tree' \in [Trees -> TreeStates] /\ \A t \in Trees \ {cur} : tree'[t] = tree[t]
      /\ tree'[cur].root = "new" /\ tree'[cur].oldDir = tree[cur].oldDir
      /\ tree'[cur].want = tree[cur].want /\ tree'[cur].ids = tree[cur].ids
      /\ tree'[cur].suid = tree[cur].suid
  BY MovedTree
<1>3. Types'
  BY <1>1, <1>2 DEF Types, host
<1>4. j.phase = "switched" /\ cur \in j.inv /\ cur \in Trees /\ cur \notin Binds
      /\ j.items[cur] = "created"
  BY <1>1 DEF Inv, StepsOK, Types
<1>5. SwitchedTree(cur)
  BY <1>4, SwitchedTrees DEF Inv
<1>6. SwitchedTree(cur)'
  <2>1. Carried(cur)'
    BY <1>1, <1>2, <1>4, <1>5 DEF SwitchedTree, Carried
  <2>2. Modes(cur)'
    BY <1>1, <1>2, <1>4, <1>5 DEF SwitchedTree, Modes, ListedYes, Unfinished, Same
  <2> QED
    BY <1>1, <1>4, <1>5, <2>1, <2>2 DEF SwitchedTree
<1>7. TreesOK'
  BY <1>1, <1>2, <1>4, <1>6, OneSwitchedTree DEF Inv
<1>8. MarkerOK' /\ DaemonOK' /\ BoxOK'
  BY <1>1, <1>4, HostStays
<1>9. StepsOK'
  BY <1>1, <1>2, <1>4 DEF Inv, StepsOK, BackSteps, AtPrior, host
<1> QED
  BY <1>3, <1>7, <1>8, <1>9 DEF Inv

LEMMA SaveMovedKeeps ==
    ASSUME Types, Inv, SaveItem("save-moved", "list", "moved") PROVE Types' /\ Inv'
<1> USE DEF SaveItem, Goto, At, NoFault, Save
<1>1. j.phase = "switched" /\ cur \in j.inv /\ cur \in Trees /\ cur \notin Binds
      /\ j.items[cur] = "created" /\ tree[cur].root = "new"
  BY DEF Inv, StepsOK, Types
<1>2. /\ j' \in Journals /\ j'.items = [j.items EXCEPT ![cur] = "moved"]
      /\ j'.phase = j.phase /\ j'.inv = j.inv /\ j'.rinv = j.rinv /\ j'.setid = j.setid
      /\ j'.rb = j.rb /\ j'.rbSetid = j.rbSetid
      /\ j'.timers = j.timers /\ j'.committing = j.committing
  <2>1. j \in Journals /\ "moved" \in Items
    BY DEF Types, Items
  <2>2. j' = [j EXCEPT !.items[cur] = "moved"]
    OBVIOUS
  <2> QED
    BY <1>1, <2>1, <2>2, ItemSaved
<1>3. Types'
  BY <1>2 DEF Types, host
<1>4. j.items \in [Trees -> Items]
  BY DEF Types, Journals
<1>5. SwitchedTree(cur)
  BY <1>1, SwitchedTrees DEF Inv
<1>6. SwitchedTree(cur)'
  <2>1. Carried(cur)'
    BY <1>1, <1>2, <1>4, <1>5 DEF SwitchedTree, Carried
  <2>2. Modes(cur)'
    BY <1>1, <1>2, <1>4, <1>5 DEF SwitchedTree, Modes, ListedYes, Unfinished, Same
  <2> QED
    BY <1>1, <1>2, <1>4, <1>5, <2>1, <2>2 DEF SwitchedTree
<1>7. TreesOK'
  BY <1>1, <1>2, <1>4, <1>6, OneSwitchedTree DEF Inv
<1>8. MarkerOK' /\ DaemonOK' /\ BoxOK'
  BY <1>1, <1>2, HostStays
<1>9. StepsOK'
  BY <1>1, <1>2, <1>4 DEF Inv, StepsOK, BackSteps, AtPrior, host
<1> QED
  BY <1>3, <1>7, <1>8, <1>9 DEF Inv

LEMMA SaveShiftedKeeps ==
    ASSUME Types, Inv, SaveItem("save-shifted", "rebuild", "shifted") PROVE Types' /\ Inv'
<1> USE DEF SaveItem, Goto, At, NoFault, Save
<1>1. j.phase = "switched" /\ cur \in j.inv /\ cur \in Trees /\ tree[cur].ids = "remap"
      /\ j.items[cur] = (IF cur \in Binds THEN "none" ELSE "moved")
  BY DEF Inv, StepsOK, Types
<1>2. /\ j' \in Journals /\ j'.items = [j.items EXCEPT ![cur] = "shifted"]
      /\ j'.phase = j.phase /\ j'.inv = j.inv /\ j'.rinv = j.rinv /\ j'.setid = j.setid
      /\ j'.rb = j.rb /\ j'.rbSetid = j.rbSetid
      /\ j'.timers = j.timers /\ j'.committing = j.committing
  <2>1. j \in Journals /\ "shifted" \in Items
    BY DEF Types, Items
  <2>2. j' = [j EXCEPT !.items[cur] = "shifted"]
    OBVIOUS
  <2> QED
    BY <1>1, <2>1, <2>2, ItemSaved
<1>3. Types'
  BY <1>2 DEF Types, host
<1>4. j.items \in [Trees -> Items]
  BY DEF Types, Journals
<1>5. SwitchedTree(cur)
  BY <1>1, SwitchedTrees DEF Inv
<1>6. SwitchedTree(cur)'
  <2>1. Carried(cur)'
    BY <1>1, <1>2, <1>4, <1>5 DEF SwitchedTree, Carried, Modes, Abroad, Same
  <2>2. Modes(cur)'
    BY <1>1, <1>2, <1>4, <1>5 DEF SwitchedTree, Modes, ListedYes, Unfinished, Same
  <2> QED
    BY <1>1, <1>2, <1>4, <1>5, <2>1, <2>2 DEF SwitchedTree
<1>7. TreesOK'
  BY <1>1, <1>2, <1>4, <1>6, OneSwitchedTree DEF Inv
<1>8. marker /\ MarkerOK' /\ DaemonOK' /\ BoxOK'
  BY <1>1, <1>2, HostStays
<1>9. StepsOK'
  BY <1>1, <1>2, <1>4, <1>8 DEF Inv, StepsOK, BackSteps, AtPrior, host, Carry
<1> QED
  BY <1>3, <1>7, <1>8, <1>9 DEF Inv

LEMMA RebuildKeeps == ASSUME Types, Inv, Rebuild PROVE Types' /\ Inv'
<1> USE DEF Goto, GotoOn, At, NoFault, Save
<1>1. /\ pc = "rebuild" /\ j.phase \in Carry /\ marker /\ j.inv \subseteq Trees /\ j \in Journals
      /\ UNCHANGED <<host, tree, box, faults, run, after>>
  BY DEF Rebuild, Inv, StepsOK, Types, Journals
<1>2. j.phase = "rebuilt" => \A t \in j.inv : j.items[t] = "shifted"
  BY DEF Inv, TreesOK, RebuiltOK
<1>3. ASSUME NEW v \in j.inv \ Binds, j.items[v] \in {"none", "created"},
             j' = [j EXCEPT !.items[v] = "created"], pc' = "move", cur' = v
      PROVE  Types' /\ Inv'
  <2>1. j.phase = "switched" /\ v \in Trees
    BY <1>1, <1>2, <1>3 DEF Carry
  <2>2. /\ j' \in Journals /\ j'.items = [j.items EXCEPT ![v] = "created"]
        /\ j'.phase = j.phase /\ j'.inv = j.inv /\ j'.rinv = j.rinv /\ j'.setid = j.setid
        /\ j'.rb = j.rb /\ j'.rbSetid = j.rbSetid
        /\ j'.timers = j.timers /\ j'.committing = j.committing
    BY <1>1, <1>3, <2>1, ItemSaved DEF Items
  <2>3. Types'
    BY <1>1, <1>3, <2>1, <2>2 DEF Types, host
  <2>4. j.items \in [Trees -> Items]
    BY <1>1 DEF Journals
  <2>5. SwitchedTree(v)
    BY <2>1, SwitchedTrees DEF Inv
  <2>6. SwitchedTree(v)'
    <3>1. Carried(v)'
      BY <1>1, <1>3, <2>1, <2>2, <2>4, <2>5 DEF SwitchedTree, Carried, Home, OnOld
    <3>2. Modes(v)'
      BY <1>1, <1>3, <2>1, <2>2, <2>4, <2>5 DEF SwitchedTree, Modes, ListedYes, Unfinished, Same
    <3> QED
      BY <1>1, <1>3, <2>1, <2>2, <2>4, <2>5, <3>1, <3>2 DEF SwitchedTree
  <2>7. TreesOK'
    BY <1>1, <2>1, <2>2, <2>4, <2>6, OneSwitchedTree DEF Inv
  <2>8. MarkerOK' /\ DaemonOK' /\ BoxOK'
    BY <1>1, <2>1, <2>2, HostStays
  <2>9. StepsOK'
    BY <1>1, <1>3, <2>1, <2>2, <2>4 DEF Inv, StepsOK, BackSteps, AtPrior, host
  <2> QED
    BY <2>3, <2>7, <2>8, <2>9 DEF Inv
<1>4. ASSUME NEW t \in j.inv, j.items[t] = "moved" \/ (t \in Binds /\ j.items[t] = "none"),
             UNCHANGED j, pc' = "list", cur' = t
      PROVE  Types' /\ Inv'
  <2>1. j.phase = "switched" /\ t \in Trees
    BY <1>1, <1>2, <1>4 DEF Carry
  <2>2. Types'
    BY <1>1, <1>4, <2>1 DEF Types, host
  <2>3. TreesOK'
    BY <1>1, <1>4, TreesStay DEF TreeView, Inv
  <2>4. MarkerOK' /\ DaemonOK' /\ BoxOK'
    BY <1>1, <1>4, <2>1, HostStays
  <2>5. j.items[t] = IF t \in Binds THEN "none" ELSE "moved"
    BY <1>4, <2>1 DEF Inv, TreesOK, CarriedOK, Carried, Carry
  <2>6. StepsOK'
    BY <1>1, <1>4, <2>1, <2>5 DEF Inv, StepsOK, BackSteps, AtPrior, host
  <2> QED
    BY <2>2, <2>3, <2>4, <2>6 DEF Inv
<1>5. ASSUME \A t \in j.inv : j.items[t] = "shifted",
             IF Reached("rebuilt") THEN UNCHANGED j ELSE Phase("rebuilt"), Goto("bring-up")
      PROVE  Types' /\ Inv'
  <2>1. CASE j.phase = "rebuilt"
    <3>1. UNCHANGED j
      BY <1>1, <1>5, <2>1, Asked, Directions DEF Journals, ForwardPhases
    <3>2. Types'
      BY <1>1, <1>5, <3>1 DEF Types, host
    <3>3. /\ TreesOK' /\ (AllAbroad' <=> AllAbroad)
          /\ \A t \in Trees : ListedYes(t)' <=> ListedYes(t)
      BY <1>1, <3>1, TreesStay DEF TreeView, Inv
    <3>4. MarkerOK' /\ DaemonOK' /\ BoxOK'
      BY <1>1, <3>1, <3>3 DEF Inv, MarkerOK, DaemonOK, BoxOK, ConfiguredDaemon, host
    <3>5. StepsOK'
      BY <1>1, <1>5, <2>1, <3>1 DEF Inv, StepsOK, BackSteps, AtPrior, host
    <3> QED
      BY <3>2, <3>3, <3>4, <3>5 DEF Inv
  <2>2. CASE j.phase = "switched"
    <3>1. Phase("rebuilt")
      BY <1>1, <1>5, <2>2, Asked, Directions DEF Journals, ForwardPhases
    <3>2. "rebuilt" \in Phases
      BY PhaseNames DEF ForwardPhases
    <3>3. /\ j' \in Journals /\ j'.phase = "rebuilt"
          /\ j'.inv = j.inv /\ j'.rinv = j.rinv /\ j'.items = j.items /\ j'.rb = j.rb
          /\ j'.setid = j.setid /\ j'.rbSetid = j.rbSetid
          /\ j'.timers = j.timers /\ j'.committing = j.committing
      BY <1>1, <3>1, <3>2, PhaseSaved
    <3>4. Types'
      BY <1>1, <1>5, <3>3 DEF Types, host
    <3>5. \A t \in Trees : SwitchedTree(t)
      BY <2>2, SwitchedTrees DEF Inv
    <3>6. \A t \in Trees : (Abroad(t) \/ Absent(t)) /\ ~ListedYes(t)
      <4>1. ASSUME NEW t \in Trees, t \in j.inv PROVE Abroad(t) /\ ~ListedYes(t)
        BY <1>5, <3>5, <4>1
           DEF SwitchedTree, Carried, Modes, Abroad, ListedYes, Unfinished, Same
      <4>2. ASSUME NEW t \in Trees, t \notin j.inv PROVE Absent(t) /\ ~ListedYes(t)
        BY <3>5, <4>2 DEF SwitchedTree, Carried, Absent, Home, ListedYes, Unfinished
      <4> QED
        BY <4>1, <4>2
    <3>7. /\ \A t \in Trees : /\ Carried(t)' /\ Modes(t)' /\ ~ListedYes(t)'
                              /\ j'.rb[t] = "none" /\ j'.rbSetid[t] = "unset"
          /\ AllAbroad'
      BY <1>1, <3>3, <3>5, <3>6, SameTrees DEF SwitchedTree, AllAbroad
    <3>8. TreesOK'
      <4> USE DEF Fresh, Prior, Carry, Opening, Moving
      <4>1. HomeOK' /\ AbroadOK' /\ PriorOK' /\ BackUnused' /\ CarriedOK' /\ SwitchedOK'
        BY <3>3, <3>7 DEF HomeOK, AbroadOK, PriorOK, BackUnused, CarriedOK, SwitchedOK
      <4>2. RebuiltOK' /\ ModesOK' /\ DoneOK' /\ ReturningOK' /\ ReturnedOK'
        BY <1>5, <3>3, <3>7 DEF RebuiltOK, ModesOK, DoneOK, ReturningOK, ReturnedOK
      <4> QED
        BY <4>1, <4>2 DEF TreesOK
    <3>9. MarkerOK' /\ DaemonOK' /\ BoxOK'
      BY <1>1, <2>2, <3>3, <3>7
         DEF Inv, MarkerOK, DaemonOK, BoxOK, ConfiguredDaemon, host, Ours, Carry, Opening,
             Fresh, Prior
    <3>10. StepsOK'
      BY <1>1, <1>5, <2>2, <3>3 DEF Inv, StepsOK, BackSteps, AtPrior, host, Carry
    <3> QED
      BY <3>4, <3>8, <3>9, <3>10 DEF Inv
  <2> QED
    BY <1>1, <2>1, <2>2 DEF Carry
<1> QED
  BY <1>1, <1>3, <1>4, <1>5 DEF Rebuild

-----------------------------------------------------------------------------
\* The steps before the switch.

\* An inventory is of the trees as they are.
LEMMA InventoryStays ==
    ASSUME UNCHANGED <<tree, j.inv>> PROVE Inventoried' <=> Inventoried
BY DEF Inventoried, OnOld

LEMMA InventoryBackStays ==
    ASSUME UNCHANGED <<tree, j.rinv, j.items>> PROVE InventoriedBack' <=> InventoriedBack
BY DEF InventoriedBack, OnNew

\* The invariant of the trees before anything is carried.
PriorTree(t) ==
    /\ Home(t) /\ j.items[t] = "none" /\ j.setid[t] = "unset"
    /\ j.rb[t] = "none" /\ j.rbSetid[t] = "unset"

LEMMA PriorTrees ==
    ASSUME j.phase \in Prior
    PROVE  TreesOK <=> \A t \in Trees : PriorTree(t)
<1> USE DEF Fresh, Prior, Carry, Opening, Moving
<1>1. /\ AbroadOK /\ CarriedOK /\ SwitchedOK /\ RebuiltOK /\ ModesOK /\ DoneOK
      /\ ReturningOK /\ ReturnedOK
  BY DEF AbroadOK, CarriedOK, SwitchedOK, RebuiltOK, ModesOK, DoneOK, ReturningOK, ReturnedOK
<1>2. HomeOK /\ PriorOK /\ BackUnused <=> \A t \in Trees : PriorTree(t)
  BY DEF HomeOK, AllHome, PriorOK, BackUnused, PriorTree
<1> QED
  BY <1>1, <1>2 DEF TreesOK

LEMMA PriorTreesStay ==
    ASSUME TreesOK, j.phase \in Prior, j'.phase \in Prior,
           UNCHANGED <<tree, j.items, j.rb, j.setid, j.rbSetid>>
    PROVE  TreesOK'
<1>1. \A t \in Trees : PriorTree(t)
  BY PriorTrees
<1>2. \A t \in Trees : PriorTree(t)'
  BY <1>1 DEF PriorTree, Home, Same
<1>3. (j.phase \in Prior => (TreesOK <=> \A t \in Trees : PriorTree(t)))'
  BY PriorTrees, PTL
<1> QED
  BY <1>2, <1>3 DEF Prior

\* What a migration before the rebuild has reached.
LEMMA PriorIsForward ==
    ASSUME j \in Journals, j.phase \in Prior \cup Carry
    PROVE  /\ IsForward /\ (Reached("switched") <=> j.phase \in Carry)
           /\ Reached("prepared") <=> j.phase # "started"
BY Asked, Directions DEF Journals, ForwardPhases, Prior, Carry

LEMMA FreshIsNot ==
    ASSUME j \in Journals, j.phase \in Fresh
    PROVE  ~IsForward
BY Directions DEF Journals, ForwardPhases, Fresh

\* No journal, and the journal of a new migration.
LEMMA BlankJournal == NoJournal \in Journals
<1> DEFINE none == [t \in Trees |-> "none"]
           unset == [t \in Trees |-> "unset"]
<1>1. NoJournal = [phase |-> "none", inv |-> {}, rinv |-> {}, items |-> none, rb |-> none,
                   setid |-> unset, rbSetid |-> unset, up |-> FALSE, rbUp |-> FALSE,
                   abortUp |-> FALSE, timers |-> TRUE, committing |-> FALSE]
  BY DEF NoJournal
<1>2. /\ none \in [Trees -> Items] /\ none \in [Trees -> RbItems]
      /\ unset \in [Trees -> Listed]
  BY DEF Items, RbItems, Listed
<1>3. "none" \in Phases
  BY PhaseNames
<1> HIDE DEF none, unset
<1> QED
  BY <1>1, <1>2, <1>3 DEF Journals

LEMMA NewJournal ==
    ASSUME NEW u, NEW i, i \subseteq Trees, NEW m \in BOOLEAN,
           u = [NoJournal EXCEPT !.phase = "started", !.inv = i, !.timers = m]
    PROVE  u \in Journals
<1>1. "started" \in Phases
  BY PhaseNames DEF ForwardPhases
<1> QED
  BY <1>1, BlankJournal DEF Journals

LEMMA InventoryKeeps == ASSUME Types, Inv, Inventory PROVE Types' /\ Inv'
<1> USE DEF Inventory, Goto, At, NoFault, Save
<1> DEFINE inv == {v \in AllVols : OnOld(v)} \cup Binds
<1>1. /\ j.phase \in Fresh \cup Prior /\ AtPrior /\ j \in Journals /\ inv \subseteq Trees
      /\ inv' = inv
  BY DEF Inv, StepsOK, Types, Trees, OnOld
<1>2. j' = Phase0(inv)
  OBVIOUS
<1> HIDE DEF inv
<1>3. /\ j' \in Journals /\ j'.phase \in Prior /\ j'.inv = inv /\ j'.timers
      /\ j'.committing = FALSE /\ TreesOK'
  <2>1. CASE j.phase \in Prior
    <3>1. j' = [j EXCEPT !.inv = inv]
      BY <1>1, <1>2, <2>1, PriorIsForward DEF Phase0
    <3>2. /\ j' \in Journals /\ j'.inv = inv /\ j'.phase = j.phase /\ j'.timers = j.timers
          /\ j'.items = j.items /\ j'.rb = j.rb /\ j'.setid = j.setid
          /\ j'.rbSetid = j.rbSetid /\ j'.committing = j.committing
      BY <1>1, <3>1 DEF Journals
    <3>3. TreesOK'
      BY <2>1, <3>2, PriorTreesStay DEF Inv
    <3> QED
      BY <1>1, <2>1, <3>2, <3>3 DEF Inv, MarkerOK, StepsOK, Prior, Journals
  <2>2. CASE j.phase \in Fresh
    <3>1. j' = [NoJournal EXCEPT !.phase = "started", !.inv = inv, !.timers = timers]
      BY <1>1, <1>2, <2>2, FreshIsNot DEF Phase0
    <3>2. timers
      BY <2>2 DEF Inv, MarkerOK
    <3>3. /\ j'.phase = "started" /\ j'.inv = inv /\ j'.timers = timers /\ j'.committing = FALSE
          /\ j'.items = [t \in Trees |-> "none"] /\ j'.rb = [t \in Trees |-> "none"]
          /\ j'.setid = [t \in Trees |-> "unset"] /\ j'.rbSetid = [t \in Trees |-> "unset"]
      BY <3>1 DEF NoJournal
    <3>4. j' \in Journals
      BY <1>1, <3>1, NewJournal DEF Types
    <3>5. \A t \in Trees : PriorTree(t)'
      BY <2>2, <3>3 DEF PriorTree, Inv, TreesOK, HomeOK, AllHome, Home, Same
    <3>6. (j.phase \in Prior => (TreesOK <=> \A t \in Trees : PriorTree(t)))'
      BY PriorTrees, PTL
    <3> QED
      BY <3>2, <3>3, <3>4, <3>5, <3>6 DEF Prior
  <2> QED
    BY <1>1, <2>1, <2>2
<1>4. Types'
  BY <1>3 DEF Types, host
<1>5. Inventoried'
  BY <1>1, <1>3 DEF Inventoried, inv
<1>6. MarkerOK' /\ DaemonOK' /\ BoxOK'
  <2> USE DEF Fresh, Prior, Carry, Opening, Ours
  <2>1. j.timers /\ box.new = "none"
    BY <1>1 DEF Inv, MarkerOK, BoxOK, Types, Boxes
  <2> QED
    BY <1>1, <1>3, <2>1
       DEF Inv, MarkerOK, DaemonOK, BoxOK, ConfiguredDaemon, host, AtPrior
<1>7. StepsOK'
  BY <1>1, <1>3, <1>5 DEF Inv, StepsOK, BackSteps, AtPrior, host, Prior
<1> QED
  BY <1>3, <1>4, <1>6, <1>7 DEF Inv

LEMMA PrepareKeeps == ASSUME Types, Inv, Prepare PROVE Types' /\ Inv'
<1> USE DEF Prepare, Goto, At, NoFault
<1>1. j.phase \in Prior /\ AtPrior /\ Inventoried /\ j \in Journals
  BY DEF Inv, StepsOK, Types
<1>2. /\ j' \in Journals /\ j'.phase \in {"prepared", "quiesced"}
      /\ j'.inv = j.inv /\ j'.rinv = j.rinv /\ j'.items = j.items /\ j'.rb = j.rb
      /\ j'.setid = j.setid /\ j'.rbSetid = j.rbSetid
      /\ j'.timers = j.timers /\ j'.committing = j.committing
      /\ j.phase = "quiesced" => j'.phase = "quiesced"
  <2>1. CASE j.phase = "started"
    <3>1. Phase("prepared") /\ "prepared" \in Phases
      BY <1>1, <2>1, PriorIsForward, PhaseNames DEF ForwardPhases
    <3> QED
      BY <1>1, <2>1, <3>1, PhaseSaved
  <2>2. CASE j.phase # "started"
    BY <1>1, <2>2, PriorIsForward DEF Prior
  <2> QED
    BY <2>1, <2>2
<1>3. Types'
  BY <1>2 DEF Types, host
<1>4. TreesOK'
  BY <1>1, <1>2, PriorTreesStay DEF Prior, Inv
<1>5. MarkerOK' /\ DaemonOK' /\ BoxOK'
  <2> USE DEF Fresh, Prior, Carry, Opening, Ours
  <2> QED
    BY <1>1, <1>2 DEF Inv, MarkerOK, DaemonOK, BoxOK, ConfiguredDaemon, host, AtPrior
<1>6. StepsOK'
  BY <1>1, <1>2, InventoryStays DEF Inv, StepsOK, BackSteps, AtPrior, host, Prior
<1> QED
  BY <1>3, <1>4, <1>5, <1>6 DEF Inv

LEMMA SetMarkerKeeps ==
    ASSUME Types, Inv, NEW step, NEW next, SetMarker(step, next),
           \/ step = "marker" /\ next = "timers"
           \/ step = "rb-marker" /\ next = "rb-stop-timers"
    PROVE  Types' /\ Inv'
<1> USE DEF SetMarker, Goto, At, NoFault
<1>1. Types'
  BY DEF Types
<1>2. TreesOK'
  BY TreesStay DEF TreeView, Inv
<1>3. j.phase \notin Fresh
  BY DEF Inv, StepsOK, Fresh, Carry, Opening
<1>4. MarkerOK' /\ DaemonOK' /\ BoxOK'
  BY <1>3, TreesStay DEF Inv, MarkerOK, DaemonOK, BoxOK, ConfiguredDaemon, TreeView
<1>5. StepsOK'
  BY InventoryStays, InventoryBackStays DEF Inv, StepsOK, BackSteps, AtPrior
<1> QED
  BY <1>1, <1>2, <1>4, <1>5 DEF Inv

LEMMA StopTimersKeeps ==
    ASSUME Types, Inv, NEW step, NEW next, StopTimers(step, next),
           \/ step = "timers" /\ next = "quiesce"
           \/ step = "rb-stop-timers" /\ next = "rb-quiesce"
    PROVE  Types' /\ Inv'
<1> USE DEF StopTimers, Goto, At, NoFault
<1>1. Types'
  BY DEF Types
<1>2. TreesOK'
  BY TreesStay DEF TreeView, Inv
<1>3. marker
  BY DEF Inv, StepsOK
<1>4. MarkerOK' /\ DaemonOK' /\ BoxOK'
  BY <1>3, TreesStay DEF Inv, MarkerOK, DaemonOK, BoxOK, ConfiguredDaemon, TreeView
<1>5. StepsOK'
  BY InventoryStays, InventoryBackStays DEF Inv, StepsOK, BackSteps, AtPrior
<1> QED
  BY <1>1, <1>2, <1>4, <1>5 DEF Inv

LEMMA QuiesceKeeps == ASSUME Types, Inv, Quiesce PROVE Types' /\ Inv'
<1> USE DEF Quiesce, Goto, At, NoFault
<1>1. /\ marker /\ j \in Journals
      /\ \/ j.phase \in {"prepared", "quiesced"} /\ AtPrior /\ Inventoried
         \/ j.phase \in Carry
  BY DEF Inv, StepsOK, Types
<1>2. CASE j.phase \in Carry
  <2>1. pc' = "rebuild" /\ UNCHANGED <<j, box>>
    BY <1>1, <1>2, PriorIsForward
  <2>2. Types'
    BY <2>1 DEF Types, host
  <2>3. TreesOK'
    BY <2>1, TreesStay DEF TreeView, Inv
  <2>4. MarkerOK' /\ DaemonOK' /\ BoxOK'
    BY <1>1, <2>1, TreesStay
       DEF Inv, MarkerOK, DaemonOK, BoxOK, ConfiguredDaemon, TreeView, host
  <2>5. StepsOK'
    BY <1>1, <1>2, <2>1 DEF Inv, StepsOK, BackSteps, AtPrior, host
  <2> QED
    BY <2>2, <2>3, <2>4, <2>5 DEF Inv
<1>3. CASE j.phase \in {"prepared", "quiesced"}
  <2> USE DEF Fresh, Prior, Carry, Opening, Ours
  <2>1. pc' = "switch-stop" /\ Phase("quiesced") /\ box' = [box EXCEPT !.old = Stopped(@)]
    BY <1>1, <1>3, PriorIsForward
  <2>2. /\ j' \in Journals /\ j'.phase = "quiesced"
        /\ j'.inv = j.inv /\ j'.rinv = j.rinv /\ j'.items = j.items /\ j'.rb = j.rb
        /\ j'.setid = j.setid /\ j'.rbSetid = j.rbSetid
        /\ j'.timers = j.timers /\ j'.committing = j.committing
    BY <1>1, <2>1, PhaseSaved, PhaseNames DEF ForwardPhases
  <2>3. box' \in [{"old", "new"} -> Boxes] /\ box'.old # "up" /\ box'.new = box.new
    BY <2>1 DEF Types, Boxes, Stopped
  <2>4. Types'
    BY <2>1, <2>2, <2>3 DEF Types, host
  <2>5. TreesOK'
    BY <1>3, <2>2, PriorTreesStay DEF Inv
  <2>6. MarkerOK' /\ DaemonOK' /\ BoxOK'
    BY <1>1, <1>3, <2>2, <2>3 DEF Inv, MarkerOK, DaemonOK, BoxOK, ConfiguredDaemon, host
  <2>7. StepsOK'
    BY <1>1, <1>3, <2>1, <2>2, <2>3, InventoryStays
       DEF Inv, StepsOK, BackSteps, AtPrior, host
  <2> QED
    BY <2>4, <2>5, <2>6, <2>7 DEF Inv
<1> QED
  BY <1>1, <1>2, <1>3

\* The daemon is switched: the trees are where the inventory saw them.
LEMMA SwitchedNow ==
    ASSUME TreesOK, j.phase = "quiesced", Inventoried, j'.phase = "switched",
           UNCHANGED <<tree, j.inv, j.rinv, j.items, j.rb, j.setid, j.rbSetid>>
    PROVE  TreesOK'
<1>1. ASSUME NEW t \in Trees PROVE SwitchedTree(t)'
  <2>1. PriorTree(t)
    BY <1>1, PriorTrees DEF Prior
  <2>2. Carried(t) /\ Modes(t)
    BY <2>1 DEF PriorTree, Carried, Modes, Home, ListedYes, Unfinished
  <2>3. t \notin Binds => (t \in j.inv <=> OnOld(t))
    BY <1>1 DEF Inventoried, Trees
  <2>4. t \notin j.inv => Absent(t)
    BY <1>1, <2>1, <2>3 DEF Inventoried, PriorTree, Absent, Home, OnOld
  <2> QED
    BY <2>1, <2>2, <2>3, <2>4, SameTree DEF SwitchedTree, PriorTree
<1>2. (j.phase = "switched" => (TreesOK <=> \A t \in Trees : SwitchedTree(t)))'
  BY SwitchedTrees, PTL
<1> QED
  BY <1>1, <1>2

LEMMA SwitchKeeps == ASSUME Types, Inv, Switch PROVE Types' /\ Inv'
<1> USE DEF Switch, Goto, At, NoFault, Fresh, Prior, Carry, Opening, Ours
<1>1. /\ j.phase = "quiesced" /\ marker /\ box.old # "up" /\ Inventoried /\ j \in Journals
      /\ box.new = "none"
  BY DEF Inv, StepsOK, Types, ToRemapped, BoxOK, Boxes
<1>2. CASE /\ At("switch-stop") /\ StopDaemon /\ Goto("switch-config") /\ UNCHANGED <<j, conf, rec>>
  <2>1. AtPrior
    BY <1>2 DEF Inv, StepsOK
  <2>2. /\ daemon' = "none" /\ box' \in [{"old", "new"} -> Boxes]
        /\ box'["old"] # "up" /\ box'["new"] = "none"
    BY <1>1, <1>2, StoppedDaemon
  <2>3. Types'
    BY <1>2, <2>2 DEF Types
  <2>4. TreesOK'
    BY <1>2, TreesStay DEF TreeView, Inv
  <2>5. MarkerOK' /\ DaemonOK' /\ BoxOK'
    BY <1>1, <1>2, <2>1, <2>2 DEF Inv, MarkerOK, DaemonOK, BoxOK, AtPrior
  <2>6. StepsOK'
    BY <1>1, <1>2, <2>1, <2>2, InventoryStays DEF Inv, StepsOK, BackSteps, AtPrior
  <2> QED
    BY <2>3, <2>4, <2>5, <2>6 DEF Inv
<1>3. CASE /\ At("switch-config") /\ conf' = "ours" /\ Goto("switch-record")
           /\ UNCHANGED <<j, rec, daemon, box>>
  <2>1. AtPrior /\ daemon = "none"
    BY <1>3 DEF Inv, StepsOK
  <2>3. Types'
    BY <1>3 DEF Types
  <2>4. TreesOK'
    BY <1>3, TreesStay DEF TreeView, Inv
  <2>5. MarkerOK' /\ DaemonOK' /\ BoxOK'
    BY <1>1, <1>3, <2>1 DEF Inv, MarkerOK, DaemonOK, BoxOK, AtPrior
  <2>6. StepsOK'
    BY <1>1, <1>3, <2>1, InventoryStays DEF Inv, StepsOK, BackSteps, AtPrior
  <2> QED
    BY <2>3, <2>4, <2>5, <2>6 DEF Inv
<1>4. CASE /\ At("switch-record") /\ rec' = TRUE /\ Goto("switch-start")
           /\ UNCHANGED <<j, conf, daemon, box>>
  <2>1. conf = "ours" /\ daemon = "none"
    BY <1>4 DEF Inv, StepsOK
  <2>3. Types'
    BY <1>4 DEF Types
  <2>4. TreesOK'
    BY <1>4, TreesStay DEF TreeView, Inv
  <2>5. MarkerOK' /\ DaemonOK' /\ BoxOK'
    BY <1>1, <1>4, <2>1 DEF Inv, MarkerOK, DaemonOK, BoxOK
  <2>6. StepsOK'
    BY <1>1, <1>4, <2>1, InventoryStays DEF Inv, StepsOK, BackSteps, AtPrior
  <2> QED
    BY <2>3, <2>4, <2>5, <2>6 DEF Inv
<1>5. CASE /\ At("switch-start") /\ StartDaemon /\ Phase("switched") /\ Goto("rebuild")
           /\ UNCHANGED <<conf, rec>>
  <2>1. conf = "ours" /\ rec
    BY <1>5 DEF Inv, StepsOK
  <2>2. /\ daemon' = "new" /\ box' \in [{"old", "new"} -> Boxes]
        /\ box'["old"] # "up" /\ box'["new"] = "none"
    BY <1>1, <1>5, <2>1, Started DEF ConfiguredDaemon
  <2>3. /\ j' \in Journals /\ j'.phase = "switched"
        /\ j'.inv = j.inv /\ j'.rinv = j.rinv /\ j'.items = j.items /\ j'.rb = j.rb
        /\ j'.setid = j.setid /\ j'.rbSetid = j.rbSetid
        /\ j'.timers = j.timers /\ j'.committing = j.committing
    BY <1>1, <1>5, PhaseSaved, PhaseNames DEF ForwardPhases
  <2>4. Types'
    BY <1>5, <2>2, <2>3 DEF Types
  <2>5. TreesOK'
    BY <1>1, <1>5, <2>3, SwitchedNow DEF Inv
  <2>6. MarkerOK' /\ DaemonOK' /\ BoxOK'
    BY <1>1, <1>5, <2>1, <2>2, <2>3
       DEF Inv, MarkerOK, DaemonOK, BoxOK, ConfiguredDaemon
  <2>7. StepsOK'
    BY <1>1, <1>5, <2>1, <2>2, <2>3 DEF Inv, StepsOK, BackSteps, AtPrior
  <2> QED
    BY <2>4, <2>5, <2>6, <2>7 DEF Inv
<1> QED
  BY <1>2, <1>3, <1>4, <1>5 DEF ToRemapped

\* Faults are counted.
LEMMA Faulted ==
    ASSUME Types, Fault PROVE faults' \in 0 .. MaxFaults
BY FaultsAssumption DEF Types, Fault

LEMMA SwitchFailsKeeps == ASSUME Types, Inv, SwitchFails PROVE Types' /\ Inv'
<1> USE DEF SwitchFails, Call, At
<1>1. Types'
  BY Faulted DEF Types, host
<1>2. j.phase = "quiesced" /\ daemon = "none"
  BY DEF Inv, StepsOK
<1>3. TreesOK'
  BY TreesStay DEF TreeView, Inv
<1>4. MarkerOK' /\ DaemonOK' /\ BoxOK'
  BY TreesStay DEF Inv, MarkerOK, DaemonOK, BoxOK, ConfiguredDaemon, TreeView, host
<1>5. StepsOK'
  BY <1>2 DEF Inv, StepsOK, BackSteps, AtPrior, host
<1> QED
  BY <1>1, <1>3, <1>4, <1>5 DEF Inv

-----------------------------------------------------------------------------
\* The ends of a run: the box up, the timers, the marker, the last phase.

\* bring_up, whether it was done, does it, or fails: only its own box changes.
LEMMA BroughtUp ==
    ASSUME Types, Inv, NEW step, NEW next, NEW root \in {"old", "new"}, NEW done, NEW saved,
           BringUp(step, next, root, done, saved), next # "idle", step # "idle",
           saved \in Journals,
           saved.phase = j.phase, saved.inv = j.inv, saved.rinv = j.rinv, saved.items = j.items,
           saved.rb = j.rb, saved.setid = j.setid, saved.rbSetid = j.rbSetid,
           saved.timers = j.timers, saved.committing = j.committing,
           \/ root = "new" /\ j.phase = "rebuilt"
           \/ root = "old" /\ j.phase \in Prior \cup {"rb-rebuilt"}
    PROVE  /\ Types' /\ TreesOK' /\ MarkerOK' /\ DaemonOK' /\ BoxOK'
           /\ j'.phase = j.phase /\ j'.inv = j.inv /\ j'.rinv = j.rinv /\ j'.items = j.items
           /\ j'.rb = j.rb /\ j'.timers = j.timers /\ j'.committing = j.committing
           /\ pc' = next /\ UNCHANGED <<run, after, cur, tree, host>>
<1> USE DEF Goto, At, NoFault
<1>1. /\ pc' = next /\ pc = step /\ UNCHANGED <<run, after, cur, tree, host>>
      /\ faults' \in 0 .. MaxFaults
  BY Faulted DEF BringUp, Types
<1>2. /\ j' \in Journals /\ j'.phase = j.phase /\ j'.inv = j.inv /\ j'.rinv = j.rinv
      /\ j'.items = j.items /\ j'.rb = j.rb /\ j'.setid = j.setid /\ j'.rbSetid = j.rbSetid
      /\ j'.timers = j.timers /\ j'.committing = j.committing
  BY DEF BringUp, Save, Types
<1>3. /\ box' \in [{"old", "new"} -> Boxes]
      /\ \A r \in {"old", "new"} : r # root => box'[r] = box[r]
  BY DEF BringUp, Types, Boxes
<1>4. Types'
  BY <1>1, <1>2, <1>3 DEF Types, host
<1>5. /\ TreesOK' /\ (AllAbroad' <=> AllAbroad) /\ \A t \in Trees : ListedYes(t)' <=> ListedYes(t)
  BY <1>1, <1>2, TreesStay DEF TreeView, Inv
<1>6. MarkerOK' /\ DaemonOK'
  BY <1>1, <1>2, <1>5 DEF Inv, MarkerOK, DaemonOK, ConfiguredDaemon, host
<1>7. BoxOK'
  <2> USE DEF Prior, Carry, Opening, Ours
  <2>1. CASE root = "new"
    BY <1>2, <1>3, <1>5, <2>1 DEF Inv, BoxOK, TreesOK, AbroadOK
  <2>2. CASE root = "old"
    BY <1>2, <1>3, <1>5, <2>2 DEF Inv, BoxOK
  <2> QED
    BY <2>1, <2>2
<1> QED
  BY <1>1, <1>2, <1>4, <1>5, <1>6, <1>7

LEMMA BringUpKeeps ==
    ASSUME Types, Inv,
           \/ BringUp("undo-up", "undo-timers", "old", AlreadyUp, j)
           \/ BringUp("bring-up", "on-timers", "new", AlreadyUp, [j EXCEPT !.up = TRUE])
           \/ BringUp("abort-up", "abort-timers", "old", AlreadyUp, [j EXCEPT !.abortUp = TRUE])
           \/ BringUp("rb-up", "rb-rmtree", "old", AlreadyUp, [j EXCEPT !.rbUp = TRUE])
    PROVE  Types' /\ Inv'
<1> USE DEF Prior
<1>1. CASE BringUp("undo-up", "undo-timers", "old", AlreadyUp, j)
  <2>1. j.phase = "quiesced" /\ AtPrior /\ pc = "undo-up"
    BY <1>1 DEF BringUp, At, Inv, StepsOK
  <2>2. /\ Types' /\ TreesOK' /\ MarkerOK' /\ DaemonOK' /\ BoxOK'
        /\ j'.phase = j.phase /\ j'.inv = j.inv /\ j'.committing = j.committing
        /\ pc' = "undo-timers" /\ UNCHANGED <<run, after, cur, tree, host>>
    BY <1>1, <2>1, BroughtUp DEF Types
  <2>3. StepsOK'
    BY <2>1, <2>2 DEF Inv, StepsOK, BackSteps, AtPrior, host
  <2> QED
    BY <2>2, <2>3 DEF Inv
<1>2. CASE BringUp("bring-up", "on-timers", "new", AlreadyUp, [j EXCEPT !.up = TRUE])
  <2>1. j.phase = "rebuilt" /\ pc = "bring-up"
    BY <1>2 DEF BringUp, At, Inv, StepsOK
  <2> DEFINE saved == [j EXCEPT !.up = TRUE]
  <2>2. /\ saved \in Journals
        /\ saved.phase = j.phase /\ saved.inv = j.inv /\ saved.rinv = j.rinv
        /\ saved.items = j.items /\ saved.rb = j.rb /\ saved.setid = j.setid
        /\ saved.rbSetid = j.rbSetid /\ saved.timers = j.timers
        /\ saved.committing = j.committing
    BY DEF Types, Journals
  <2> HIDE DEF saved
  <2>3. BringUp("bring-up", "on-timers", "new", AlreadyUp, saved)
    BY <1>2 DEF saved
  <2>4. /\ Types' /\ TreesOK' /\ MarkerOK' /\ DaemonOK' /\ BoxOK'
        /\ j'.phase = j.phase /\ j'.inv = j.inv /\ j'.committing = j.committing
        /\ pc' = "on-timers" /\ UNCHANGED <<run, after, cur, tree, host>>
    BY <2>1, <2>2, <2>3, BroughtUp
  <2>5. StepsOK'
    BY <2>1, <2>4 DEF Inv, StepsOK, BackSteps, AtPrior, host
  <2> QED
    BY <2>4, <2>5 DEF Inv
<1>3. CASE BringUp("abort-up", "abort-timers", "old", AlreadyUp, [j EXCEPT !.abortUp = TRUE])
  <2>1. j.phase \in Prior /\ AtPrior /\ pc = "abort-up"
    BY <1>3 DEF BringUp, At, Inv, StepsOK
  <2> DEFINE saved == [j EXCEPT !.abortUp = TRUE]
  <2>2. /\ saved \in Journals
        /\ saved.phase = j.phase /\ saved.inv = j.inv /\ saved.rinv = j.rinv
        /\ saved.items = j.items /\ saved.rb = j.rb /\ saved.setid = j.setid
        /\ saved.rbSetid = j.rbSetid /\ saved.timers = j.timers
        /\ saved.committing = j.committing
    BY DEF Types, Journals
  <2> HIDE DEF saved
  <2>3. BringUp("abort-up", "abort-timers", "old", AlreadyUp, saved)
    BY <1>3 DEF saved
  <2>4. /\ Types' /\ TreesOK' /\ MarkerOK' /\ DaemonOK' /\ BoxOK'
        /\ j'.phase = j.phase /\ j'.inv = j.inv /\ j'.committing = j.committing
        /\ pc' = "abort-timers" /\ UNCHANGED <<run, after, cur, tree, host>>
    BY <2>1, <2>2, <2>3, BroughtUp
  <2>5. StepsOK'
    BY <2>1, <2>4 DEF Inv, StepsOK, BackSteps, AtPrior, host
  <2> QED
    BY <2>4, <2>5 DEF Inv
<1>4. CASE BringUp("rb-up", "rb-rmtree", "old", AlreadyUp, [j EXCEPT !.rbUp = TRUE])
  <2>1. j.phase = "rb-rebuilt" /\ pc = "rb-up"
    BY <1>4 DEF BringUp, At, Inv, StepsOK
  <2> DEFINE saved == [j EXCEPT !.rbUp = TRUE]
  <2>2. /\ saved \in Journals
        /\ saved.phase = j.phase /\ saved.inv = j.inv /\ saved.rinv = j.rinv
        /\ saved.items = j.items /\ saved.rb = j.rb /\ saved.setid = j.setid
        /\ saved.rbSetid = j.rbSetid /\ saved.timers = j.timers
        /\ saved.committing = j.committing
    BY DEF Types, Journals
  <2> HIDE DEF saved
  <2>3. BringUp("rb-up", "rb-rmtree", "old", AlreadyUp, saved)
    BY <1>4 DEF saved
  <2>4. /\ Types' /\ TreesOK' /\ MarkerOK' /\ DaemonOK' /\ BoxOK'
        /\ j'.phase = j.phase /\ j'.inv = j.inv /\ j'.committing = j.committing
        /\ pc' = "rb-rmtree" /\ UNCHANGED <<run, after, cur, tree, host>>
    BY <2>1, <2>2, <2>3, BroughtUp
  <2>5. StepsOK'
    BY <2>1, <2>4 DEF Inv, StepsOK, BackSteps, AtPrior, host
  <2> QED
    BY <2>4, <2>5 DEF Inv
<1> QED
  BY <1>1, <1>2, <1>3, <1>4

LEMMA RestoreTimersKeeps ==
    ASSUME Types, Inv, NEW step, NEW next, RestoreTimers(step, next),
           \/ step = "undo-timers" /\ next = "undo-marker"
           \/ step = "on-timers" /\ next = "on-marker"
           \/ step = "abort-timers" /\ next = "abort-marker"
           \/ step = "rb-timers" /\ next = "rb-clear"
    PROVE  Types' /\ Inv'
<1> USE DEF RestoreTimers, Goto, At, NoFault
<1>1. timers' = TRUE
  BY DEF Inv, MarkerOK
<1>2. Types'
  BY <1>1 DEF Types
<1>3. TreesOK'
  BY TreesStay DEF TreeView, Inv
<1>4. MarkerOK' /\ DaemonOK' /\ BoxOK'
  BY <1>1, TreesStay DEF Inv, MarkerOK, DaemonOK, BoxOK, ConfiguredDaemon, TreeView
<1>5. StepsOK'
  BY <1>1 DEF Inv, StepsOK, BackSteps, AtPrior
<1> QED
  BY <1>2, <1>3, <1>4, <1>5 DEF Inv

LEMMA ClearMarkerKeeps ==
    ASSUME Types, Inv, NEW step, NEW next, ClearMarker(step, next),
           \/ step = "undo-marker" /\ next = "undo-save"
           \/ step = "on-marker" /\ next = "apply"
           \/ step = "abort-marker" /\ next = "abort-save"
           \/ step = "rb-clear" /\ next = "rb-done"
    PROVE  Types' /\ Inv'
<1> USE DEF ClearMarker, Goto, At, NoFault
<1>1. /\ timers
      /\ \/ j.phase \in Prior /\ AtPrior
         \/ j.phase \in {"rebuilt", "rb-rebuilt"}
  BY DEF Inv, StepsOK, Prior
<1>2. Types'
  BY DEF Types
<1>3. TreesOK'
  BY TreesStay DEF TreeView, Inv
<1>4. /\ j.phase = "rebuilt" => AllAbroad
      /\ j.phase = "rb-rebuilt" => AtPrior
      /\ j.timers /\ j.phase \notin Opening
  BY <1>1 DEF Inv, TreesOK, AbroadOK, DaemonOK, AtPrior, MarkerOK, Opening, Prior
<1>5. MarkerOK' /\ DaemonOK' /\ BoxOK'
  <2>1. DaemonOK' /\ BoxOK'
    BY TreesStay DEF Inv, DaemonOK, BoxOK, ConfiguredDaemon, TreeView
  <2>2. MarkerOK'
    BY <1>1, <1>4, TreesStay DEF Inv, MarkerOK, TreeView, AtPrior
  <2> QED
    BY <2>1, <2>2
<1>6. StepsOK'
  BY <1>1 DEF Inv, StepsOK, BackSteps, AtPrior
<1> QED
  BY <1>2, <1>3, <1>5, <1>6 DEF Inv

LEMMA FinishKeeps ==
    ASSUME Types, Inv, NEW step, NEW phase, Finish(step, phase),
           \/ step = "undo-save" /\ phase = "started"
           \/ step = "apply" /\ phase = "applied"
           \/ step = "abort-save" /\ phase = "rolled-back"
           \/ step = "rb-done" /\ phase = "rolled-back"
    PROVE  Types' /\ Inv'
<1> USE DEF Finish, End, At, NoFault
<1>1. phase \in Phases /\ j \in Journals
  BY PhaseNames DEF ForwardPhases, RollbackPhases, Types
<1>2. /\ j' \in Journals /\ j'.phase = phase
      /\ j'.inv = j.inv /\ j'.rinv = j.rinv /\ j'.items = j.items /\ j'.rb = j.rb
      /\ j'.setid = j.setid /\ j'.rbSetid = j.rbSetid
      /\ j'.timers = j.timers /\ j'.committing = j.committing
  BY <1>1, PhaseSaved
<1>3. Types'
  BY <1>2 DEF Types, host
<1>4. /\ step = "undo-save" => j.phase = "quiesced" /\ AtPrior
      /\ step = "apply" => j.phase = "rebuilt" /\ timers
      /\ step = "abort-save" => j.phase \in Prior /\ AtPrior /\ ~marker /\ timers
      /\ step = "rb-done" => j.phase = "rb-rebuilt" /\ ~marker /\ timers
      /\ ~j.committing
  BY DEF Inv, StepsOK, Prior
<1>5. /\ \A t \in Trees : /\ (Carried(t)' <=> Carried(t)) /\ (ListedYes(t)' <=> ListedYes(t))
                          /\ j'.rb[t] = j.rb[t] /\ j'.rbSetid[t] = j.rbSetid[t]
      /\ (AllAbroad' <=> AllAbroad) /\ (AllHome' <=> AllHome)
  BY <1>2, SameTrees
<1>6. TreesOK'
  <2> USE DEF Fresh, Prior, Carry, Opening, Moving
  <2>1. CASE step = "undo-save"
    BY <1>2, <1>4, <2>1, PriorTreesStay DEF Inv
  <2>2. CASE step = "apply"
    <3>1. /\ AllAbroad /\ \A t \in Trees : ~ListedYes(t) /\ Carried(t)
          /\ \A t \in Trees : j.rb[t] = "none" /\ j.rbSetid[t] = "unset"
      BY <1>4, <2>2 DEF Inv, TreesOK, AbroadOK, DoneOK, CarriedOK, BackUnused
    <3>2. HomeOK' /\ AbroadOK' /\ PriorOK' /\ BackUnused' /\ CarriedOK' /\ SwitchedOK'
      BY <1>2, <1>5, <2>2, <3>1
         DEF HomeOK, AbroadOK, PriorOK, BackUnused, CarriedOK, SwitchedOK
    <3>3. RebuiltOK' /\ ModesOK' /\ DoneOK' /\ ReturningOK' /\ ReturnedOK'
      BY <1>2, <1>5, <2>2, <3>1 DEF RebuiltOK, ModesOK, DoneOK, ReturningOK, ReturnedOK
    <3> QED
      BY <3>2, <3>3 DEF TreesOK
  <2>3. CASE phase = "rolled-back"
    <3>1. AllHome
      BY <1>4, <2>3 DEF Inv, TreesOK, HomeOK
    <3>2. HomeOK' /\ AbroadOK' /\ PriorOK' /\ BackUnused' /\ CarriedOK' /\ SwitchedOK'
      BY <1>2, <1>5, <2>3, <3>1
         DEF HomeOK, AbroadOK, PriorOK, BackUnused, CarriedOK, SwitchedOK
    <3>3. RebuiltOK' /\ ModesOK' /\ DoneOK' /\ ReturningOK' /\ ReturnedOK'
      BY <1>2, <2>3 DEF RebuiltOK, ModesOK, DoneOK, ReturningOK, ReturnedOK
    <3> QED
      BY <3>2, <3>3 DEF TreesOK
  <2> QED
    BY <2>1, <2>2, <2>3
<1>7. MarkerOK' /\ DaemonOK' /\ BoxOK'
  <2> USE DEF Fresh, Prior, Carry, Opening, Ours
  <2>1. /\ step = "apply" => AllAbroad
        /\ step # "apply" => AtPrior
    BY <1>4 DEF Inv, TreesOK, AbroadOK, DaemonOK, AtPrior
  <2>2. MarkerOK'
    BY <1>2, <1>4, <1>5, <2>1 DEF Inv, MarkerOK, AtPrior, host
  <2>3. DaemonOK'
    BY <1>2, <1>4, <2>1 DEF Inv, DaemonOK, AtPrior, ConfiguredDaemon, host
  <2>4. BoxOK'
    BY <1>2, <1>4, <1>5, <2>1 DEF Inv, BoxOK, host
  <2> QED
    BY <2>2, <2>3, <2>4
<1>8. StepsOK'
  BY <1>2, <1>4 DEF Inv, StepsOK, BackSteps
<1> QED
  BY <1>3, <1>6, <1>7, <1>8 DEF Inv

-----------------------------------------------------------------------------
\* The way back, as far as the quiesce.

\* The invariant of the trees while a rollback is only opened.
OpeningTree(t) ==
    j.rb[t] = "none" /\ j.rbSetid[t] = "unset" /\ Carried(t) /\ Modes(t)

LEMMA OpeningTrees ==
    ASSUME j.phase \in Opening
    PROVE  TreesOK <=> \A t \in Trees : OpeningTree(t)
<1> USE DEF Fresh, Prior, Carry, Opening, Moving
<1>1. /\ HomeOK /\ AbroadOK /\ PriorOK /\ SwitchedOK /\ RebuiltOK /\ DoneOK
      /\ ReturningOK /\ ReturnedOK
  BY DEF HomeOK, AbroadOK, PriorOK, SwitchedOK, RebuiltOK, DoneOK, ReturningOK, ReturnedOK
<1>2. BackUnused /\ CarriedOK /\ ModesOK <=> \A t \in Trees : OpeningTree(t)
  BY DEF BackUnused, CarriedOK, ModesOK, OpeningTree
<1> QED
  BY <1>1, <1>2 DEF TreesOK

LEMMA OpeningTreesStay ==
    ASSUME \A t \in Trees : OpeningTree(t), j'.phase \in Opening,
           UNCHANGED <<tree, j.items, j.rb, j.setid, j.rbSetid>>
    PROVE  TreesOK'
<1>1. ASSUME NEW t \in Trees PROVE OpeningTree(t)'
  <2>1. OpeningTree(t)
    BY <1>1
  <2>2. /\ (Home(t)' <=> Home(t)) /\ (Abroad(t)' <=> Abroad(t)) /\ (Same(t)' <=> Same(t))
        /\ (ListedYes(t)' <=> ListedYes(t))
    BY DEF Home, Abroad, Same, ListedYes, Unfinished
  <2>3. Carried(t)' /\ Modes(t)'
    BY <2>1, <2>2 DEF OpeningTree, Carried, Modes
  <2> QED
    BY <2>1, <2>3 DEF OpeningTree
<1>2. (j.phase \in Opening => (TreesOK <=> \A t \in Trees : OpeningTree(t)))'
  BY OpeningTrees, PTL
<1> QED
  BY <1>1, <1>2 DEF Opening

\* A migration that switched the daemon is ready to be rolled back.
LEMMA CanOpen ==
    ASSUME Types, Inv, j.phase \in Carry \cup Opening \cup {"applied"}, ~j.committing
    PROVE  /\ \A t \in Trees : OpeningTree(t)
           /\ ~marker => AllAbroad /\ \A t \in Trees : ~ListedYes(t)
<1> USE DEF Fresh, Prior, Carry, Opening, Moving
<1>1. \A t \in Trees : Modes(t)
  <2>1. CASE j.phase = "applied"
    BY <2>1 DEF Inv, TreesOK, AbroadOK, AllAbroad, DoneOK, Modes, Abroad, Absent, Home
  <2>2. CASE j.phase # "applied"
    BY <2>2 DEF Inv, TreesOK, ModesOK
  <2> QED
    BY <2>1, <2>2
<1>2. \A t \in Trees : OpeningTree(t)
  BY <1>1 DEF Inv, TreesOK, BackUnused, CarriedOK, OpeningTree
<1>3. ~marker => AllAbroad /\ \A t \in Trees : ~ListedYes(t)
  BY DEF Inv, MarkerOK, TreesOK, DoneOK
<1> QED
  BY <1>2, <1>3

\* The three ways a rollback starts, by the phase it finds.
LEMMA RollbackAsked ==
    ASSUME j \in Journals, j.phase \notin {"none", "committed", "rolled-back"}
    PROVE  /\ IsForward /\ ~Reached("switched") => j.phase \in Prior
           /\ ~IsForward /\ Reached("rb-quiesced") =>
                j.phase \in {"rb-quiesced", "rb-restored", "rb-switched", "rb-rebuilt"}
           /\ ~(IsForward /\ ~Reached("switched")) /\ ~(~IsForward /\ Reached("rb-quiesced")) =>
                /\ j.phase \in Carry \cup Opening \cup {"applied"}
                /\ IsForward <=> j.phase \notin Opening
<1>1. /\ j.phase \in Phases
      /\ j.phase \in ForwardPhases \cup RollbackPhases
      /\ IsForward <=> j.phase \in ForwardPhases
  BY PhaseNames, Directions DEF Journals
<1> QED
  BY <1>1, Asked DEF ForwardPhases, RollbackPhases, Prior, Carry, Opening

LEMMA RollbackStartKeeps == ASSUME Types, Inv, RollbackStart PROVE Types' /\ Inv'
<1> USE DEF NoFault, Save
<1>1. /\ run = "none" /\ run' = "rollback" /\ UNCHANGED <<faults, cur, tree>>
      /\ j.phase \notin {"none", "committed", "rolled-back"} /\ ~j.committing
      /\ j \in Journals /\ cur \in Trees
  BY DEF RollbackStart, Types
<1>2. CASE IsForward /\ ~Reached("switched")
  <2>1. pc' = "prior" /\ after' = "abort-up" /\ UNCHANGED <<j, host, box>>
    BY <1>1, <1>2 DEF RollbackStart
  <2>2. Types'
    BY <1>1, <2>1 DEF Types, host
  <2>3. TreesOK'
    BY <1>1, <2>1, TreesStay DEF TreeView, Inv
  <2>4. MarkerOK' /\ DaemonOK' /\ BoxOK'
    BY <1>1, <2>1, TreesStay
       DEF Inv, MarkerOK, DaemonOK, BoxOK, ConfiguredDaemon, TreeView, host
  <2>5. StepsOK'
    BY <1>1, <1>2, <2>1, RollbackAsked DEF Inv, StepsOK, BackSteps, AtPrior, host
  <2> QED
    BY <2>2, <2>3, <2>4, <2>5 DEF Inv
<1>3. CASE ~IsForward /\ Reached("rb-quiesced")
  <2>1. pc' = "rb-restore" /\ after' = "none" /\ UNCHANGED <<j, host, box>>
    BY <1>1, <1>3 DEF RollbackStart
  <2>2. Types'
    BY <1>1, <2>1 DEF Types, host
  <2>3. TreesOK'
    BY <1>1, <2>1, TreesStay DEF TreeView, Inv
  <2>4. MarkerOK' /\ DaemonOK' /\ BoxOK'
    BY <1>1, <2>1, TreesStay
       DEF Inv, MarkerOK, DaemonOK, BoxOK, ConfiguredDaemon, TreeView, host
  <2>5. StepsOK'
    BY <1>1, <1>3, <2>1, RollbackAsked DEF Inv, StepsOK, BackSteps, AtPrior, host
  <2> QED
    BY <2>2, <2>3, <2>4, <2>5 DEF Inv
<1>4. CASE ~(IsForward /\ ~Reached("switched")) /\ ~(~IsForward /\ Reached("rb-quiesced"))
  <2> DEFINE rinv == {v \in AllVols : OnNew(v)}
             p == IF IsForward THEN "rb-started" ELSE j.phase
  <2>1. /\ conf = "ours" /\ rec
        /\ IF daemon = "none" THEN StartDaemon ELSE UNCHANGED <<daemon, box>>
        /\ j' = [j EXCEPT !.phase = p, !.rinv = rinv]
        /\ pc' = "rb-save" /\ after' = "none" /\ UNCHANGED <<conf, rec, marker, timers>>
    BY <1>1, <1>4 DEF RollbackStart
  <2>2. j.phase \in Carry \cup Opening \cup {"applied"} /\ p \in Opening
    BY <1>1, <1>4, RollbackAsked DEF Opening
  <2>3. rinv \in SUBSET AllVols /\ p \in Phases
    BY <2>2, PhaseNames DEF RollbackPhases, Opening
  <2>4. rinv = {v \in AllVols : OnNew(v)}
    OBVIOUS
  <2> HIDE DEF rinv, p
  <2>5. /\ j' \in Journals /\ j'.phase = p /\ j'.rinv = rinv
        /\ j'.inv = j.inv /\ j'.items = j.items /\ j'.rb = j.rb
        /\ j'.setid = j.setid /\ j'.rbSetid = j.rbSetid
        /\ j'.timers = j.timers /\ j'.committing = j.committing
    BY <1>1, <2>1, <2>3 DEF Journals
  <2>6. /\ \A t \in Trees : OpeningTree(t)
        /\ ~marker => AllAbroad /\ \A t \in Trees : ~ListedYes(t)
    BY <1>1, <2>2, CanOpen
  <2>7. TreesOK'
    BY <1>1, <2>2, <2>5, <2>6, OpeningTreesStay
  <2>8. /\ daemon' = "new" /\ box' \in [{"old", "new"} -> Boxes]
        /\ box'["old"] = box["old"] /\ (box["new"] = "none" => box'["new"] = "none")
    <3>1. CASE daemon = "none"
      BY <2>1, <3>1, Started DEF ConfiguredDaemon
    <3>2. CASE daemon # "none"
      BY <2>1, <3>2 DEF Inv, DaemonOK, ConfiguredDaemon, Types
    <3> QED
      BY <3>1, <3>2
  <2>9. Types'
    BY <1>1, <2>1, <2>5, <2>8 DEF Types
  <2>10. InventoriedBack'
    BY <1>1, <2>4, <2>5 DEF InventoriedBack, OnNew
  <2>11. /\ AllAbroad' <=> AllAbroad
         /\ \A t \in Trees : ListedYes(t)' <=> ListedYes(t)
    BY <1>1, <2>5 DEF AllAbroad, Abroad, Absent, Home, Same, ListedYes, Unfinished
  <2>12. MarkerOK' /\ DaemonOK' /\ BoxOK'
    <3> USE DEF Fresh, Prior, Carry, Opening, Ours
    <3>1. MarkerOK'
      BY <2>1, <2>2, <2>5, <2>6, <2>11 DEF Inv, MarkerOK
    <3>2. DaemonOK'
      BY <2>1, <2>2, <2>5, <2>8 DEF DaemonOK, ConfiguredDaemon
    <3>3. BoxOK'
      BY <2>1, <2>2, <2>5, <2>8, <2>11 DEF Inv, BoxOK
    <3> QED
      BY <3>1, <3>2, <3>3
  <2>13. StepsOK'
    BY <1>1, <2>1, <2>2, <2>5, <2>10 DEF StepsOK, BackSteps
  <2> QED
    BY <2>7, <2>9, <2>12, <2>13 DEF Inv
<1> QED
  BY <1>2, <1>3, <1>4

LEMMA RbSavedKeeps == ASSUME Types, Inv, RbSaved PROVE Types' /\ Inv'
<1> USE DEF RbSaved, Goto, At, NoFault
<1>1. j.phase \in Opening /\ InventoriedBack /\ j \in Journals
  BY DEF Inv, StepsOK, Types
<1>2. /\ j' \in Journals /\ j'.phase = "rb-saved"
      /\ j'.inv = j.inv /\ j'.rinv = j.rinv /\ j'.items = j.items /\ j'.rb = j.rb
      /\ j'.setid = j.setid /\ j'.rbSetid = j.rbSetid
      /\ j'.timers = j.timers /\ j'.committing = j.committing
  BY <1>1, PhaseSaved, PhaseNames DEF RollbackPhases
<1>3. Types'
  BY <1>2 DEF Types, host
<1>4. TreesOK'
  BY <1>1, <1>2, OpeningTrees, OpeningTreesStay DEF Opening, Inv
<1>5. /\ AllAbroad' <=> AllAbroad
      /\ \A t \in Trees : ListedYes(t)' <=> ListedYes(t)
  BY <1>2, SameTrees
<1>6. MarkerOK' /\ DaemonOK' /\ BoxOK'
  <2> USE DEF Fresh, Prior, Carry, Opening, Ours
  <2>1. MarkerOK'
    BY <1>1, <1>2, <1>5 DEF Inv, MarkerOK, host
  <2>2. DaemonOK' /\ BoxOK'
    BY <1>1, <1>2, <1>5 DEF Inv, DaemonOK, BoxOK, ConfiguredDaemon, host
  <2> QED
    BY <2>1, <2>2
<1>7. StepsOK'
  BY <1>1, <1>2, InventoryBackStays DEF Inv, StepsOK, BackSteps, Opening, host
<1> QED
  BY <1>3, <1>4, <1>6, <1>7 DEF Inv

\* The invariant of the trees while they are carried back.
ReturningTree(t) ==
    /\ Modes(t) /\ Returned(t)
    /\ j.rb[t] \in {"none", "old", "stayed", "moved", "restored", "soak"}
    /\ t \notin Binds /\ j.rb[t] = "none" => /\ Carried(t) /\ j.rbSetid[t] = "unset"
                                             /\ (t \in j.rinv <=> OnNew(t))

LEMMA ReturningTrees ==
    ASSUME j.phase = "rb-quiesced"
    PROVE  TreesOK <=> \A t \in Trees : ReturningTree(t)
<1> USE DEF Fresh, Prior, Carry, Opening, Moving
<1>1. /\ HomeOK /\ AbroadOK /\ PriorOK /\ BackUnused /\ CarriedOK /\ SwitchedOK /\ RebuiltOK
      /\ DoneOK /\ ReturnedOK
  BY DEF HomeOK, AbroadOK, PriorOK, BackUnused, CarriedOK, SwitchedOK, RebuiltOK, DoneOK,
         ReturnedOK
<1>2. ReturningOK /\ ModesOK <=> \A t \in Trees : ReturningTree(t)
  BY DEF ReturningOK, ModesOK, ReturningTree
<1> QED
  BY <1>1, <1>2 DEF TreesOK

\* And once the old daemon is back.
BackItems(phase) ==
    IF phase = "rb-restored" THEN {"soak", "stayed", "restored"}
    ELSE {"soak", "soak-created", "soak-moved", "soak-restored", "stayed", "restored"}

ReturnedTree(t) ==
    /\ Modes(t) /\ Returned(t)
    /\ t \in Binds => j.rb[t] = "restored"
    /\ t \in j.rinv => j.rb[t] \in BackItems(j.phase)

LEMMA ReturnedTrees ==
    ASSUME j.phase \in {"rb-restored", "rb-switched"}, j.rinv \subseteq Trees
    PROVE  TreesOK <=> \A t \in Trees : ReturnedTree(t)
<1> USE DEF Fresh, Prior, Carry, Opening, Moving
<1>1. /\ HomeOK /\ AbroadOK /\ PriorOK /\ BackUnused /\ CarriedOK /\ SwitchedOK /\ RebuiltOK
      /\ DoneOK /\ ReturningOK
  BY DEF HomeOK, AbroadOK, PriorOK, BackUnused, CarriedOK, SwitchedOK, RebuiltOK, DoneOK,
         ReturningOK
<1>2. ReturnedOK /\ ModesOK <=> \A t \in Trees : ReturnedTree(t)
  <2>1. CASE j.phase = "rb-restored"
    BY <2>1 DEF ReturnedOK, ModesOK, ReturnedTree, BackItems
  <2>2. CASE j.phase = "rb-switched"
    BY <2>2 DEF ReturnedOK, ModesOK, ReturnedTree, BackItems
  <2> QED
    BY <2>1, <2>2
<1> QED
  BY <1>1, <1>2 DEF TreesOK

\* What a step does to one tree on its way back keeps the others.
LEMMA OneTreeBack ==
    ASSUME Types, TreesOK, j.phase \in {"rb-quiesced", "rb-switched"}, j'.phase = j.phase,
           NEW c \in Trees,
           \A t \in Trees \ {c} :
             /\ tree'[t] = tree[t] /\ j'.items[t] = j.items[t] /\ j'.rb[t] = j.rb[t]
             /\ j'.setid[t] = j.setid[t] /\ j'.rbSetid[t] = j.rbSetid[t],
           j'.rinv = j.rinv,
           IF j.phase = "rb-quiesced" THEN ReturningTree(c)' ELSE ReturnedTree(c)'
    PROVE  TreesOK'
<1>1. j.rinv \subseteq Trees
  BY DEF Types, Journals, Trees
<1>2. CASE j.phase = "rb-quiesced"
  <2>1. \A t \in Trees : ReturningTree(t)
    BY <1>2, ReturningTrees
  <2>2. ASSUME NEW t \in Trees, t # c PROVE ReturningTree(t)'
    BY <2>1, <2>2, SameTree DEF ReturningTree
  <2>3. \A t \in Trees : ReturningTree(t)'
    BY <1>2, <2>2
  <2>4. (j.phase = "rb-quiesced" => (TreesOK <=> \A t \in Trees : ReturningTree(t)))'
    BY ReturningTrees, PTL
  <2> QED
    BY <1>2, <2>3, <2>4
<1>3. CASE j.phase = "rb-switched"
  <2>1. \A t \in Trees : ReturnedTree(t)
    BY <1>1, <1>3, ReturnedTrees
  <2>2. ASSUME NEW t \in Trees, t # c PROVE ReturnedTree(t)'
    BY <1>3, <2>1, <2>2, SameTree DEF ReturnedTree
  <2>3. \A t \in Trees : ReturnedTree(t)'
    BY <1>3, <2>2
  <2>4. (j.phase \in {"rb-restored", "rb-switched"} /\ j.rinv \subseteq Trees =>
           (TreesOK <=> \A t \in Trees : ReturnedTree(t)))'
    BY ReturnedTrees, PTL
  <2> QED
    BY <1>1, <1>3, <2>3, <2>4
<1> QED
  BY <1>2, <1>3

\* The quiesce is journalled: every tree is as the way there left it.
LEMMA QuiescedNow ==
    ASSUME Types, TreesOK, j.phase \in Opening, InventoriedBack, j'.phase = "rb-quiesced",
           UNCHANGED <<tree, j.inv, j.rinv, j.items, j.rb, j.setid, j.rbSetid>>
    PROVE  TreesOK'
<1>1. ASSUME NEW t \in Trees PROVE ReturningTree(t)'
  <2>1. OpeningTree(t)
    BY <1>1, OpeningTrees
  <2>2. t \notin Binds => (t \in j.rinv <=> OnNew(t))
    BY <1>1 DEF InventoriedBack, Trees
  <2>3. Returned(t)
    BY <1>1, <2>1, <2>2 DEF OpeningTree, Returned, Carried, Abroad, OnNew
  <2> QED
    BY <2>1, <2>2, <2>3, SameTree DEF ReturningTree, OpeningTree
<1>2. (j.phase = "rb-quiesced" => (TreesOK <=> \A t \in Trees : ReturningTree(t)))'
  BY ReturningTrees, PTL
<1> QED
  BY <1>1, <1>2

LEMMA RbQuiesceKeeps == ASSUME Types, Inv, RbQuiesce PROVE Types' /\ Inv'
<1> USE DEF RbQuiesce, Goto, At, NoFault, Fresh, Prior, Carry, Opening, Ours
<1>1. j.phase \in Opening /\ InventoriedBack /\ marker /\ j \in Journals
  BY DEF Inv, StepsOK, Types
<1>2. CASE \/ At("rb-quiesce") /\ box' = [box EXCEPT !.new = Stopped(@)]
              /\ Goto("rb-remove") /\ UNCHANGED <<j, daemon>>
           \/ At("rb-remove") /\ box' = [box EXCEPT !.new = "none"]
              /\ Goto("rb-stop") /\ UNCHANGED <<j, daemon>>
           \/ At("rb-stop") /\ StopDaemon /\ Goto("rb-quiesced") /\ UNCHANGED j
  <2>1. /\ box' \in [{"old", "new"} -> Boxes] /\ daemon' \in {"none", daemon}
        /\ (box["new"] = "none" => box'["new"] = "none")
        /\ (box["old"] # "up" => box'["old"] # "up")
        /\ pc = "rb-remove" => box'["new"] = "none"
        /\ pc' \in {"rb-remove", "rb-stop", "rb-quiesced"} /\ UNCHANGED <<run, after, j>>
    <3>1. CASE At("rb-stop") /\ StopDaemon
      BY <1>2, <3>1, StoppedDaemon
    <3>2. CASE ~At("rb-stop")
      BY <1>2, <3>2 DEF Types, Boxes, Stopped
    <3> QED
      BY <1>2, <3>1, <3>2
  <2>2. Types'
    BY <1>2, <2>1 DEF Types
  <2>3. TreesOK' /\ (AllAbroad' <=> AllAbroad) /\ \A t \in Trees : ListedYes(t)' <=> ListedYes(t)
    BY <2>1, TreesStay DEF TreeView, Inv
  <2>4. MarkerOK' /\ DaemonOK' /\ BoxOK'
    <3>1. MarkerOK' /\ DaemonOK'
      BY <1>1, <2>1, <2>3 DEF Inv, MarkerOK, DaemonOK, ConfiguredDaemon
    <3>2. BoxOK'
      BY <1>1, <2>1, <2>3 DEF Inv, BoxOK
    <3> QED
      BY <3>1, <3>2
  <2>5. pc' \in {"rb-stop", "rb-quiesced"} => box'["new"] = "none"
    BY <1>2, <2>1 DEF Inv, StepsOK
  <2>6. StepsOK'
    BY <1>1, <1>2, <2>1, <2>5, InventoryBackStays DEF Inv, StepsOK, BackSteps
  <2> QED
    BY <2>2, <2>3, <2>4, <2>6 DEF Inv
<1>3. CASE At("rb-quiesced") /\ Phase("rb-quiesced") /\ Goto("rb-restore")
           /\ UNCHANGED <<daemon, box>>
  <2>1. /\ j' \in Journals /\ j'.phase = "rb-quiesced"
        /\ j'.inv = j.inv /\ j'.rinv = j.rinv /\ j'.items = j.items /\ j'.rb = j.rb
        /\ j'.setid = j.setid /\ j'.rbSetid = j.rbSetid
        /\ j'.timers = j.timers /\ j'.committing = j.committing
    BY <1>1, <1>3, PhaseSaved, PhaseNames DEF RollbackPhases
  <2>2. Types'
    BY <1>3, <2>1 DEF Types
  <2>3. TreesOK'
    BY <1>1, <2>1, QuiescedNow DEF Inv
  <2>4. box.new = "none"
    BY <1>3 DEF Inv, StepsOK
  <2>5. MarkerOK' /\ DaemonOK' /\ BoxOK'
    BY <1>1, <1>3, <2>1, <2>4 DEF Inv, MarkerOK, DaemonOK, BoxOK, ConfiguredDaemon
  <2>6. StepsOK'
    BY <1>1, <1>3, <2>1 DEF Inv, StepsOK, BackSteps
  <2> QED
    BY <2>2, <2>3, <2>5, <2>6 DEF Inv
<1> QED
  BY <1>2, <1>3

LEMMA RbResumeKeeps == ASSUME Types, Inv, RbResume PROVE Types' /\ Inv'
<1> USE DEF Goto, Call, At, NoFault, Fresh, Prior, Carry, Opening, Ours
<1>1. /\ pc = "rb-restore" /\ UNCHANGED <<run, cur, faults, j, conf, rec, marker, timers, tree>>
      /\ j.phase \in {"rb-quiesced", "rb-restored", "rb-switched", "rb-rebuilt"}
  BY DEF RbResume, Inv, StepsOK
<1>2. /\ Reached("rb-switched") <=> j.phase \in {"rb-switched", "rb-rebuilt"}
      /\ Reached("rb-restored") <=> j.phase # "rb-quiesced"
  BY <1>1, Asked DEF RollbackPhases, Types, Journals
<1>3. \/ /\ j.phase \in {"rb-switched", "rb-rebuilt"} /\ pc' = "rb-soak" /\ after' = after
         /\ IF daemon = "none" THEN StartDaemon ELSE UNCHANGED <<daemon, box>>
      \/ /\ j.phase = "rb-restored" /\ pc' = "back-stop" /\ after' = "rb-switched"
         /\ UNCHANGED <<daemon, box>>
      \/ /\ j.phase = "rb-quiesced" /\ pc' = "rb-trees" /\ after' = after /\ StopDaemon
  BY <1>1, <1>2 DEF RbResume
<1>4. /\ daemon' \in {"none", ConfiguredDaemon} /\ box' \in [{"old", "new"} -> Boxes]
      /\ (box["new"] = "none" => box'["new"] = "none")
      /\ j.phase = "rb-quiesced" => box'["old"] # "up"
  <2>1. CASE StopDaemon
    BY <2>1, StoppedDaemon
  <2>2. CASE StartDaemon /\ j.phase # "rb-quiesced"
    BY <2>2, Started DEF ConfiguredDaemon
  <2>3. CASE UNCHANGED <<daemon, box>> /\ j.phase # "rb-quiesced"
    BY <2>3 DEF Inv, DaemonOK, Types
  <2> QED
    BY <1>3, <2>1, <2>2, <2>3
<1>5. Types'
  BY <1>1, <1>3, <1>4 DEF Types, ConfiguredDaemon
<1>6. TreesOK'
  BY <1>1, TreesStay DEF TreeView, Inv
<1>7. MarkerOK' /\ DaemonOK' /\ BoxOK'
  <2>1. MarkerOK'
    BY <1>1, TreesStay DEF Inv, MarkerOK, TreeView
  <2>2. DaemonOK' /\ BoxOK'
    BY <1>1, <1>4 DEF Inv, DaemonOK, BoxOK, ConfiguredDaemon
  <2> QED
    BY <2>1, <2>2
<1>8. StepsOK'
  BY <1>1, <1>3 DEF Inv, StepsOK, BackSteps
<1> QED
  BY <1>5, <1>6, <1>7, <1>8 DEF Inv

-----------------------------------------------------------------------------
\* The way back: _restore_data, _soak_volumes and the steps of one tree.

LEMMA RestoreDataKeeps == ASSUME Types, Inv, RestoreData PROVE Types' /\ Inv'
<1> USE DEF Goto, GotoOn, Call, At, NoFault, Save
<1>1. /\ pc = "rb-trees" /\ j.phase = "rb-quiesced" /\ j \in Journals
      /\ j.rinv \subseteq Trees /\ j.rinv \cap Binds = {}
      /\ UNCHANGED <<host, tree, box, faults, run>>
  BY TreesAssumption DEF RestoreData, Inv, StepsOK, Types, Journals, Trees, AllVols
<1>2. \A t \in Trees : ReturningTree(t)
  BY <1>1, ReturningTrees DEF Inv
<1>3. ASSUME NEW v \in j.rinv, j.rb[v] = "none", j' = [j EXCEPT !.rb[v] = Where(v)],
             pc' = "rb-trees", UNCHANGED <<after, cur>>
      PROVE  Types' /\ Inv'
  <2>1. v \in Trees /\ v \notin Binds /\ Where(v) \in RbItems
    BY <1>1, <1>3 DEF Where, RbItems
  <2>2. /\ j' \in Journals /\ j'.rb = [j.rb EXCEPT ![v] = Where(v)]
        /\ j'.phase = j.phase /\ j'.inv = j.inv /\ j'.rinv = j.rinv /\ j'.items = j.items
        /\ j'.setid = j.setid /\ j'.rbSetid = j.rbSetid
        /\ j'.timers = j.timers /\ j'.committing = j.committing
    BY <1>1, <1>3, <2>1, RbItemSaved
  <2>3. Types'
    BY <1>1, <1>3, <2>2 DEF Types, host
  <2>4. ReturningTree(v) /\ Carried(v) /\ OnNew(v) /\ j.rb \in [Trees -> RbItems]
        /\ j.items[v] \in Items /\ tree[v] \in TreeStates
    BY <1>1, <1>2, <1>3, <2>1 DEF ReturningTree, Journals, Types
  <2>5. /\ Where(v) = "soak" => Abroad(v) /\ ~tree[v].oldDir
        /\ Where(v) = "stayed" => Home(v)
        /\ Where(v) = "old" => tree[v].root \in {"old", "new"} /\ tree[v].oldDir
        /\ Where(v) \in {"soak", "stayed", "old"}
    <3>1. CASE j.items[v] = "none"
      BY <2>1, <2>4, <3>1 DEF Carried, OnNew, Where, OnOld, Home, Abroad
    <3>2. CASE j.items[v] \in {"created", "moved", "shifted"}
      BY <2>1, <2>4, <3>2 DEF Carried, Where, OnOld, Home, Abroad, ReturningTree, Modes
    <3> QED
      BY <2>4, <3>1, <3>2 DEF Items
  <2>6. ReturningTree(v)'
    <3>1. Returned(v)'
      <4>1. /\ Home(v)' <=> Home(v)
            /\ Abroad(v)' <=> Abroad(v)
        BY <1>1 DEF Home, Abroad, Same
      <4>2. v \in j'.rinv /\ j'.rb[v] = Where(v)
        BY <1>3, <2>1, <2>2, <2>4
      <4> QED
        BY <1>1, <2>1, <2>5, <4>1, <4>2 DEF Returned
    <3>2. Modes(v)'
      BY <1>1, <2>2, <2>4 DEF ReturningTree, Modes, ListedYes, Unfinished, Same
    <3> QED
      BY <2>1, <2>2, <2>4, <2>5, <3>1, <3>2 DEF ReturningTree
  <2>7. TreesOK'
    BY <1>1, <2>1, <2>2, <2>4, <2>6, OneTreeBack DEF Inv
  <2>8. MarkerOK' /\ DaemonOK' /\ BoxOK'
    BY <1>1, <2>2, HostStays
  <2>9. StepsOK'
    BY <1>1, <1>3, <2>2 DEF Inv, StepsOK, BackSteps, host
  <2> QED
    BY <2>3, <2>7, <2>8, <2>9 DEF Inv
<1>4. ASSUME NEW t \in Trees, UNCHANGED <<j, after>>, cur' = t,
             \/ t \in j.rinv /\ j.rb[t] = "old" /\ pc' = "rb-move"
             \/ t \in j.rinv /\ j.rb[t] = "moved" /\ pc' = "rb-list"
             \/ t \in Binds /\ j.rb[t] = "none" /\ pc' = "rb-list"
      PROVE  Types' /\ Inv'
  <2>1. Types'
    BY <1>1, <1>4 DEF Types, host
  <2>2. TreesOK'
    BY <1>1, <1>4, TreesStay DEF TreeView, Inv
  <2>3. MarkerOK' /\ DaemonOK' /\ BoxOK'
    BY <1>1, <1>4, HostStays
  <2>4. t \in j.rinv => t \notin Binds
    BY <1>1
  <2>5. StepsOK'
    BY <1>1, <1>4, <2>4 DEF Inv, StepsOK, BackSteps, host
  <2> QED
    BY <2>1, <2>2, <2>3, <2>5 DEF Inv
<1>5. ASSUME \A v \in j.rinv : j.rb[v] \in {"soak", "stayed", "restored"},
             \A b \in Binds : j.rb[b] = "restored",
             Phase("rb-restored"), pc' = "back-stop", after' = "rb-switched", UNCHANGED cur
      PROVE  Types' /\ Inv'
  <2>1. /\ j' \in Journals /\ j'.phase = "rb-restored"
        /\ j'.inv = j.inv /\ j'.rinv = j.rinv /\ j'.items = j.items /\ j'.rb = j.rb
        /\ j'.setid = j.setid /\ j'.rbSetid = j.rbSetid
        /\ j'.timers = j.timers /\ j'.committing = j.committing
    BY <1>1, <1>5, PhaseSaved, PhaseNames DEF RollbackPhases
  <2>2. Types'
    BY <1>1, <1>5, <2>1 DEF Types, host
  <2>3. \A t \in Trees : ReturnedTree(t)'
    <3>1. ASSUME NEW t \in Trees PROVE ReturnedTree(t)'
      <4>1. Modes(t)' /\ Returned(t)'
        BY <1>1, <1>2, <2>1, SameTree DEF ReturningTree
      <4> QED
        BY <1>5, <2>1, <4>1 DEF ReturnedTree, BackItems
    <3> QED
      BY <3>1
  <2>4. (j.phase \in {"rb-restored", "rb-switched"} /\ j.rinv \subseteq Trees =>
           (TreesOK <=> \A t \in Trees : ReturnedTree(t)))'
    BY ReturnedTrees, PTL
  <2>5. TreesOK'
    BY <1>1, <2>1, <2>3, <2>4
  <2>6. marker /\ box.new = "none"
    BY <1>1 DEF Inv, MarkerOK, BoxOK, Fresh, Prior, Carry, Opening, Types, Boxes
  <2>7. MarkerOK' /\ DaemonOK' /\ BoxOK'
    BY <1>1, <2>1, <2>6
       DEF Inv, MarkerOK, DaemonOK, BoxOK, ConfiguredDaemon, host, Fresh, Prior, Carry,
           Opening, Ours
  <2>8. StepsOK'
    BY <1>1, <1>5, <2>1 DEF Inv, StepsOK, BackSteps, host
  <2> QED
    BY <2>2, <2>5, <2>7, <2>8 DEF Inv
<1> QED
  BY <1>1, <1>3, <1>4, <1>5 DEF RestoreData, Trees

\* The phases of the way back, one tree at a time.
OneBack(t) == IF j.phase = "rb-quiesced" THEN ReturningTree(t) ELSE ReturnedTree(t)

\* And what that says of one of them.
LEMMA TreesBack ==
    ASSUME Types, TreesOK, j.phase \in {"rb-quiesced", "rb-switched"}, NEW t \in Trees
    PROVE  /\ OneBack(t) /\ Modes(t) /\ Returned(t)
           /\ j.rb[t] # "none" /\ t \notin Binds => t \in j.rinv
<1>1. j.rinv \subseteq Trees
  BY DEF Types, Journals, Trees
<1>2. OneBack(t) /\ Modes(t) /\ Returned(t)
  BY <1>1, ReturningTrees, ReturnedTrees DEF OneBack, ReturningTree, ReturnedTree
<1> QED
  BY <1>2 DEF Returned

LEMMA RbListSetidKeeps == ASSUME Types, Inv, RbListSetid PROVE Types' /\ Inv'
<1> USE DEF RbListSetid, Goto, At, NoFault, Save
<1>1. /\ j.phase \in {"rb-quiesced", "rb-switched"} /\ cur \in Trees
      /\ \/ j.phase = "rb-quiesced" /\ j.rb[cur] = IF cur \in Binds THEN "none" ELSE "moved"
         \/ j.phase = "rb-switched" /\ cur \notin Binds /\ j.rb[cur] = "soak-moved"
  BY DEF Inv, StepsOK, Types
<1> DEFINE x == SetidList(cur, j.rbSetid[cur], Unfinished(cur))
<1>2. /\ x \in {"yes", "no"}
      /\ x = "yes" <=> tree[cur].suid \/ ListedYes(cur)
  BY DEF SetidList, ListedYes
<1>3. j' = [j EXCEPT !.rbSetid[cur] = x]
  OBVIOUS
<1> HIDE DEF x
<1>4. /\ j' \in Journals /\ j'.rbSetid = [j.rbSetid EXCEPT ![cur] = x]
      /\ j'.phase = j.phase /\ j'.inv = j.inv /\ j'.rinv = j.rinv /\ j'.items = j.items
      /\ j'.rb = j.rb /\ j'.setid = j.setid
      /\ j'.timers = j.timers /\ j'.committing = j.committing
  <2>1. j \in Journals /\ x \in Listed
    BY <1>2 DEF Types, Listed
  <2> QED
    BY <1>1, <1>3, <2>1, RbSetidSaved
<1>5. Types'
  BY <1>4 DEF Types, host
<1>6. j.rbSetid \in [Trees -> Listed] /\ tree[cur] \in TreeStates
  BY <1>1 DEF Types, Journals
<1>7. OneBack(cur) /\ Modes(cur) /\ Returned(cur)
  BY <1>1, TreesBack DEF Inv
<1>8. j'.rbSetid[cur] = x /\ (x = "yes" <=> tree[cur].want)
  BY <1>1, <1>2, <1>4, <1>6, <1>7 DEF Modes, Same, TreeStates
<1>9. IF j.phase = "rb-quiesced" THEN ReturningTree(cur)' ELSE ReturnedTree(cur)'
  <2>1. Modes(cur)'
    BY <1>1, <1>4, <1>7, <1>8 DEF Modes, ListedYes, Unfinished, Same
  <2>2. Returned(cur)'
    BY <1>1, <1>4, <1>7 DEF Returned, Home, Abroad, Same
  <2> QED
    BY <1>1, <1>4, <1>7, <2>1, <2>2 DEF OneBack, ReturningTree, ReturnedTree
<1>10. TreesOK'
  BY <1>1, <1>4, <1>6, <1>9, OneTreeBack DEF Inv
<1>11. MarkerOK' /\ DaemonOK' /\ BoxOK'
  BY <1>1, <1>4, HostStays
<1>12. StepsOK'
  BY <1>1, <1>4, <1>8 DEF Inv, StepsOK, BackSteps, AtPrior, host
<1> QED
  BY <1>5, <1>10, <1>11, <1>12 DEF Inv

LEMMA ChownBackKeeps ==
    ASSUME Types, Inv, Chown("rb-chown", "rb-chmod", "host") PROVE Types' /\ Inv'
<1> USE DEF Goto, At, NoFault
<1>1. /\ pc = "rb-chown" /\ pc' = "rb-chmod"
      /\ UNCHANGED <<run, after, cur, faults, j, host, box>>
  BY DEF Chown
<1>2. /\ tree' \in [Trees -> TreeStates] /\ \A t \in Trees \ {cur} : tree'[t] = tree[t]
      /\ tree'[cur].root = tree[cur].root /\ tree'[cur].oldDir = tree[cur].oldDir
      /\ tree'[cur].want = tree[cur].want
      /\ tree[cur].ids = "host" => tree'[cur].ids = "host" /\ tree'[cur].suid = tree[cur].suid
      /\ tree[cur].ids # "host" => tree'[cur].ids = "part" /\ ~tree'[cur].suid
  BY Chowned
<1>3. Types'
  BY <1>1, <1>2 DEF Types, host
<1>4. /\ j.phase \in {"rb-quiesced", "rb-switched"} /\ cur \in Trees
      /\ \/ j.phase = "rb-quiesced" /\ j.rb[cur] = IF cur \in Binds THEN "none" ELSE "moved"
         \/ j.phase = "rb-switched" /\ cur \notin Binds /\ j.rb[cur] = "soak-moved"
      /\ (j.rbSetid[cur] = "yes" <=> tree[cur].want)
  BY <1>1 DEF Inv, StepsOK, Types
<1>5. /\ OneBack(cur) /\ Modes(cur) /\ Returned(cur)
      /\ j.rb[cur] # "none" /\ cur \notin Binds => cur \in j.rinv
  BY <1>4, TreesBack DEF Inv
<1>6. IF j.phase = "rb-quiesced" THEN ReturningTree(cur)' ELSE ReturnedTree(cur)'
  <2>1. Modes(cur)'
    BY <1>1, <1>2, <1>4, <1>5 DEF Modes, ListedYes, Unfinished, Same
  <2>2. Returned(cur)'
    BY <1>1, <1>2, <1>4, <1>5 DEF Returned
  <2> QED
    BY <1>1, <1>4, <1>5, <2>1, <2>2 DEF OneBack, ReturningTree, ReturnedTree
<1>7. TreesOK'
  BY <1>1, <1>2, <1>4, <1>6, OneTreeBack DEF Inv
<1>8. MarkerOK' /\ DaemonOK' /\ BoxOK'
  BY <1>1, <1>4, HostStays
<1>9. StepsOK'
  BY <1>1, <1>2, <1>4 DEF Inv, StepsOK, BackSteps, AtPrior, host
<1> QED
  BY <1>3, <1>7, <1>8, <1>9 DEF Inv

LEMMA ChmodBackKeeps ==
    ASSUME Types, Inv, Chmod("rb-chmod", "rb-save-restored", "host", j.rbSetid[cur])
    PROVE  Types' /\ Inv'
<1> USE DEF Goto, At, NoFault
<1>1. /\ pc = "rb-chmod" /\ pc' = "rb-save-restored"
      /\ UNCHANGED <<run, after, cur, faults, j, host, box>>
  BY DEF Chmod
<1>2. /\ tree' \in [Trees -> TreeStates] /\ \A t \in Trees \ {cur} : tree'[t] = tree[t]
      /\ tree'[cur].root = tree[cur].root /\ tree'[cur].oldDir = tree[cur].oldDir
      /\ tree'[cur].want = tree[cur].want /\ tree'[cur].ids = "host"
      /\ tree'[cur].suid <=> tree[cur].suid \/ j.rbSetid[cur] = "yes"
  BY Chmodded
<1>3. Types'
  BY <1>1, <1>2 DEF Types, host
<1>4. /\ j.phase \in {"rb-quiesced", "rb-switched"} /\ cur \in Trees
      /\ \/ j.phase = "rb-quiesced" /\ j.rb[cur] = IF cur \in Binds THEN "none" ELSE "moved"
         \/ j.phase = "rb-switched" /\ cur \notin Binds /\ j.rb[cur] = "soak-moved"
      /\ (j.rbSetid[cur] = "yes" <=> tree[cur].want) /\ tree[cur].ids # "remap"
  BY <1>1 DEF Inv, StepsOK, Types
<1>5. /\ OneBack(cur) /\ Modes(cur) /\ Returned(cur)
      /\ j.rb[cur] # "none" /\ cur \notin Binds => cur \in j.rinv
      /\ tree[cur] \in TreeStates /\ tree'[cur] \in TreeStates
  BY <1>2, <1>4, TreesBack DEF Inv, Types
<1>6. Same(cur)'
  <2>1. tree'[cur].suid \in BOOLEAN /\ tree[cur].suid \in BOOLEAN /\ tree[cur].want \in BOOLEAN
        /\ tree[cur].ids \in {"part", "host"}
    BY <1>4, <1>5 DEF TreeStates
  <2>2. CASE tree[cur].ids = "part"
    BY <1>1, <1>2, <1>4, <1>5, <2>1, <2>2 DEF Modes, Same
  <2>3. CASE tree[cur].ids = "host"
    BY <1>1, <1>2, <1>4, <1>5, <2>1, <2>3 DEF Modes, Same
  <2> QED
    BY <2>1, <2>2, <2>3
<1>7. IF j.phase = "rb-quiesced" THEN ReturningTree(cur)' ELSE ReturnedTree(cur)'
  <2>1. Modes(cur)'
    BY <1>1, <1>2, <1>4, <1>5, <1>6 DEF Modes, ListedYes, Unfinished
  <2>2. Returned(cur)'
    BY <1>1, <1>2, <1>4, <1>5 DEF Returned
  <2> QED
    BY <1>1, <1>4, <1>5, <2>1, <2>2 DEF OneBack, ReturningTree, ReturnedTree
<1>8. TreesOK'
  BY <1>1, <1>2, <1>4, <1>7, OneTreeBack DEF Inv
<1>9. MarkerOK' /\ DaemonOK' /\ BoxOK'
  BY <1>1, <1>4, HostStays
<1>10. StepsOK'
  BY <1>1, <1>2, <1>4 DEF Inv, StepsOK, BackSteps, AtPrior, host
<1> QED
  BY <1>3, <1>8, <1>9, <1>10 DEF Inv

LEMMA MoveBackKeeps ==
    ASSUME Types, Inv, NEW step, NEW next, Move(step, next, "old"),
           \/ step = "rb-move" /\ next = "rb-save-moved"
           \/ step = "soak-move" /\ next = "soak-save-moved"
    PROVE  Types' /\ Inv'
<1> USE DEF Goto, At, NoFault
<1>1. /\ pc = step /\ pc' = next /\ UNCHANGED <<run, after, cur, faults, j, host, box>>
  BY DEF Move
<1>2. /\ tree' \in [Trees -> TreeStates] /\ \A t \in Trees \ {cur} : tree'[t] = tree[t]
      /\ tree'[cur].root = "old" /\ tree'[cur].oldDir = tree[cur].oldDir
      /\ tree'[cur].want = tree[cur].want /\ tree'[cur].ids = tree[cur].ids
      /\ tree'[cur].suid = tree[cur].suid
  BY MovedTree
<1>3. Types'
  BY <1>1, <1>2 DEF Types, host
<1>4. /\ j.phase \in {"rb-quiesced", "rb-switched"} /\ cur \in Trees /\ cur \notin Binds
      /\ \/ step = "rb-move" /\ j.phase = "rb-quiesced" /\ j.rb[cur] = "old"
         \/ step = "soak-move" /\ j.phase = "rb-switched" /\ j.rb[cur] = "soak-created"
  BY <1>1 DEF Inv, StepsOK, Types
<1>5. /\ OneBack(cur) /\ Modes(cur) /\ Returned(cur)
      /\ j.rb[cur] # "none" /\ cur \notin Binds => cur \in j.rinv
  BY <1>4, TreesBack DEF Inv
<1>6. IF j.phase = "rb-quiesced" THEN ReturningTree(cur)' ELSE ReturnedTree(cur)'
  <2>1. Modes(cur)'
    BY <1>1, <1>2, <1>4, <1>5 DEF Modes, ListedYes, Unfinished, Same
  <2>2. Returned(cur)'
    BY <1>1, <1>2, <1>4, <1>5 DEF Returned
  <2> QED
    BY <1>1, <1>4, <1>5, <2>1, <2>2 DEF OneBack, ReturningTree, ReturnedTree
<1>7. TreesOK'
  BY <1>1, <1>2, <1>4, <1>6, OneTreeBack DEF Inv
<1>8. MarkerOK' /\ DaemonOK' /\ BoxOK'
  BY <1>1, <1>4, HostStays
<1>9. StepsOK'
  BY <1>1, <1>2, <1>4 DEF Inv, StepsOK, BackSteps, AtPrior, host
<1> QED
  BY <1>3, <1>7, <1>8, <1>9 DEF Inv

LEMMA RbSaveMovedKeeps ==
    ASSUME Types, Inv, NEW step, NEW next, NEW item, RbSaveItem(step, next, item),
           \/ step = "rb-save-moved" /\ next = "rb-list" /\ item = "moved"
           \/ step = "soak-save-moved" /\ next = "rb-soak" /\ item = "soak-moved"
    PROVE  Types' /\ Inv'
<1> USE DEF RbSaveItem, Goto, At, NoFault, Save
<1>1. /\ j.phase \in {"rb-quiesced", "rb-switched"} /\ cur \in Trees /\ cur \notin Binds
      /\ tree[cur].root = "old"
      /\ \/ /\ step = "rb-save-moved" /\ j.phase = "rb-quiesced" /\ j.rb[cur] = "old"
            /\ item = "moved"
         \/ /\ step = "soak-save-moved" /\ j.phase = "rb-switched" /\ j.rb[cur] = "soak-created"
            /\ item = "soak-moved"
  BY DEF Inv, StepsOK, Types
<1>2. /\ j' \in Journals /\ j'.rb = [j.rb EXCEPT ![cur] = item]
      /\ j'.phase = j.phase /\ j'.inv = j.inv /\ j'.rinv = j.rinv /\ j'.items = j.items
      /\ j'.setid = j.setid /\ j'.rbSetid = j.rbSetid
      /\ j'.timers = j.timers /\ j'.committing = j.committing
  <2>1. j \in Journals /\ item \in RbItems
    BY <1>1 DEF Types, RbItems
  <2>2. j' = [j EXCEPT !.rb[cur] = item]
    OBVIOUS
  <2> QED
    BY <1>1, <2>1, <2>2, RbItemSaved
<1>3. Types'
  BY <1>2 DEF Types, host
<1>4. j.rb \in [Trees -> RbItems]
  BY DEF Types, Journals
<1>5. /\ OneBack(cur) /\ Modes(cur) /\ Returned(cur)
      /\ j.rb[cur] # "none" /\ cur \notin Binds => cur \in j.rinv
  BY <1>1, TreesBack DEF Inv
<1>6. IF j.phase = "rb-quiesced" THEN ReturningTree(cur)' ELSE ReturnedTree(cur)'
  <2>1. Modes(cur)'
    BY <1>2, <1>5 DEF Modes, ListedYes, Unfinished, Same
  <2>2. Returned(cur)'
    BY <1>1, <1>2, <1>4, <1>5 DEF Returned
  <2> QED
    BY <1>1, <1>2, <1>4, <1>5, <2>1, <2>2
       DEF OneBack, ReturningTree, ReturnedTree, BackItems
<1>7. TreesOK'
  BY <1>1, <1>2, <1>4, <1>6, OneTreeBack DEF Inv
<1>8. MarkerOK' /\ DaemonOK' /\ BoxOK'
  BY <1>1, <1>2, HostStays
<1>9. StepsOK'
  BY <1>1, <1>2, <1>4 DEF Inv, StepsOK, BackSteps, AtPrior, host
<1> QED
  BY <1>3, <1>7, <1>8, <1>9 DEF Inv

LEMMA RbSaveRestoredKeeps ==
    ASSUME Types, Inv,
           RbSaveItem("rb-save-restored", IF Reached("rb-switched") THEN "rb-soak" ELSE "rb-trees",
                      IF Reached("rb-switched") THEN "soak-restored" ELSE "restored")
    PROVE  Types' /\ Inv'
<1> USE DEF RbSaveItem, Goto, At, NoFault, Save
<1>1. /\ j.phase \in {"rb-quiesced", "rb-switched"} /\ cur \in Trees
      /\ tree[cur].ids = "host"
      /\ \/ j.phase = "rb-quiesced" /\ j.rb[cur] = IF cur \in Binds THEN "none" ELSE "moved"
         \/ j.phase = "rb-switched" /\ cur \notin Binds /\ j.rb[cur] = "soak-moved"
  BY DEF Inv, StepsOK, Types
<1> DEFINE item == IF Reached("rb-switched") THEN "soak-restored" ELSE "restored"
<1>2. Reached("rb-switched") <=> j.phase = "rb-switched"
  BY <1>1, Asked DEF RollbackPhases, Types, Journals
<1>3. /\ item = IF j.phase = "rb-switched" THEN "soak-restored" ELSE "restored"
      /\ pc' = IF j.phase = "rb-switched" THEN "rb-soak" ELSE "rb-trees"
      /\ j' = [j EXCEPT !.rb[cur] = item]
  BY <1>2
<1> HIDE DEF item
<1>4. /\ j' \in Journals /\ j'.rb = [j.rb EXCEPT ![cur] = item]
      /\ j'.phase = j.phase /\ j'.inv = j.inv /\ j'.rinv = j.rinv /\ j'.items = j.items
      /\ j'.setid = j.setid /\ j'.rbSetid = j.rbSetid
      /\ j'.timers = j.timers /\ j'.committing = j.committing
  <2>1. j \in Journals /\ item \in RbItems
    BY <1>3 DEF Types, RbItems
  <2> QED
    BY <1>1, <1>3, <2>1, RbItemSaved
<1>5. Types'
  BY <1>3, <1>4 DEF Types, host
<1>6. j.rb \in [Trees -> RbItems]
  BY DEF Types, Journals
<1>7. /\ OneBack(cur) /\ Modes(cur) /\ Returned(cur)
      /\ j.rb[cur] # "none" /\ cur \notin Binds => cur \in j.rinv
  BY <1>1, TreesBack DEF Inv
<1>8. Home(cur)
  BY <1>1, <1>7 DEF Home, Modes, Returned
<1>9. IF j.phase = "rb-quiesced" THEN ReturningTree(cur)' ELSE ReturnedTree(cur)'
  <2>1. Modes(cur)'
    BY <1>4, <1>7 DEF Modes, ListedYes, Unfinished, Same
  <2>2. Returned(cur)'
    <3>1. Home(cur)'
      BY <1>8 DEF Home, Same
    <3>2. j'.rb[cur] = item
      BY <1>1, <1>4, <1>6
    <3> QED
      BY <1>1, <1>3, <1>4, <1>7, <3>1, <3>2 DEF Returned, Home
  <2> QED
    BY <1>1, <1>3, <1>4, <1>6, <1>7, <2>1, <2>2
       DEF OneBack, ReturningTree, ReturnedTree, BackItems
<1>10. TreesOK'
  BY <1>1, <1>4, <1>6, <1>9, OneTreeBack DEF Inv
<1>11. MarkerOK' /\ DaemonOK' /\ BoxOK'
  BY <1>1, <1>4, HostStays
<1>12. StepsOK'
  BY <1>1, <1>3, <1>4 DEF Inv, StepsOK, BackSteps, AtPrior, host
<1> QED
  BY <1>5, <1>10, <1>11, <1>12 DEF Inv

LEMMA RbSwitchedKeeps == ASSUME Types, Inv, RbSwitched PROVE Types' /\ Inv'
<1> USE DEF RbSwitched, Goto, At, NoFault
<1>1. /\ j.phase = "rb-restored" /\ AtPrior /\ j \in Journals /\ j.rinv \subseteq Trees
      /\ marker /\ box.new = "none"
  BY DEF Inv, StepsOK, Types, Journals, Trees, MarkerOK, BoxOK, Fresh, Prior, Carry, Opening,
         Boxes
<1>2. /\ j' \in Journals /\ j'.phase = "rb-switched"
      /\ j'.inv = j.inv /\ j'.rinv = j.rinv /\ j'.items = j.items /\ j'.rb = j.rb
      /\ j'.setid = j.setid /\ j'.rbSetid = j.rbSetid
      /\ j'.timers = j.timers /\ j'.committing = j.committing
  BY <1>1, PhaseSaved, PhaseNames DEF RollbackPhases
<1>3. Types'
  BY <1>2 DEF Types, host
<1>4. \A t \in Trees : ReturnedTree(t)'
  <2>1. ASSUME NEW t \in Trees PROVE ReturnedTree(t)'
    <3>1. ReturnedTree(t)
      BY <1>1, <2>1, ReturnedTrees DEF Inv
    <3>2. Modes(t)' /\ Returned(t)'
      BY <1>2, <3>1, SameTree DEF ReturnedTree
    <3> QED
      BY <1>1, <1>2, <3>1, <3>2 DEF ReturnedTree, BackItems
  <2> QED
    BY <2>1
<1>5. (j.phase \in {"rb-restored", "rb-switched"} /\ j.rinv \subseteq Trees =>
         (TreesOK <=> \A t \in Trees : ReturnedTree(t)))'
  BY ReturnedTrees, PTL
<1>6. TreesOK'
  BY <1>1, <1>2, <1>4, <1>5
<1>7. MarkerOK' /\ DaemonOK' /\ BoxOK'
  BY <1>1, <1>2
     DEF Inv, MarkerOK, DaemonOK, BoxOK, ConfiguredDaemon, host, AtPrior, Fresh, Prior, Carry,
         Opening, Ours
<1>8. StepsOK'
  BY <1>1, <1>2 DEF Inv, StepsOK, BackSteps, AtPrior, host
<1> QED
  BY <1>3, <1>6, <1>7, <1>8 DEF Inv

LEMMA SoakVolumesKeeps == ASSUME Types, Inv, SoakVolumes PROVE Types' /\ Inv'
<1> USE DEF Goto, GotoOn, At, NoFault, Save
<1>1. /\ pc = "rb-soak" /\ j.phase \in {"rb-switched", "rb-rebuilt"} /\ j \in Journals
      /\ j.rinv \subseteq Trees /\ j.rinv \cap Binds = {}
      /\ UNCHANGED <<host, box, faults, run, after>>
  BY TreesAssumption DEF SoakVolumes, Inv, StepsOK, Types, Journals, Trees, AllVols
<1>2. j.phase = "rb-rebuilt" =>
        \A v \in j.rinv : j.rb[v] \in {"stayed", "restored", "soak-restored"}
  BY DEF Inv, TreesOK, ReturnedOK
<1>3. ASSUME NEW v \in j.rinv, j.rb[v] \in {"soak", "soak-created"},
             tree' = [tree EXCEPT ![v].oldDir = TRUE],
             j' = [j EXCEPT !.rb[v] = "soak-created"], pc' = "soak-move", cur' = v
      PROVE  Types' /\ Inv'
  <2>1. v \in Trees /\ v \notin Binds /\ j.phase = "rb-switched"
    BY <1>1, <1>2, <1>3
  <2>2. /\ j' \in Journals /\ j'.rb = [j.rb EXCEPT ![v] = "soak-created"]
        /\ j'.phase = j.phase /\ j'.inv = j.inv /\ j'.rinv = j.rinv /\ j'.items = j.items
        /\ j'.setid = j.setid /\ j'.rbSetid = j.rbSetid
        /\ j'.timers = j.timers /\ j'.committing = j.committing
    BY <1>1, <1>3, <2>1, RbItemSaved DEF RbItems
  <2>3. /\ tree' \in [Trees -> TreeStates] /\ \A t \in Trees \ {v} : tree'[t] = tree[t]
        /\ tree'[v].root = tree[v].root /\ tree'[v].oldDir
        /\ tree'[v].want = tree[v].want /\ tree'[v].ids = tree[v].ids
        /\ tree'[v].suid = tree[v].suid
    BY <1>3, <2>1 DEF Types, TreeStates
  <2>4. Types'
    BY <1>1, <1>3, <2>1, <2>2, <2>3 DEF Types, host
  <2>5. j.rb \in [Trees -> RbItems]
    BY <1>1 DEF Journals
  <2>6. OneBack(v) /\ Modes(v) /\ Returned(v)
    BY <2>1, TreesBack DEF Inv
  <2>7. ReturnedTree(v)'
    <3>1. Modes(v)'
      BY <2>2, <2>3, <2>6 DEF Modes, ListedYes, Unfinished, Same
    <3>2. Returned(v)'
      BY <1>3, <2>1, <2>2, <2>3, <2>5, <2>6 DEF Returned, Abroad
    <3> QED
      BY <2>1, <2>2, <2>5, <3>1, <3>2 DEF ReturnedTree, BackItems
  <2>8. TreesOK'
    BY <2>1, <2>2, <2>3, <2>5, <2>7, OneTreeBack DEF Inv
  <2>9. MarkerOK' /\ DaemonOK' /\ BoxOK'
    BY <1>1, <2>1, <2>2, HostStays
  <2>10. StepsOK'
    BY <1>1, <1>3, <2>1, <2>2, <2>5 DEF Inv, StepsOK, BackSteps, host
  <2> QED
    BY <2>4, <2>8, <2>9, <2>10 DEF Inv
<1>4. ASSUME NEW v \in j.rinv, j.rb[v] = "soak-moved", pc' = "rb-list", cur' = v,
             UNCHANGED <<j, tree>>
      PROVE  Types' /\ Inv'
  <2>1. v \in Trees /\ v \notin Binds /\ j.phase = "rb-switched"
    BY <1>1, <1>2, <1>4
  <2>2. Types'
    BY <1>1, <1>4, <2>1 DEF Types, host
  <2>3. TreesOK'
    BY <1>1, <1>4, TreesStay DEF TreeView, Inv
  <2>4. MarkerOK' /\ DaemonOK' /\ BoxOK'
    BY <1>1, <1>4, <2>1, HostStays
  <2>5. StepsOK'
    BY <1>1, <1>4, <2>1 DEF Inv, StepsOK, BackSteps, host
  <2> QED
    BY <2>2, <2>3, <2>4, <2>5 DEF Inv
<1>5. ASSUME \A v \in j.rinv : j.rb[v] \in {"stayed", "restored", "soak-restored"},
             IF Reached("rb-rebuilt") THEN UNCHANGED j ELSE Phase("rb-rebuilt"),
             Goto("rb-up"), UNCHANGED tree
      PROVE  Types' /\ Inv'
  <2>1. Reached("rb-rebuilt") <=> j.phase = "rb-rebuilt"
    BY <1>1, Asked DEF RollbackPhases, Journals
  <2>2. CASE j.phase = "rb-rebuilt"
    <3>1. UNCHANGED j
      BY <1>5, <2>1, <2>2
    <3>2. Types'
      BY <1>1, <1>5, <3>1 DEF Types, host
    <3>3. TreesOK' /\ (AllAbroad' <=> AllAbroad)
          /\ \A t \in Trees : ListedYes(t)' <=> ListedYes(t)
      BY <1>1, <1>5, <3>1, TreesStay DEF TreeView, Inv
    <3>4. MarkerOK' /\ DaemonOK' /\ BoxOK'
      BY <1>1, <3>1, <3>3 DEF Inv, MarkerOK, DaemonOK, BoxOK, ConfiguredDaemon, host
    <3>5. StepsOK'
      BY <1>1, <1>5, <2>2, <3>1 DEF Inv, StepsOK, BackSteps, AtPrior, host
    <3> QED
      BY <3>2, <3>3, <3>4, <3>5 DEF Inv
  <2>3. CASE j.phase = "rb-switched"
    <3>1. /\ j' \in Journals /\ j'.phase = "rb-rebuilt"
          /\ j'.inv = j.inv /\ j'.rinv = j.rinv /\ j'.items = j.items /\ j'.rb = j.rb
          /\ j'.setid = j.setid /\ j'.rbSetid = j.rbSetid
          /\ j'.timers = j.timers /\ j'.committing = j.committing
      BY <1>1, <1>5, <2>1, <2>3, PhaseSaved, PhaseNames DEF RollbackPhases
    <3>2. Types'
      BY <1>1, <1>5, <3>1 DEF Types, host
    <3>3. \A t \in Trees : Home(t)
      <4>1. ASSUME NEW t \in Trees PROVE Home(t)
        <5>1. ReturnedTree(t)
          BY <1>1, <2>3, ReturnedTrees DEF Inv
        <5>2. CASE t \in Binds
          BY <5>1, <5>2 DEF ReturnedTree, Returned
        <5>3. CASE t \notin Binds
          BY <1>5, <5>1, <5>3 DEF ReturnedTree, Returned
        <5> QED
          BY <5>2, <5>3
      <4> QED
        BY <4>1
    <3>4. AllHome'
      BY <1>5, <3>1, <3>3, SameTrees DEF AllHome
    <3>5. TreesOK'
      <4> USE DEF Fresh, Prior, Carry, Opening, Moving
      <4>1. HomeOK' /\ AbroadOK' /\ PriorOK' /\ BackUnused' /\ CarriedOK' /\ SwitchedOK'
        BY <3>1, <3>4 DEF HomeOK, AbroadOK, PriorOK, BackUnused, CarriedOK, SwitchedOK
      <4>2. RebuiltOK' /\ ModesOK' /\ DoneOK' /\ ReturningOK' /\ ReturnedOK'
        BY <1>5, <3>1 DEF RebuiltOK, ModesOK, DoneOK, ReturningOK, ReturnedOK
      <4> QED
        BY <4>1, <4>2 DEF TreesOK
    <3>6. marker /\ box.new = "none" /\ AtPrior
      BY <2>3 DEF Inv, MarkerOK, BoxOK, DaemonOK, AtPrior, Fresh, Prior, Carry, Opening,
                  Types, Boxes
    <3>7. MarkerOK' /\ DaemonOK' /\ BoxOK'
      BY <1>1, <2>3, <3>1, <3>6
         DEF Inv, MarkerOK, DaemonOK, BoxOK, ConfiguredDaemon, host, AtPrior, Fresh, Prior,
             Carry, Opening, Ours
    <3>8. StepsOK'
      BY <1>1, <1>5, <2>3, <3>1 DEF Inv, StepsOK, BackSteps, AtPrior, host
    <3> QED
      BY <3>2, <3>5, <3>7, <3>8 DEF Inv
  <2> QED
    BY <1>1, <2>2, <2>3
<1> QED
  BY <1>1, <1>3, <1>4, <1>5 DEF SoakVolumes

LEMMA RemoveNewRootKeeps == ASSUME Types, Inv, RemoveNewRoot PROVE Types' /\ Inv'
<1> USE DEF RemoveNewRoot, Goto, At, NoFault
<1>1. j.phase = "rb-rebuilt" /\ box \in [{"old", "new"} -> Boxes]
  BY DEF Inv, StepsOK, Types
<1>2. \A t \in Trees : tree[t].root # "new"
  BY <1>1 DEF Inv, TreesOK, HomeOK, AllHome, Home
<1>3. tree' = tree
  BY <1>2 DEF Types
<1>4. box' \in [{"old", "new"} -> Boxes] /\ box'.old = box.old /\ box'.new = "none"
  BY <1>1 DEF Boxes
<1>5. Types'
  BY <1>3, <1>4 DEF Types, host
<1>6. TreesOK' /\ (AllAbroad' <=> AllAbroad) /\ \A t \in Trees : ListedYes(t)' <=> ListedYes(t)
  BY <1>3, TreesStay DEF TreeView, Inv
<1>7. MarkerOK' /\ DaemonOK' /\ BoxOK'
  BY <1>4, <1>6 DEF Inv, MarkerOK, DaemonOK, BoxOK, ConfiguredDaemon, host
<1>8. StepsOK'
  BY <1>1, <1>3 DEF Inv, StepsOK, BackSteps, AtPrior, host
<1> QED
  BY <1>5, <1>6, <1>7, <1>8 DEF Inv

-----------------------------------------------------------------------------
\* userns-commit, and what happens around a run.

LEMMA CommitKeeps == ASSUME Types, Inv, Commit PROVE Types' /\ Inv'
<1> USE DEF Goto, End, At, NoFault, Save
<1>1. UNCHANGED <<host, faults>> /\ j \in Journals /\ cur \in Trees
  BY DEF Commit, Types
<1>2. ASSUME run = "none", Committable, run' = "commit", pc' = "delete",
             UNCHANGED <<after, cur, tree, box>>, j' = [j EXCEPT !.committing = TRUE]
      PROVE  Types' /\ Inv'
  <2>1. j.phase = "applied"
    BY <1>2 DEF Committable
  <2>2. /\ j' \in Journals /\ j'.phase = "applied" /\ j'.committing = TRUE
        /\ j'.inv = j.inv /\ j'.rinv = j.rinv /\ j'.items = j.items /\ j'.rb = j.rb
        /\ j'.setid = j.setid /\ j'.rbSetid = j.rbSetid /\ j'.timers = j.timers
    BY <1>1, <1>2, <2>1 DEF Journals
  <2>3. Types'
    BY <1>1, <1>2, <2>2 DEF Types, host
  <2>4. /\ \A t : ListedYes(t)' <=> ListedYes(t)
        /\ AllAbroad' <=> AllAbroad
    BY <1>2, <2>2, SameTrees
  <2>5. TreesOK'
    <3> USE DEF Fresh, Prior, Carry, Opening, Moving
    <3>1. HomeOK' /\ AbroadOK' /\ PriorOK' /\ BackUnused' /\ CarriedOK' /\ SwitchedOK'
      BY <2>1, <2>2, <2>4
         DEF Inv, TreesOK, HomeOK, AbroadOK, PriorOK, BackUnused, CarriedOK, SwitchedOK
    <3>2. RebuiltOK' /\ ModesOK' /\ DoneOK' /\ ReturningOK' /\ ReturnedOK'
      BY <2>1, <2>2, <2>4
         DEF Inv, TreesOK, RebuiltOK, ModesOK, DoneOK, ReturningOK, ReturnedOK
    <3> QED
      BY <3>1, <3>2 DEF TreesOK
  <2>6. MarkerOK' /\ DaemonOK' /\ BoxOK'
    BY <1>1, <1>2, <2>1, <2>2, <2>4
       DEF Inv, MarkerOK, DaemonOK, BoxOK, ConfiguredDaemon, host, Opening, Ours, Fresh, Prior
  <2>7. StepsOK'
    BY <1>1, <1>2, <2>1, <2>2 DEF Inv, StepsOK, BackSteps
  <2> QED
    BY <2>3, <2>5, <2>6, <2>7 DEF Inv
<1>3. ASSUME At("delete"), Goto("committed"), UNCHANGED j, box' = [box EXCEPT !.old = "none"],
             tree' = [t \in Trees |-> [tree[t] EXCEPT !.oldDir = FALSE,
                                                      !.root = IF @ = "old" THEN "lost" ELSE @]]
      PROVE  Types' /\ Inv'
  <2>1. j.phase = "applied" /\ j.committing /\ AllAbroad
    BY <1>3 DEF Inv, StepsOK, TreesOK, AbroadOK
  <2>2. /\ tree' \in [Trees -> TreeStates]
        /\ \A t \in Trees :
             /\ tree[t].root # "old" => tree'[t].root = tree[t].root
             /\ tree[t].root # "old" => tree'[t].oldDir = FALSE
             /\ tree'[t].ids = tree[t].ids /\ tree'[t].suid = tree[t].suid
             /\ tree'[t].want = tree[t].want
    <3>1. tree \in [Trees -> TreeStates]
      BY DEF Types
    <3> DEFINE left(t) == [tree[t] EXCEPT !.oldDir = FALSE,
                                          !.root = IF @ = "old" THEN "lost" ELSE @]
    <3>2. ASSUME NEW t \in Trees
          PROVE  /\ left(t) \in TreeStates
                 /\ tree[t].root # "old" => left(t).root = tree[t].root
                 /\ tree[t].root # "old" => left(t).oldDir = FALSE
                 /\ left(t).ids = tree[t].ids /\ left(t).suid = tree[t].suid
                 /\ left(t).want = tree[t].want
      BY <3>1 DEF TreeStates, Roots
    <3>3. tree' = [t \in Trees |-> left(t)]
      BY <1>3
    <3> HIDE DEF left
    <3> QED
      BY <3>2, <3>3
  <2>3. box' \in [{"old", "new"} -> Boxes] /\ box'.old = "none" /\ box'.new = box.new
    BY <1>3 DEF Types, Boxes
  <2>4. Types'
    BY <1>1, <1>3, <2>2, <2>3 DEF Types, host
  <2>5. AllAbroad'
    <3>1. ASSUME NEW t \in Trees PROVE (Abroad(t) \/ Absent(t))'
      BY <2>1, <2>2, <3>1 DEF AllAbroad, Abroad, Absent, Home, Same
    <3> QED
      BY <3>1 DEF AllAbroad
  <2>6. \A t : ListedYes(t)' <=> ListedYes(t)
    BY <1>3 DEF ListedYes, Unfinished
  <2>7. TreesOK'
    <3> USE DEF Fresh, Prior, Carry, Opening, Moving
    <3>1. HomeOK' /\ AbroadOK' /\ PriorOK' /\ BackUnused' /\ CarriedOK' /\ SwitchedOK'
      BY <1>3, <2>1, <2>5
         DEF Inv, TreesOK, HomeOK, AbroadOK, PriorOK, BackUnused, CarriedOK, SwitchedOK
    <3>2. RebuiltOK' /\ ModesOK' /\ DoneOK' /\ ReturningOK' /\ ReturnedOK'
      BY <1>3, <2>1, <2>6
         DEF Inv, TreesOK, RebuiltOK, ModesOK, DoneOK, ReturningOK, ReturnedOK
    <3> QED
      BY <3>1, <3>2 DEF TreesOK
  <2>8. MarkerOK' /\ DaemonOK' /\ BoxOK'
    BY <1>1, <1>3, <2>1, <2>3, <2>5
       DEF Inv, MarkerOK, DaemonOK, BoxOK, ConfiguredDaemon, host, Opening, Ours, Fresh, Prior
  <2>9. StepsOK'
    BY <1>1, <1>3, <2>1 DEF Inv, StepsOK, BackSteps
  <2> QED
    BY <2>4, <2>7, <2>8, <2>9 DEF Inv
<1>4. ASSUME At("committed"), Phase("committed"), End, UNCHANGED <<tree, box>>
      PROVE  Types' /\ Inv'
  <2>1. j.phase = "applied" /\ j.committing /\ AllAbroad
    BY <1>4 DEF Inv, StepsOK, TreesOK, AbroadOK
  <2>2. /\ j' \in Journals /\ j'.phase = "committed"
        /\ j'.inv = j.inv /\ j'.rinv = j.rinv /\ j'.items = j.items /\ j'.rb = j.rb
        /\ j'.setid = j.setid /\ j'.rbSetid = j.rbSetid
        /\ j'.timers = j.timers /\ j'.committing = j.committing
    BY <1>1, <1>4, PhaseSaved, PhaseNames DEF ForwardPhases
  <2>3. Types'
    BY <1>1, <1>4, <2>2 DEF Types, host
  <2>4. AllAbroad'
    BY <1>4, <2>1, <2>2, SameTrees
  <2>5. TreesOK'
    <3> USE DEF Fresh, Prior, Carry, Opening, Moving
    <3>1. HomeOK' /\ AbroadOK' /\ PriorOK' /\ BackUnused' /\ CarriedOK' /\ SwitchedOK'
      BY <2>2, <2>4
         DEF HomeOK, AbroadOK, PriorOK, BackUnused, CarriedOK, SwitchedOK
    <3>2. RebuiltOK' /\ ModesOK' /\ DoneOK' /\ ReturningOK' /\ ReturnedOK'
      BY <2>2 DEF RebuiltOK, ModesOK, DoneOK, ReturningOK, ReturnedOK
    <3> QED
      BY <3>1, <3>2 DEF TreesOK
  <2>6. MarkerOK' /\ DaemonOK' /\ BoxOK'
    BY <1>1, <1>4, <2>1, <2>2, <2>4
       DEF Inv, MarkerOK, DaemonOK, BoxOK, ConfiguredDaemon, host, Opening, Ours, Fresh, Prior
  <2>7. StepsOK'
    BY <1>1, <1>4, <2>1, <2>2 DEF Inv, StepsOK, BackSteps
  <2> QED
    BY <2>3, <2>5, <2>6, <2>7 DEF Inv
<1> QED
  BY <1>2, <1>3, <1>4 DEF Commit

LEMMA KillKeeps == ASSUME Types, Inv, Kill PROVE Types' /\ Inv'
<1> USE DEF Kill, End
<1>1. Types'
  BY Faulted DEF Types, host
<1>2. TreesOK'
  BY TreesStay DEF TreeView, Inv
<1>3. MarkerOK' /\ DaemonOK' /\ BoxOK'
  BY TreesStay DEF Inv, MarkerOK, DaemonOK, BoxOK, ConfiguredDaemon, TreeView, host
<1>4. StepsOK'
  BY DEF Inv, StepsOK, BackSteps
<1> QED
  BY <1>1, <1>2, <1>3, <1>4 DEF Inv

LEMMA RebootKeeps == ASSUME Types, Inv, Reboot PROVE Types' /\ Inv'
<1> USE DEF Reboot, End
<1> DEFINE left == [r \in {"old", "new"} |-> Halted(box[r])]
<1>1. PICK c \in Restarts(left[ConfiguredDaemon]) :
        box' = [left EXCEPT ![ConfiguredDaemon] = c]
  OBVIOUS
<1>2. ConfiguredDaemon \in {"old", "new"}
  BY DEF ConfiguredDaemon
<1>3. /\ left \in [{"old", "new"} -> Boxes]
      /\ \A r \in {"old", "new"} : left[r] # "up" /\ (box[r] = "none" => left[r] = "none")
  BY DEF Halted, Types, Boxes
<1> HIDE DEF left
<1>4. c \in Boxes /\ (left[ConfiguredDaemon] = "none" => c = "none")
  BY <1>1, <1>2, <1>3 DEF Restarts, Boxes
<1>5. /\ box' \in [{"old", "new"} -> Boxes] /\ (box["new"] = "none" => box'["new"] = "none")
      /\ conf = "ours" => box'["old"] # "up"
  BY <1>1, <1>2, <1>3, <1>4 DEF ConfiguredDaemon
<1>6. Types'
  BY <1>2, <1>5, Faulted DEF Types
<1>7. TreesOK' /\ (AllAbroad' <=> AllAbroad) /\ \A t \in Trees : ListedYes(t)' <=> ListedYes(t)
  BY TreesStay DEF TreeView, Inv
<1>8. MarkerOK' /\ DaemonOK' /\ BoxOK'
  <2>1. MarkerOK' /\ DaemonOK'
    BY <1>7 DEF Inv, MarkerOK, DaemonOK, ConfiguredDaemon
  <2>2. BoxOK'
    BY <1>5, <1>7 DEF Inv, BoxOK, DaemonOK
  <2> QED
    BY <2>1, <2>2
<1>9. StepsOK'
  BY DEF Inv, StepsOK, BackSteps
<1> QED
  BY <1>6, <1>7, <1>8, <1>9 DEF Inv

\* Nothing happens.
LEMMA StutterKeeps == ASSUME Types, Inv, UNCHANGED vars PROVE Types' /\ Inv'
<1> USE DEF vars, command, host
<1>1. Types'
  BY DEF Types
<1>2. TreesOK'
  BY TreesStay DEF TreeView, Inv
<1>3. MarkerOK' /\ DaemonOK' /\ BoxOK'
  BY TreesStay DEF Inv, MarkerOK, DaemonOK, BoxOK, ConfiguredDaemon, TreeView
<1>4. StepsOK'
  BY InventoryStays, InventoryBackStays DEF Inv, StepsOK, AtPrior
<1> QED
  BY <1>1, <1>2, <1>3, <1>4 DEF Inv

LEMMA MigrateStartKeeps == ASSUME Types, Inv, MigrateStart PROVE Types' /\ Inv'
<1> USE DEF NoFault
<1>1. /\ run = "none" /\ run' = "migrate" /\ UNCHANGED <<faults, cur, j, tree>> /\ j \in Journals
      /\ \/ ~IsForward /\ j.phase \in Fresh
         \/ IsForward /\ j.phase \in Prior \cup Carry
  BY Directions, PhaseNames
     DEF MigrateStart, Types, Journals, Fresh, ForwardPhases, Prior, Carry
<1>2. \/ j.phase \in Fresh /\ pc' = "phase0" /\ after' = "none" /\ UNCHANGED <<host, box>>
      \/ j.phase \in Prior /\ pc' = "prior" /\ after' = "phase0" /\ UNCHANGED <<host, box>>
      \/ /\ j.phase \in Carry /\ pc' = "marker" /\ after' = "none" /\ conf = "ours"
         /\ IF daemon = "none" THEN StartDaemon ELSE UNCHANGED <<daemon, box>>
         /\ UNCHANGED <<conf, rec, marker, timers>>
  <2>1. CASE ~IsForward /\ j.phase \in Fresh
    BY <2>1 DEF MigrateStart
  <2>2. CASE IsForward /\ j.phase \in Prior
    <3>1. ~Reached("switched")
      BY <1>1, <2>2, PriorIsForward DEF Prior, Carry
    <3> QED
      BY <2>2, <3>1 DEF MigrateStart
  <2>3. CASE IsForward /\ j.phase \in Carry
    <3>1. Reached("switched")
      BY <1>1, <2>3, PriorIsForward DEF Prior, Carry
    <3> QED
      BY <2>3, <3>1 DEF MigrateStart
  <2> QED
    BY <1>1, <2>1, <2>2, <2>3
<1>3. /\ UNCHANGED <<conf, rec, marker, timers>> /\ daemon' \in {"none", ConfiguredDaemon}
      /\ box' \in [{"old", "new"} -> Boxes] /\ (box["new"] = "none" => box'["new"] = "none")
      /\ conf = "ours" => box'["old"] = box["old"]
  <2>1. CASE UNCHANGED <<host, box>>
    BY <2>1 DEF host, Inv, DaemonOK, Types
  <2>2. CASE UNCHANGED <<daemon, box, conf, rec, marker, timers>>
    BY <2>2 DEF Inv, DaemonOK, Types
  <2>3. CASE StartDaemon /\ UNCHANGED <<conf, rec, marker, timers>> /\ conf = "ours"
    BY <2>3, Started DEF ConfiguredDaemon
  <2> QED
    BY <1>2, <2>1, <2>2, <2>3
<1>4. Types'
  BY <1>1, <1>2, <1>3 DEF Types, ConfiguredDaemon
<1>5. TreesOK' /\ (AllAbroad' <=> AllAbroad) /\ \A t \in Trees : ListedYes(t)' <=> ListedYes(t)
  BY <1>1, TreesStay DEF TreeView, Inv
<1>6. MarkerOK' /\ DaemonOK' /\ BoxOK'
  <2>1. MarkerOK' /\ DaemonOK'
    BY <1>1, <1>3, <1>5 DEF Inv, MarkerOK, DaemonOK, ConfiguredDaemon
  <2>2. BoxOK'
    BY <1>1, <1>3, <1>5 DEF Inv, BoxOK, DaemonOK
  <2> QED
    BY <2>1, <2>2
<1>7. StepsOK'
  BY <1>1, <1>2, <1>3 DEF Inv, StepsOK, BackSteps, AtPrior, DaemonOK
<1> QED
  BY <1>4, <1>5, <1>6, <1>7 DEF Inv

\* With the marker down every tree is home, or every tree carried and no list open.
LEMMA Open ==
    ASSUME Types, Inv, ~marker
    PROVE  \/ j.phase \in Fresh \cup Prior \cup {"rb-rebuilt"} /\ conf = "prior" /\ AllHome
           \/ /\ j.phase \in {"rebuilt", "applied", "committed"} \cup Opening
              /\ conf = "ours" /\ AllAbroad
              /\ j.phase # "committed" => \A t \in Trees : ~ListedYes(t)
BY DEF Inv, MarkerOK, DaemonOK, TreesOK, HomeOK, DoneOK, Opening, Ours, Carry, Fresh, Prior

\* What a project may do while the marker is down keeps the trees in order.
LEMMA OpenStays ==
    ASSUME Types, Inv, ~marker, run = "none", UNCHANGED <<j, host, box, command, faults>>,
           tree' \in [Trees -> TreeStates],
           conf = "prior" => AllHome',
           conf = "ours" => /\ AllAbroad'
                            /\ \A t \in Trees : Carried(t) => Carried(t)'
    PROVE  Types' /\ Inv'
<1> USE DEF Fresh, Prior, Carry, Opening, Moving, Ours, command, host
<1>1. \/ j.phase \in Fresh \cup Prior \cup {"rb-rebuilt"} /\ conf = "prior" /\ AllHome'
      \/ /\ j.phase \in {"rebuilt", "applied", "committed"} \cup Opening
         /\ conf = "ours" /\ AllAbroad'
         /\ j.phase # "committed" => \A t \in Trees : ~ListedYes(t)
         /\ \A t \in Trees : Carried(t) => Carried(t)'
  BY Open
<1>2. Types'
  BY DEF Types
<1>3. \A t : ListedYes(t)' <=> ListedYes(t)
  BY DEF ListedYes, Unfinished
<1>4. TreesOK'
  <2>1. CASE j.phase \in Fresh \cup Prior \cup {"rb-rebuilt"} /\ AllHome'
    <3>1. HomeOK' /\ AbroadOK' /\ PriorOK' /\ BackUnused' /\ CarriedOK' /\ SwitchedOK'
      BY <2>1 DEF Inv, TreesOK, HomeOK, AbroadOK, PriorOK, BackUnused, CarriedOK, SwitchedOK
    <3>2. RebuiltOK' /\ ModesOK' /\ DoneOK' /\ ReturningOK' /\ ReturnedOK'
      BY <2>1 DEF Inv, TreesOK, RebuiltOK, ModesOK, DoneOK, ReturningOK, ReturnedOK
    <3> QED
      BY <3>1, <3>2 DEF TreesOK
  <2>2. CASE /\ j.phase \in {"rebuilt", "applied", "committed"} \cup Opening
             /\ AllAbroad'
             /\ j.phase # "committed" => \A t \in Trees : ~ListedYes(t)
             /\ \A t \in Trees : Carried(t) => Carried(t)'
    <3>1. j.phase # "committed" => \A t \in Trees : Modes(t)'
      BY <1>3, <2>2 DEF AllAbroad, Modes, Abroad, Absent, Home
    <3>2. HomeOK' /\ AbroadOK' /\ PriorOK' /\ BackUnused' /\ CarriedOK' /\ SwitchedOK'
      BY <2>2 DEF Inv, TreesOK, HomeOK, AbroadOK, PriorOK, BackUnused, CarriedOK, SwitchedOK
    <3>3. RebuiltOK' /\ ModesOK' /\ DoneOK' /\ ReturningOK' /\ ReturnedOK'
      BY <1>3, <2>2, <3>1
         DEF Inv, TreesOK, RebuiltOK, ModesOK, DoneOK, ReturningOK, ReturnedOK
    <3> QED
      BY <3>2, <3>3 DEF TreesOK
  <2> QED
    BY <1>1, <2>1, <2>2
<1>5. MarkerOK'
  BY <1>1, <1>3 DEF Inv, MarkerOK, DaemonOK
<1>6. DaemonOK' /\ BoxOK'
  BY <1>1 DEF Inv, DaemonOK, BoxOK, ConfiguredDaemon
<1>7. StepsOK'
  BY DEF Types, Inv, StepsOK, BackSteps
<1> QED
  BY <1>2, <1>4, <1>5, <1>6, <1>7 DEF Inv

LEMMA SoakKeeps == ASSUME Types, Inv, Soak PROVE Types' /\ Inv'
<1>1. PICK t \in Trees :
        /\ tree[t].root \in {daemon, "path"} /\ tree[t].suid
        /\ tree' = [tree EXCEPT ![t].suid = FALSE, ![t].want = FALSE]
  BY DEF Soak
<1>2. ~marker /\ run = "none" /\ UNCHANGED <<j, host, box, command, faults>>
  BY DEF Soak, NoFault
<1>3. /\ tree' \in [Trees -> TreeStates] /\ \A u \in Trees \ {t} : tree'[u] = tree[u]
      /\ tree'[t].root = tree[t].root /\ tree'[t].oldDir = tree[t].oldDir
      /\ tree'[t].ids = tree[t].ids /\ tree'[t].suid = FALSE /\ tree'[t].want = FALSE
  BY <1>1 DEF Types, TreeStates
<1>4. \A u \in Trees : /\ (Home(u) => Home(u)') /\ (Abroad(u) => Abroad(u)')
                       /\ (Absent(u) => Absent(u)')
  BY <1>3 DEF Home, Abroad, Absent, Same
<1>5. \A u \in Trees : Carried(u) => Carried(u)'
  <2>1. ASSUME NEW u \in Trees, Carried(u) PROVE Carried(u)'
    <3>1. /\ tree'[u].root = tree[u].root /\ tree'[u].oldDir = tree[u].oldDir
          /\ tree'[u].ids = tree[u].ids
      BY <1>3
    <3> QED
      BY <1>2, <1>4, <2>1, <3>1 DEF Carried
  <2> QED
    BY <2>1
<1>6. (AllHome => AllHome') /\ (AllAbroad => AllAbroad')
  BY <1>4 DEF AllHome, AllAbroad
<1> QED
  BY <1>2, <1>3, <1>5, <1>6, Open, OpenStays

LEMMA NewProjectKeeps == ASSUME ~LateProjects, Types, Inv, NewProject PROVE Types' /\ Inv'
<1>1. /\ ~marker /\ run = "none" /\ UNCHANGED <<j, host, box, command, faults>>
      /\ daemon # "none" /\ tree[New].root = "none"
  BY DEF NewProject, NoFault
<1>2. New \in Trees /\ New \notin Binds
  BY TreesAssumption DEF Trees, AllVols
<1>3. /\ tree' \in [Trees -> TreeStates] /\ \A u \in Trees \ {New} : tree'[u] = tree[u]
      /\ tree'[New].root = daemon /\ tree'[New].oldDir = (daemon = "old")
      /\ tree'[New].ids = IF daemon = "new" THEN "remap" ELSE "host"
      /\ tree'[New].suid = tree[New].suid /\ tree'[New].want = tree[New].want
  <2>1. daemon \in {"old", "new"}
    BY <1>1 DEF Types
  <2>2. tree' = [tree EXCEPT ![New] = [@ EXCEPT !.root = daemon, !.oldDir = daemon = "old",
                                               !.ids = IF daemon = "new" THEN "remap" ELSE "host"]]
    BY DEF NewProject
  <2> DEFINE state == [tree[New] EXCEPT !.root = daemon, !.oldDir = daemon = "old",
                                        !.ids = IF daemon = "new" THEN "remap" ELSE "host"]
  <2>3. tree \in [Trees -> TreeStates] /\ tree[New] \in TreeStates
    BY <1>2 DEF Types
  <2>4. /\ state \in TreeStates
        /\ state.root = daemon /\ state.oldDir = (daemon = "old")
        /\ state.ids = IF daemon = "new" THEN "remap" ELSE "host"
        /\ state.suid = tree[New].suid /\ state.want = tree[New].want
    BY <2>1, <2>3 DEF TreeStates, Roots
  <2>5. tree' = [tree EXCEPT ![New] = state]
    BY <2>2
  <2> HIDE DEF state
  <2>6. /\ tree' \in [Trees -> TreeStates] /\ \A u \in Trees \ {New} : tree'[u] = tree[u]
        /\ tree'[New] = state
    BY <1>2, <2>3, <2>4, <2>5, OneTree
  <2> QED
    BY <2>4, <2>6
<1>4. daemon = ConfiguredDaemon
  BY <1>1 DEF Inv, DaemonOK
<1>5. conf = "prior" => AllHome'
  <2>1. ASSUME conf = "prior", NEW u \in Trees PROVE Home(u)'
    <3>1. Home(u) /\ Home(New) /\ daemon = "old"
      BY <1>1, <1>2, <1>4, <2>1, Open DEF AllHome, ConfiguredDaemon
    <3>2. CASE u = New
      BY <1>2, <1>3, <3>1, <3>2 DEF Home, Same
    <3>3. CASE u # New
      <4>1. tree'[u] = tree[u]
        BY <1>3, <3>3
      <4> QED
        BY <3>1, <4>1 DEF Home, Same
    <3> QED
      BY <3>2, <3>3
  <2> QED
    BY <2>1 DEF AllHome
<1>6. conf = "ours" => AllAbroad' /\ \A t \in Trees : Carried(t) => Carried(t)'
  <2>1. ASSUME conf = "ours" PROVE daemon = "new" /\ AllAbroad /\ Same(New)
    BY <1>1, <1>2, <1>4, <2>1, Open DEF ConfiguredDaemon, AllAbroad, Abroad, Absent, Home
  <2>2. ASSUME conf = "ours" PROVE Abroad(New)' /\ ~tree'[New].oldDir
    BY <1>2, <1>3, <2>1, <2>2 DEF Abroad, Same
  <2>3. ASSUME conf = "ours", NEW u \in Trees PROVE (Abroad(u) \/ Absent(u))'
    BY <1>3, <2>1, <2>2, <2>3 DEF AllAbroad, Abroad, Absent, Home, Same
  <2>4. ASSUME conf = "ours", NEW u \in Trees, Carried(u) PROVE Carried(u)'
    <3>1. CASE u = New
      BY <1>1, <1>2, <2>2, <2>4, <3>1 DEF Carried, Abroad, Types, Journals, Items
    <3>2. CASE u # New
      <4>1. tree'[u] = tree[u]
        BY <1>3, <3>2
      <4>2. (Home(u)' <=> Home(u)) /\ (Abroad(u)' <=> Abroad(u))
        BY <4>1 DEF Home, Abroad, Same
      <4> QED
        BY <1>1, <2>4, <4>1, <4>2 DEF Carried
    <3> QED
      BY <3>1, <3>2
  <2> QED
    BY <2>3, <2>4 DEF AllAbroad
<1> QED
  BY <1>1, <1>3, <1>5, <1>6, OpenStays

-----------------------------------------------------------------------------
\* The theorems.

\* Before the first migration.
LEMMA InitInv == Init => Types /\ Inv
<1> SUFFICES ASSUME Init PROVE Types /\ Inv
  OBVIOUS
<1> USE DEF Init
<1>1. /\ j.phase = "none" /\ j.timers /\ ~j.committing
      /\ j \in Journals
  BY BlankJournal DEF NoJournal
<1>2. \A t \in Trees : tree[t] \in TreeStates /\ Home(t)
  <2>1. ASSUME NEW t \in Trees PROVE tree[t] \in TreeStates /\ Home(t)
    <3>1. /\ tree[t].root = IF t = New THEN "none" ELSE IF t \in Binds THEN "path" ELSE "old"
          /\ tree[t].oldDir = (t \in Vols) /\ tree[t].ids = "host"
          /\ tree[t].suid = TRUE /\ tree[t].want = TRUE
      BY <2>1
    <3>2. tree[t] \in TreeStates
      BY <2>1 DEF TreeStates, Roots
    <3>3. t \in Vols \/ t = New \/ t \in Binds
      BY <2>1 DEF Trees, AllVols
    <3>4. Home(t)
      BY <3>1, <3>3, TreesAssumption DEF Home, Same
    <3> QED
      BY <3>2, <3>4
  <2> QED
    BY <2>1
<1>3. Types
  <2>1. tree \in [Trees -> TreeStates]
    BY <1>2
  <2>2. box \in [{"old", "new"} -> Boxes]
    BY DEF Boxes
  <2>3. cur \in Trees
    BY DEF Trees
  <2>4. faults \in 0 .. MaxFaults
    BY FaultsAssumption
  <2>5. /\ run = "none" /\ pc = "idle" /\ conf = "prior" /\ daemon = "old"
        /\ rec \in BOOLEAN /\ marker \in BOOLEAN /\ timers \in BOOLEAN
    OBVIOUS
  <2> HIDE DEF Init
  <2> QED
    BY <1>1, <2>1, <2>2, <2>3, <2>4, <2>5 DEF Types
<1>4. TreesOK
  <2> USE DEF Fresh, Prior, Carry, Opening, Moving
  <2>1. HomeOK /\ AbroadOK /\ PriorOK /\ BackUnused /\ CarriedOK /\ SwitchedOK
    BY <1>1, <1>2 DEF HomeOK, AllHome, AbroadOK, PriorOK, BackUnused, CarriedOK, SwitchedOK
  <2>2. RebuiltOK /\ ModesOK /\ DoneOK /\ ReturningOK /\ ReturnedOK
    BY <1>1 DEF RebuiltOK, ModesOK, DoneOK, ReturningOK, ReturnedOK
  <2> QED
    BY <2>1, <2>2 DEF TreesOK
<1>5. MarkerOK /\ DaemonOK /\ BoxOK
  BY <1>1 DEF MarkerOK, DaemonOK, BoxOK, ConfiguredDaemon, Fresh, Prior, Carry, Opening, Ours
<1>6. StepsOK
  BY <1>1 DEF StepsOK, BackSteps
<1> QED
  BY <1>3, <1>4, <1>5, <1>6 DEF Inv

LEMMA StepsKeep == ASSUME Types, Inv, Steps PROVE Types' /\ Inv'
<1>1. CASE BackStop \/ BackConfig \/ BackRecord \/ BackStart \/ EnsurePrior
  BY <1>1, BackStopKeeps, BackConfigKeeps, BackRecordKeeps, BackStartKeeps, EnsurePriorKeeps
<1>2. CASE ListSetid \/ RbListSetid \/ Shift
  BY <1>2, ListSetidKeeps, RbListSetidKeeps, ChownThereKeeps, ChmodThereKeeps, ChownBackKeeps,
     ChmodBackKeeps DEF Shift
<1>3. CASE Migrate
  <2>1. CASE Inventory \/ Prepare \/ Quiesce \/ Switch \/ SwitchFails \/ Rebuild
    BY <2>1, InventoryKeeps, PrepareKeeps, QuiesceKeeps, SwitchKeeps, SwitchFailsKeeps,
       RebuildKeeps
  <2>2. CASE SetMarker("marker", "timers") \/ StopTimers("timers", "quiesce")
    BY <2>2, SetMarkerKeeps, StopTimersKeeps
  <2>3. CASE \/ BringUp("undo-up", "undo-timers", "old", AlreadyUp, j)
             \/ BringUp("bring-up", "on-timers", "new", AlreadyUp, [j EXCEPT !.up = TRUE])
    BY <2>3, BringUpKeeps
  <2>4. CASE RestoreTimers("undo-timers", "undo-marker") \/ RestoreTimers("on-timers", "on-marker")
    BY <2>4, RestoreTimersKeeps
  <2>5. CASE ClearMarker("undo-marker", "undo-save") \/ ClearMarker("on-marker", "apply")
    BY <2>5, ClearMarkerKeeps
  <2>6. CASE Finish("undo-save", "started") \/ Finish("apply", "applied")
    BY <2>6, FinishKeeps
  <2>7. CASE \/ Move("move", "save-moved", "new") \/ SaveItem("save-moved", "list", "moved")
             \/ SaveItem("save-shifted", "rebuild", "shifted")
    BY <2>7, MoveThereKeeps, SaveMovedKeeps, SaveShiftedKeeps
  <2> QED
    BY <1>3, <2>1, <2>2, <2>3, <2>4, <2>5, <2>6, <2>7 DEF Migrate
<1>4. CASE Abort
  BY <1>4, BringUpKeeps, RestoreTimersKeeps, ClearMarkerKeeps, FinishKeeps DEF Abort
<1>5. CASE Reverse
  <2>1. CASE RbSaved \/ RbQuiesce \/ RbResume \/ RestoreData \/ RbSwitched \/ SoakVolumes
             \/ RemoveNewRoot
    BY <2>1, RbSavedKeeps, RbQuiesceKeeps, RbResumeKeeps, RestoreDataKeeps, RbSwitchedKeeps,
       SoakVolumesKeeps, RemoveNewRootKeeps
  <2>2. CASE SetMarker("rb-marker", "rb-stop-timers") \/ StopTimers("rb-stop-timers", "rb-quiesce")
    BY <2>2, SetMarkerKeeps, StopTimersKeeps
  <2>3. CASE \/ Move("rb-move", "rb-save-moved", "old")
             \/ Move("soak-move", "soak-save-moved", "old")
    BY <2>3, MoveBackKeeps
  <2>4. CASE \/ RbSaveItem("rb-save-moved", "rb-list", "moved")
             \/ RbSaveItem("soak-save-moved", "rb-soak", "soak-moved")
    BY <2>4, RbSaveMovedKeeps
  <2>5. CASE RbSaveItem("rb-save-restored",
                        IF Reached("rb-switched") THEN "rb-soak" ELSE "rb-trees",
                        IF Reached("rb-switched") THEN "soak-restored" ELSE "restored")
    BY <2>5, RbSaveRestoredKeeps
  <2>6. CASE BringUp("rb-up", "rb-rmtree", "old", AlreadyUp, [j EXCEPT !.rbUp = TRUE])
    BY <2>6, BringUpKeeps
  <2>7. CASE \/ RestoreTimers("rb-timers", "rb-clear") \/ ClearMarker("rb-clear", "rb-done")
             \/ Finish("rb-done", "rolled-back")
    BY <2>7, RestoreTimersKeeps, ClearMarkerKeeps, FinishKeeps
  <2> QED
    BY <1>5, <2>1, <2>2, <2>3, <2>4, <2>5, <2>6, <2>7 DEF Reverse
<1> QED
  BY <1>1, <1>2, <1>3, <1>4, <1>5 DEF Steps

LEMMA NextKeeps == ASSUME ~LateProjects, Types, Inv, [Next]_vars PROVE Types' /\ Inv'
BY MigrateStartKeeps, RollbackStartKeeps, CommitKeeps, StepsKeep, KillKeeps, RebootKeeps,
   SoakKeeps, NewProjectKeeps, StutterKeeps DEF Next

\* The invariant holds: whatever step a kill, a reboot or a failure ends a run at,
\* the journal it leaves says where each tree is (userns/journal.py, steps.py).
THEOREM Invariance == ASSUME ~LateProjects PROVE Spec => [](Types /\ Inv)
<1>1. Types /\ Inv /\ [Next]_vars => (Types /\ Inv)'
  BY NextKeeps
<1> QED
  BY <1>1, InitInv, PTL DEF Spec

\* Once a rollback is past the remapped daemon, what the old one may start is home.
LEMMA OldHasItsOwn ==
    ASSUME Types, Inv, j.phase \notin Ours, NEW t \in Trees,
           t \in Binds \/ (tree[t].oldDir /\ ~InTransit(t))
    PROVE  Home(t) /\ tree[t].root = IF t \in Binds THEN "path" ELSE "old"
<1>1. j.phase \in Fresh \cup Prior \cup {"rb-rebuilt", "rb-restored", "rb-switched"}
  BY PhaseNames
     DEF Types, Journals, Ours, Carry, Opening, ForwardPhases, RollbackPhases, Fresh, Prior
<1>2. Home(t)
  <2>1. CASE j.phase \in Fresh \cup Prior \cup {"rb-rebuilt"}
    BY <2>1 DEF Inv, TreesOK, HomeOK, AllHome
  <2>2. CASE j.phase \in {"rb-restored", "rb-switched"}
    <3>1. ReturnedTree(t)
      BY <2>2, ReturnedTrees DEF Inv, Types, Journals, Trees
    <3>2. CASE t \in Binds
      BY <3>1, <3>2 DEF ReturnedTree, Returned
    <3>3. CASE t \notin Binds /\ t \notin j.rinv
      BY <3>1, <3>3 DEF ReturnedTree, Returned
    <3>4. CASE t \notin Binds /\ t \in j.rinv
      BY <2>2, <3>1, <3>4 DEF ReturnedTree, Returned, BackItems, InTransit
    <3> QED
      BY <3>2, <3>3, <3>4
  <2> QED
    BY <1>1, <2>1, <2>2
<1> QED
  BY <1>2 DEF Home

\* Containers run only on data that is their daemon's and wholly shifted, and the
\* old daemon never starts with one of its volumes in the remapped root
\* (rollback.py's order of restore, switch and bring-up), however runs are cut.
THEOREM RunsOnItsDataHolds == ASSUME ~LateProjects PROVE Spec => []RunsOnItsData
<1>1. ASSUME Types, Inv PROVE RunsOnItsData
  <2>1. ASSUME box.old = "up", NEW t \in Trees, t \in Binds \/ (tree[t].oldDir /\ ~InTransit(t))
        PROVE  tree[t].root \in {"old", "path"} /\ tree[t].ids = "host"
    BY <1>1, <2>1, OldHasItsOwn DEF Inv, BoxOK, Home
  <2>2. ASSUME box.new = "up", NEW t \in Trees, tree[t].root # "none"
        PROVE  tree[t].root \in {"new", "path"} /\ tree[t].ids = "remap"
    BY <1>1, <2>2 DEF Inv, BoxOK, AllAbroad, Abroad, Absent
  <2>3. ASSUME daemon = "old", NEW v \in AllVols, tree[v].oldDir, ~InTransit(v)
        PROVE  tree[v].root = "old"
    <3>1. j.phase \notin Ours
      BY <1>1, <2>3 DEF Inv, DaemonOK, ConfiguredDaemon
    <3>2. v \in Trees /\ v \notin Binds
      BY TreesAssumption DEF Trees, AllVols
    <3> QED
      BY <1>1, <2>3, <3>1, <3>2, OldHasItsOwn
  <2> QED
    BY <2>1, <2>2, <2>3 DEF RunsOnItsData
<1> QED
  BY <1>1, Invariance, PTL

\* marker.py: with the marker down the timers run, and the daemon that runs has every
\* volume that exists, and every tree, with its own ids.
THEOREM MarkerCoversHolds == ASSUME ~LateProjects PROVE Spec => []MarkerCovers
<1>1. ASSUME Types, Inv PROVE MarkerCovers
  <2> SUFFICES ASSUME ~marker PROVE MarkerCovers
    BY DEF MarkerCovers
  <2>1. timers
    BY <1>1 DEF Inv, MarkerOK
  <2>2. ASSUME daemon # "none", NEW t \in Trees, tree[t].root # "none"
        PROVE  /\ tree[t].root \in {daemon, "path"}
               /\ tree[t].ids = IF daemon = "new" THEN "remap" ELSE "host"
    <3>1. daemon = ConfiguredDaemon
      BY <1>1, <2>2 DEF Inv, DaemonOK
    <3>2. CASE conf = "prior" /\ AllHome
      BY <2>2, <3>1, <3>2 DEF ConfiguredDaemon, AllHome, Home
    <3>3. CASE conf = "ours" /\ AllAbroad
      BY <2>2, <3>1, <3>3 DEF ConfiguredDaemon, AllAbroad, Abroad, Absent
    <3> QED
      BY <1>1, <3>2, <3>3, Open
  <2> QED
    BY <2>1, <2>2 DEF MarkerCovers
<1> QED
  BY <1>1, Invariance, PTL

\* Neither the rmtree of the remapped root (rollback.py) nor the delete of the old one
\* (userns-commit) meets data still there.
THEOREM NothingLostHolds == ASSUME ~LateProjects PROVE Spec => []NothingLost
<1>1. ASSUME Types, Inv, NEW t \in Trees PROVE tree[t].root # "lost"
  <2>1. j.phase \in Phases /\ j.items[t] \in Items /\ j.rb[t] \in RbItems
    BY <1>1 DEF Types, Journals
  <2>2. CASE j.phase \in Fresh \cup Prior \cup {"rb-rebuilt"}
    BY <1>1, <2>2 DEF Inv, TreesOK, HomeOK, AllHome, Home
  <2>3. CASE j.phase \in {"rebuilt", "applied", "committed"}
    BY <1>1, <2>3 DEF Inv, TreesOK, AbroadOK, AllAbroad, Abroad, Absent
  <2>4. CASE j.phase \in {"switched"} \cup Opening
    <3>1. Carried(t)
      BY <1>1, <2>4 DEF Inv, TreesOK, CarriedOK, Carry
    <3> QED
      BY <2>1, <3>1 DEF Carried, Home, Abroad, Items
  <2>5. CASE j.phase \in {"rb-quiesced", "rb-restored", "rb-switched"}
    <3>1. /\ Returned(t)
          /\ t \notin Binds /\ j.rb[t] = "none" /\ t \in j.rinv => Carried(t)
      BY <1>1, <2>5, ReturningTrees, ReturnedTrees
         DEF Inv, ReturningTree, ReturnedTree, BackItems, Types, Journals, Trees
    <3>2. CASE t \in Binds
      BY <3>1, <3>2 DEF Returned
    <3>3. CASE t \notin Binds /\ j.rb[t] = "none"
      BY <2>1, <3>1, <3>3 DEF Returned, Carried, Home, Abroad, Items
    <3>4. CASE t \notin Binds /\ j.rb[t] # "none"
      BY <2>1, <3>1, <3>4 DEF Returned, Home, Abroad, RbItems
    <3> QED
      BY <3>2, <3>3, <3>4
  <2> QED
    BY <2>1, <2>2, <2>3, <2>4, <2>5, PhaseNames
       DEF ForwardPhases, RollbackPhases, Fresh, Prior, Opening
<1>2. Types /\ Inv => NothingLost
  BY <1>1 DEF NothingLost
<1> QED
  BY <1>2, Invariance, PTL

\* shift.py: whenever projects may run, every setuid bit is what its owner last set,
\* even where a chown was cut and the shift resumed, or reversed.
THEOREM ShiftsKeepModesHolds == ASSUME ~LateProjects PROVE Spec => []ShiftsKeepModes
<1>1. ASSUME Types, Inv PROVE ShiftsKeepModes
  BY <1>1, Open DEF ShiftsKeepModes, AllHome, AllAbroad, Home, Abroad, Absent, Same
<1> QED
  BY <1>1, Invariance, PTL

\* A call's way back is one of the places a run goes on at.
Returns == {"none", "phase0", "abort-up", "undo-up", "rb-switched"}

\* The types alone need nothing of the rest, nor of when projects are deployed.
LEMMA JournalKept ==
    ASSUME Types, [Next]_vars
    PROVE  j' \in Journals
<1> USE DEF Save
<1>1. j \in Journals /\ cur \in Trees /\ timers \in BOOLEAN
  BY DEF Types
<1>2. ASSUME NEW p \in Phases, Phase(p) PROVE j' \in Journals
  BY <1>1, <1>2, PhaseSaved
<1>3. ASSUME NEW t \in Trees, NEW x \in Items, j' = [j EXCEPT !.items[t] = x]
      PROVE  j' \in Journals
  BY <1>1, <1>3, ItemSaved
<1>4. ASSUME NEW t \in Trees, NEW x \in RbItems, j' = [j EXCEPT !.rb[t] = x]
      PROVE  j' \in Journals
  BY <1>1, <1>4, RbItemSaved
<1>5. {"started", "prepared", "quiesced", "switched", "rebuilt", "applied", "committed",
       "rb-started", "rb-saved", "rb-quiesced", "rb-restored", "rb-switched", "rb-rebuilt",
       "rolled-back"} \subseteq Phases
  BY PhaseNames DEF ForwardPhases, RollbackPhases
<1>6. CASE ListSetid
  <2>1. SetidList(cur, j.setid[cur], "unset") \in Listed
    BY DEF SetidList, Listed
  <2> QED
    BY <1>1, <1>6, <2>1, SetidSaved DEF ListSetid
<1>7. CASE RbListSetid
  <2>1. SetidList(cur, j.rbSetid[cur], Unfinished(cur)) \in Listed
    BY DEF SetidList, Listed
  <2> QED
    BY <1>1, <1>7, <2>1, RbSetidSaved DEF RbListSetid
<1>8. CASE Inventory
  <2> DEFINE inv == {v \in AllVols : OnOld(v)} \cup Binds
  <2>1. inv \subseteq Trees
    BY DEF Trees
  <2>2. j' = Phase0(inv)
    BY <1>8 DEF Inventory
  <2> HIDE DEF inv
  <2>3. CASE IsForward
    BY <1>1, <2>1, <2>2, <2>3 DEF Phase0, Journals
  <2>4. CASE ~IsForward
    BY <1>1, <2>1, <2>2, <2>4, NewJournal DEF Phase0
  <2> QED
    BY <2>3, <2>4
<1>9. CASE RollbackStart
  <2> DEFINE rinv == {v \in AllVols : OnNew(v)}
             p == IF IsForward THEN "rb-started" ELSE j.phase
  <2>1. UNCHANGED j \/ j' = [j EXCEPT !.phase = p, !.rinv = rinv]
    BY <1>9 DEF RollbackStart
  <2>2. rinv \in SUBSET AllVols /\ p \in Phases
    BY <1>1, <1>5 DEF Journals
  <2> HIDE DEF rinv, p
  <2> QED
    BY <1>1, <2>1, <2>2 DEF Journals
<1>10. CASE Commit
  <2>1. CASE j' = [j EXCEPT !.committing = TRUE]
    BY <1>1, <2>1 DEF Journals
  <2> QED
    BY <1>1, <1>2, <1>5, <1>10, <2>1 DEF Commit
<1>11. CASE Prepare \/ Quiesce \/ Switch \/ Rebuild
  <2>1. CASE Prepare \/ Quiesce \/ Switch
    BY <1>1, <1>2, <1>5, <1>11, <2>1 DEF Prepare, Quiesce, Switch, ToRemapped
  <2>2. CASE Rebuild
    <3>1. j.inv \subseteq Trees /\ "created" \in Items
      BY <1>1 DEF Journals, Items
    <3> QED
      BY <1>1, <1>2, <1>3, <1>5, <2>2, <3>1 DEF Rebuild
  <2> QED
    BY <1>11, <2>1, <2>2
<1>12. CASE \/ SaveItem("save-moved", "list", "moved")
            \/ SaveItem("save-shifted", "rebuild", "shifted")
  BY <1>1, <1>3, <1>12 DEF SaveItem, Items
<1>13. ASSUME NEW step, NEW next, NEW root, NEW done, NEW saved \in Journals,
              BringUp(step, next, root, done, saved)
       PROVE  j' \in Journals
  BY <1>1, <1>13 DEF BringUp
<1>14. /\ [j EXCEPT !.up = TRUE] \in Journals /\ [j EXCEPT !.rbUp = TRUE] \in Journals
       /\ [j EXCEPT !.abortUp = TRUE] \in Journals
  BY <1>1 DEF Journals
<1>15. ASSUME NEW step, NEW phase \in Phases, Finish(step, phase) PROVE j' \in Journals
  BY <1>2, <1>15 DEF Finish
<1>16. CASE RbSaved \/ RbQuiesce \/ RestoreData \/ RbSwitched \/ SoakVolumes
  <2>1. CASE RbSaved \/ RbQuiesce \/ RbSwitched
    BY <1>1, <1>2, <1>5, <2>1 DEF RbSaved, RbQuiesce, RbSwitched
  <2>2. j.rinv \subseteq Trees /\ {"soak", "stayed", "old", "soak-created"} \subseteq RbItems
    BY <1>1 DEF Journals, RbItems, Trees
  <2>3. CASE RestoreData
    BY <1>1, <1>2, <1>4, <1>5, <2>2, <2>3 DEF RestoreData, Where
  <2>4. CASE SoakVolumes
    BY <1>1, <1>2, <1>4, <1>5, <2>2, <2>4 DEF SoakVolumes
  <2> QED
    BY <1>16, <2>1, <2>3, <2>4
<1>17. ASSUME NEW step, NEW next, NEW item \in RbItems, RbSaveItem(step, next, item)
       PROVE  j' \in Journals
  BY <1>1, <1>4, <1>17 DEF RbSaveItem
<1>18. /\ {"moved", "soak-moved"} \subseteq RbItems
       /\ (IF Reached("rb-switched") THEN "soak-restored" ELSE "restored") \in RbItems
  BY DEF RbItems
<1>19. CASE UNCHANGED j
  BY <1>1, <1>19
<1>20. CASE Migrate
  BY <1>1, <1>5, <1>8, <1>11, <1>12, <1>13, <1>14, <1>15, <1>19, <1>20
     DEF Migrate, SetMarker, StopTimers, SwitchFails, RestoreTimers, ClearMarker, Move
<1>21. CASE Abort
  BY <1>1, <1>5, <1>13, <1>14, <1>15, <1>19, <1>21 DEF Abort, RestoreTimers, ClearMarker
<1>22. CASE Reverse
  BY <1>1, <1>5, <1>13, <1>14, <1>15, <1>16, <1>17, <1>18, <1>19, <1>22
     DEF Reverse, SetMarker, StopTimers, RbResume, Move, RemoveNewRoot, RestoreTimers, ClearMarker
<1>23. CASE BackStop \/ BackConfig \/ BackRecord \/ BackStart \/ EnsurePrior \/ Shift
  BY <1>19, <1>23 DEF BackStop, BackConfig, BackRecord, BackStart, EnsurePrior, Shift, Chown, Chmod
<1>24. CASE MigrateStart \/ Kill \/ Reboot \/ Soak \/ NewProject \/ UNCHANGED vars
  BY <1>19, <1>24 DEF MigrateStart, Kill, Reboot, Soak, NewProject, vars
<1> QED
  BY <1>6, <1>7, <1>9, <1>10, <1>20, <1>21, <1>22, <1>23, <1>24 DEF Next, Steps

LEMMA TreeKept ==
    ASSUME Types, [Next]_vars
    PROVE  tree' \in [Trees -> TreeStates]
<1>1. tree \in [Trees -> TreeStates] /\ cur \in Trees /\ daemon \in {"old", "new", "none"}
  BY DEF Types
<1>2. CASE UNCHANGED tree
  BY <1>1, <1>2
<1>3. ASSUME NEW step, NEW next, NEW to \in {"old", "new"}, Move(step, next, to)
      PROVE  tree' \in [Trees -> TreeStates]
  BY <1>3, MovedTree
<1>4. CASE Shift
  BY <1>4, Chowned, Chmodded DEF Shift
<1>5. ASSUME NEW s \in TreeStates, NEW r \in Roots, NEW o \in BOOLEAN,
             NEW i \in {"host", "part", "remap"}
      PROVE  /\ [s EXCEPT !.root = r] \in TreeStates
             /\ [s EXCEPT !.root = r, !.oldDir = o, !.ids = i] \in TreeStates
  BY DEF TreeStates
<1>6. CASE SoakVolumes
  <2>1. CASE UNCHANGED tree
    BY <1>1, <2>1
  <2>2. ASSUME NEW v \in j.rinv, tree' = [tree EXCEPT ![v].oldDir = TRUE]
        PROVE  tree' \in [Trees -> TreeStates]
    BY <1>1, <2>2 DEF TreeStates
  <2> QED
    BY <1>6, <2>1, <2>2 DEF SoakVolumes
<1>7. CASE RemoveNewRoot
  <2>1. \A t \in Trees : [tree[t] EXCEPT !.root = "lost"] \in TreeStates
    BY <1>1, <1>5 DEF Roots
  <2> QED
    BY <1>1, <1>7, <2>1 DEF RemoveNewRoot
<1>8. CASE Commit
  <2>1. CASE UNCHANGED tree
    BY <1>1, <2>1
  <2>2. CASE tree' = [t \in Trees |-> [tree[t] EXCEPT !.oldDir = FALSE,
                                                    !.root = IF @ = "old" THEN "lost" ELSE @]]
    <3>1. ASSUME NEW t \in Trees
          PROVE  [tree[t] EXCEPT !.oldDir = FALSE, !.root = IF @ = "old" THEN "lost" ELSE @]
                   \in TreeStates
      BY <1>1 DEF TreeStates, Roots
    <3> QED
      BY <2>2, <3>1
  <2> QED
    BY <1>8, <2>1, <2>2 DEF Commit
<1>9. CASE Soak
  <2>1. PICK t \in Trees : tree' = [tree EXCEPT ![t].suid = FALSE, ![t].want = FALSE]
    BY <1>9 DEF Soak
  <2> QED
    BY <1>1, <2>1 DEF TreeStates
<1>10. CASE NewProject
  <2>1. /\ daemon \in Roots /\ (daemon = "old") \in BOOLEAN /\ New \in Trees
        /\ (IF daemon = "new" THEN "remap" ELSE "host") \in {"host", "part", "remap"}
    BY <1>1 DEF Roots, Trees, AllVols
  <2>2. tree' = [tree EXCEPT ![New] = [@ EXCEPT !.root = daemon, !.oldDir = daemon = "old",
                                             !.ids = IF daemon = "new" THEN "remap" ELSE "host"]]
    BY <1>10 DEF NewProject
  <2>3. [tree[New] EXCEPT !.root = daemon, !.oldDir = daemon = "old",
                          !.ids = IF daemon = "new" THEN "remap" ELSE "host"] \in TreeStates
    BY <1>1, <1>5, <2>1
  <2> QED
    BY <1>1, <2>1, <2>2, <2>3
<1>11. CASE Migrate
  BY <1>2, <1>3, <1>11
     DEF Migrate, Inventory, Prepare, SetMarker, StopTimers, Quiesce, Switch, SwitchFails, BringUp,
         RestoreTimers, ClearMarker, Finish, Rebuild, SaveItem
<1>12. CASE Abort \/ Reverse
  BY <1>2, <1>3, <1>6, <1>7, <1>12
     DEF Abort, Reverse, RbSaved, SetMarker, StopTimers, RbQuiesce, RbResume, RestoreData,
         RbSaveItem, RbSwitched, BringUp, RestoreTimers, ClearMarker, Finish
<1>13. CASE BackStop \/ BackConfig \/ BackRecord \/ BackStart \/ EnsurePrior \/ ListSetid
            \/ RbListSetid
  BY <1>2, <1>13
     DEF BackStop, BackConfig, BackRecord, BackStart, EnsurePrior, ListSetid, RbListSetid
<1>14. CASE MigrateStart \/ RollbackStart \/ Kill \/ Reboot \/ UNCHANGED vars
  BY <1>2, <1>14 DEF MigrateStart, RollbackStart, Kill, Reboot, vars
<1> QED
  BY <1>4, <1>8, <1>9, <1>10, <1>11, <1>12, <1>13, <1>14 DEF Next, Steps

LEMMA BoxKept ==
    ASSUME Types, [Next]_vars
    PROVE  box' \in [{"old", "new"} -> Boxes] /\ daemon' \in {"old", "new", "none"}
<1>1. /\ box \in [{"old", "new"} -> Boxes] /\ daemon \in {"old", "new", "none"}
      /\ ConfiguredDaemon \in {"old", "new"}
  BY DEF Types, ConfiguredDaemon
<1>2. ASSUME UNCHANGED daemon,
             \/ UNCHANGED box
             \/ \E r \in {"old", "new"} :
                  \/ box' = [box EXCEPT ![r] = "up"] \/ box' = [box EXCEPT ![r] = "none"]
                  \/ box' = [box EXCEPT ![r] = Stopped(@)]
      PROVE  box' \in [{"old", "new"} -> Boxes] /\ daemon' \in {"old", "new", "none"}
  BY <1>1, <1>2 DEF Boxes, Stopped
<1>3. CASE StartDaemon
  BY <1>1, <1>3, Started
<1>4. CASE StopDaemon
  BY <1>4, StoppedDaemon
<1>5. CASE Reboot
  <2> DEFINE left == [r \in {"old", "new"} |-> Halted(box[r])]
  <2>1. PICK c \in Restarts(left[ConfiguredDaemon]) :
          box' = [left EXCEPT ![ConfiguredDaemon] = c]
    BY <1>5 DEF Reboot
  <2>2. left \in [{"old", "new"} -> Boxes]
    BY <1>1 DEF Halted, Boxes
  <2> HIDE DEF left
  <2>3. c \in Boxes
    BY <1>1, <2>1, <2>2 DEF Restarts, Boxes
  <2> QED
    BY <1>1, <1>5, <2>1, <2>2, <2>3 DEF Reboot
<1>6. CASE Migrate
  BY <1>2, <1>3, <1>4, <1>6
     DEF Migrate, Inventory, Prepare, SetMarker, StopTimers, Quiesce, Switch, ToRemapped,
         SwitchFails, BringUp, RestoreTimers, ClearMarker, Finish, Rebuild, SaveItem, Move, host
<1>7. CASE Abort \/ Reverse
  BY <1>2, <1>3, <1>4, <1>7
     DEF Abort, Reverse, RbSaved, SetMarker, StopTimers, RbQuiesce, RbResume, RestoreData, Move,
         RbSaveItem, RbSwitched, SoakVolumes, RemoveNewRoot, BringUp, RestoreTimers, ClearMarker,
         Finish, host
<1>8. CASE BackStop \/ BackConfig \/ BackRecord \/ BackStart \/ EnsurePrior \/ ListSetid
           \/ RbListSetid \/ Shift
  BY <1>2, <1>3, <1>4, <1>8
     DEF BackStop, BackConfig, BackRecord, BackStart, EnsurePrior, ListSetid, RbListSetid, Shift,
         Chown, Chmod, host
<1>9. CASE MigrateStart \/ RollbackStart \/ Commit \/ Kill \/ Soak \/ NewProject \/ UNCHANGED vars
  BY <1>2, <1>3, <1>9
     DEF MigrateStart, RollbackStart, Commit, Kill, Soak, NewProject, vars, host
<1> QED
  BY <1>5, <1>6, <1>7, <1>8, <1>9 DEF Next, Steps

LEMMA HostKept ==
    ASSUME Types, [Next]_vars
    PROVE  /\ conf' \in {"prior", "ours"} /\ rec' \in BOOLEAN /\ marker' \in BOOLEAN
           /\ timers' \in BOOLEAN /\ faults' \in 0 .. MaxFaults
<1>1. /\ conf \in {"prior", "ours"} /\ rec \in BOOLEAN /\ marker \in BOOLEAN
      /\ timers \in BOOLEAN /\ faults \in 0 .. MaxFaults
  BY DEF Types
<1>2. Fault \/ UNCHANGED faults => faults' \in 0 .. MaxFaults
  BY <1>1, Faulted
<1>3. ASSUME NEW s, NEW n, RestoreTimers(s, n) PROVE timers' \in BOOLEAN
  BY <1>3 DEF RestoreTimers
<1>4. CASE Migrate
  BY <1>1, <1>2, <1>3, <1>4
     DEF Migrate, Inventory, Prepare, SetMarker, StopTimers, Quiesce, Switch, ToRemapped,
         SwitchFails, BringUp, RestoreTimers, ClearMarker, Finish, Rebuild, SaveItem, Move, host,
         NoFault
<1>5. CASE Abort \/ Reverse
  BY <1>1, <1>2, <1>3, <1>5
     DEF Abort, Reverse, RbSaved, SetMarker, StopTimers, RbQuiesce, RbResume, RestoreData, Move,
         RbSaveItem, RbSwitched, SoakVolumes, RemoveNewRoot, BringUp, RestoreTimers, ClearMarker,
         Finish, host, NoFault
<1>6. CASE BackStop \/ BackConfig \/ BackRecord \/ BackStart \/ EnsurePrior \/ ListSetid
           \/ RbListSetid \/ Shift
  BY <1>1, <1>2, <1>6
     DEF BackStop, BackConfig, BackRecord, BackStart, EnsurePrior, ListSetid, RbListSetid, Shift,
         Chown, Chmod, host, NoFault
<1>7. CASE MigrateStart \/ RollbackStart \/ Commit \/ Kill \/ Reboot \/ Soak \/ NewProject
           \/ UNCHANGED vars
  BY <1>1, <1>2, <1>7
     DEF MigrateStart, RollbackStart, Commit, Kill, Reboot, Soak, NewProject, vars, host, NoFault
<1> QED
  BY <1>4, <1>5, <1>6, <1>7 DEF Next, Steps

LEMMA CommandKept ==
    ASSUME Types, after \in Returns, [Next]_vars
    PROVE  /\ run' \in {"none", "migrate", "rollback", "commit"} /\ cur' \in Trees
           /\ (run' = "none" <=> pc' = "idle") /\ after' \in Returns
<1> USE DEF At, Goto, GotoOn, Call, End, Returns
<1>1. /\ run \in {"none", "migrate", "rollback", "commit"} /\ cur \in Trees
      /\ (run = "none" <=> pc = "idle")
      /\ j.inv \subseteq Trees /\ j.rinv \subseteq Trees /\ Binds \subseteq Trees
  BY DEF Types, Journals, Trees
<1>2. CASE Migrate
  <2>1. CASE Rebuild
    BY <1>1, <2>1 DEF Rebuild
  <2> QED
    BY <1>1, <1>2, <2>1
       DEF Migrate, Inventory, Prepare, SetMarker, StopTimers, Quiesce, Switch, ToRemapped,
           SwitchFails, BringUp, RestoreTimers, ClearMarker, Finish, SaveItem, Move
<1>3. CASE Abort
  BY <1>1, <1>3 DEF Abort, BringUp, RestoreTimers, ClearMarker, Finish
<1>4. CASE Reverse
  <2>1. CASE RestoreData \/ SoakVolumes
    BY <1>1, <2>1 DEF RestoreData, SoakVolumes
  <2> QED
    BY <1>1, <1>4, <2>1
       DEF Reverse, RbSaved, SetMarker, StopTimers, RbQuiesce, RbResume, Move, RbSaveItem,
           RbSwitched, RemoveNewRoot, BringUp, RestoreTimers, ClearMarker, Finish
<1>5. CASE BackStop \/ BackConfig \/ BackRecord \/ BackStart \/ EnsurePrior \/ ListSetid
           \/ RbListSetid \/ Shift
  BY <1>1, <1>5
     DEF BackStop, BackConfig, BackRecord, BackStart, EnsurePrior, ListSetid, RbListSetid, Shift,
         Chown, Chmod
<1>6. CASE MigrateStart \/ RollbackStart \/ Commit \/ Kill \/ Reboot \/ Soak \/ NewProject
           \/ UNCHANGED vars
  BY <1>1, <1>6
     DEF MigrateStart, RollbackStart, Commit, Kill, Reboot, Soak, NewProject, vars, command
<1> QED
  BY <1>2, <1>3, <1>4, <1>5, <1>6 DEF Next, Steps

\* The journal's fields (journal.py's _TYPES) and the host's state keep their types,
\* with projects deployed at any time.
THEOREM MigrationTypes == Spec => []TypeOK
<1>1. Init => Types /\ after \in Returns
  BY InitInv DEF Init, Returns
<1>2. Types /\ after \in Returns /\ [Next]_vars => (Types /\ after \in Returns)'
  BY JournalKept, TreeKept, BoxKept, HostKept, CommandKept DEF Types
<1>3. Types => TypeOK
  BY DEF Types, TypeOK, Journals, TreeStates, Roots, Items, RbItems, Listed, Boxes
<1> QED
  BY <1>1, <1>2, <1>3, PTL DEF Spec
=============================================================================
