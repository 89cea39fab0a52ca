------------------------- MODULE UpgradeShimProofs --------------------------
(***************************************************************************)
(* For any number of shims, of releases and of schemas: the types and the  *)
(* lock of the platform upgrade, and that the live venv works, that an     *)
(* unproven release keeps its fallback and that a power cut never leaves a *)
(* release on the files of another unmarked.  With one shim, or where no   *)
(* upgrade begins over a swap cut short, the link and its file only        *)
(* disagree where a marker says so.                                        *)
(***************************************************************************)
EXTENDS UpgradeShim, TLAPS

-----------------------------------------------------------------------------
(* The inductive invariant.  Most of it says what the holder of upgrade.lock *)
(* has established at each of its steps; everyone else is idle or waiting,   *)
(* with a view of the active slot that may be old.                           *)

\* The types of what is on disk.
FilesOK ==
    /\ slot \in [Slots -> Venvs]
    /\ inflight \in [Slots -> Versions \cup {0}]
    /\ rolling \in [Slots -> Rollbacks \cup {NoRollback}]
    /\ link \in Slots /\ synced \in Slots /\ activeFile \in Slots
    /\ probation \in Probations \cup {NoProbation}
    /\ blocklist \subseteq Released
    /\ interrupted \subseteq Released
    /\ disk \in Disks /\ stash \in Disks
    /\ misread \in BOOLEAN /\ partial \in BOOLEAN

\* The types of the processes, and the lock.
ProcessesOK ==
    /\ lock \in Procs \cup {Free}
    /\ pc \in [Procs -> LockedSteps \cup {"idle", "lock"}]
    /\ act \in [Procs -> Slots \cup {"none"}]
    /\ job \in [Procs -> Jobs]
    /\ \A p \in Procs : pc[p] \in LockedSteps <=> lock = p

\* What markers promise: beside an upgrade in flight there is a release to fall
\* back to, and the target of a rollback can take over.
MarkersSound ==
    \A s \in Slots :
        /\ inflight[s] \in Released \cup {0}
        /\ inflight[s] # 0 => TargetOk(Other(s)) /\ (~misread => slot[Other(s)].proven)
        /\ rolling[s] # NoRollback =>
              /\ rolling[s].ver \in Released
              /\ TargetOk(s) /\ (~misread => slot[s].proven)
              /\ rolling[Other(s)] = NoRollback

\* What probation.json promises: it names the slot that is not live, which was
\* proven, and what is on disk is the live release's.
ProbationSound ==
    probation # NoProbation =>
        /\ probation.ver \in Released
        /\ probation.prev \in {link, synced} => RollbackPending
        /\ ~misread =>
              /\ SlotWorks(probation.prev) => slot[probation.prev].proven
              /\ ~slot[Other(probation.prev)].proven => TargetOk(probation.prev)
        /\ ~RollbackPending => disk = DiskOf(slot[synced].ver) \/ partial

\* An unproven release that is live, or may be after a power cut, has a file
\* that says so.
Covered(s) ==
    ~misread /\ ~slot[s].proven =>
        \/ inflight[s] # 0
        \/ rolling[Other(s)] # NoRollback
        \/ probation.prev = Other(s)

\* The live slot, and that only a swap leaves a link that is not on disk yet.
LiveSound ==
    /\ SlotWorks(link) /\ SlotWorks(synced)
    /\ Covered(link) /\ Covered(synced)
    /\ synced # link => \E p \in Procs : pc[p] \in {"swapFile", "swapSync"}

\* The timer may wait with an old view of the slots: a rollback that it takes
\* for done while the link names the other slot still has its upgrade marked.
TimerSound ==
    pc[Timer] \in {"lock", "resume"} /\ rolling[act[Timer]] # NoRollback /\ act[Timer] # link
    => inflight[link] # 0

InUpgrade(p) == job[p].prev \in Slots /\ job[p].to = Other(job[p].prev)
InRollback(p) == job[p].prev \in Slots /\ job[p].to = job[p].prev

\* Up to the marker, an upgrade runs on a live slot without any file about it;
\* one whose view was old stops at its first step.
Preparing(p) ==
    pc[p] \in {"prepare", "build", "stash", "mark"} =>
        /\ InUpgrade(p) /\ act[p] = job[p].prev
        /\ probation = NoProbation /\ ~RollbackPending /\ inflight[act[p]] = 0
        /\ pc[p] # "prepare" => act[p] = link /\ inflight[job[p].to] = 0
        /\ pc[p] \in {"stash", "mark"} => SlotWorks(job[p].to)

\* A swap is marked, by the upgrade's marker or the rollback's.
Swapping(p) ==
    pc[p] \in {"swap", "swapFile", "swapSync"} =>
        /\ \/ /\ InUpgrade(p) /\ probation = NoProbation /\ ~RollbackPending
              /\ inflight[job[p].to] # 0 /\ SlotWorks(job[p].to)
              /\ pc[p] = "swap" => link = job[p].prev
           \/ /\ InRollback(p) /\ rolling[job[p].to] # NoRollback
              /\ p # Timer => inflight[Other(job[p].to)] # 0
        /\ pc[p] # "swapSync" => act[p] = Other(job[p].to)
        /\ pc[p] # "swap" => link = job[p].to
        /\ pc[p] = "swapSync" => act[p] = link

UpgradeSteps == {"apply", "applying", "health", "probation", "unmark"}

\* After the swap an upgrade is marked until probation.json is written.
Upgraded(p) ==
    pc[p] \in UpgradeSteps /\ (pc[p] \in {"apply", "applying"} => ~InRollback(p)) =>
        /\ InUpgrade(p) /\ act[p] = job[p].to /\ act[p] = link
        /\ ~RollbackPending /\ inflight[link] # 0
        /\ IF pc[p] = "unmark"
           THEN \/ probation # NoProbation /\ probation.prev = job[p].prev
                \/ probation = NoProbation /\ slot[link].proven
           ELSE probation = NoProbation
        /\ pc[p] = "applying" => disk.inputs = Schema[slot[link].ver]
        /\ pc[p] \in {"health", "probation", "unmark"} => disk = DiskOf(slot[link].ver)

RollbackSteps ==
    {"dropProbation", "restore", "apply", "applying", "partial", "partialDone", "dropMarker"}

\* After the swap a rollback is marked until the files are right, or reported.
RolledBack(p) ==
    pc[p] \in RollbackSteps /\ (pc[p] \in {"apply", "applying"} => InRollback(p)) =>
        /\ InRollback(p) /\ act[p] = job[p].to /\ rolling[act[p]] # NoRollback
        /\ act[p] # link => inflight[link] # 0
        /\ pc[p] # "dropProbation" => probation = NoProbation
        /\ pc[p] = "applying" => disk.inputs = Schema[slot[act[p]].ver]
        /\ pc[p] = "dropMarker" => disk = DiskOf(slot[act[p]].ver)
        /\ pc[p] = "partialDone" => partial

\* A rollback begins where none is marked, towards a slot that was proven.
RollingOut(p) ==
    pc[p] = "rollback" =>
        /\ InRollback(p) /\ act[p] = Other(job[p].to) /\ ~RollbackPending
        /\ ~misread /\ SlotWorks(job[p].to) => slot[job[p].to].proven
        /\ p # Timer => link = act[p] /\ inflight[link] # 0

\* What check-probation has found by the time it promotes, or waits for health.
Checking(p) ==
    /\ pc[p] \in {"resume", "recover", "probe", "promote", "promoteFile", "promoteCount",
                  "checking"} => p = Timer
    /\ pc[p] = "recover" => ~RollbackPending
    /\ pc[p] = "probe" => ~RollbackPending /\ inflight[act[p]] = 0
    /\ pc[p] \in {"promote", "checking"} =>
          /\ ~RollbackPending /\ inflight[act[p]] = 0 /\ act[p] = link
          /\ job[p].prev = Other(act[p])
          /\ ~misread /\ SlotWorks(job[p].prev) => slot[job[p].prev].proven
    /\ pc[p] = "promoteFile" => slot[link].proven

\* A process knows a slot, and past the first checks a release.
Informed(p) ==
    /\ pc[p] # "idle" => act[p] \in Slots
    /\ pc[p] \notin {"idle", "lock", "resume", "recover", "probe"} => job[p].ver \in Released

Sound(p) ==
    /\ Preparing(p) /\ Swapping(p) /\ Upgraded(p) /\ RolledBack(p)
    /\ RollingOut(p) /\ Checking(p) /\ Informed(p)

\* The inductive invariant.
Safe ==
    /\ FilesOK /\ ProcessesOK
    /\ MarkersSound /\ ProbationSound /\ LiveSound /\ CrashConsistent /\ TimerSound
    /\ \A p \in Procs : Sound(p)

-----------------------------------------------------------------------------
(* Slots, constants and the shapes of a step.                              *)

\* There are two slots.
LEMMA TwoSlots ==
    ASSUME NEW s \in Slots
    PROVE  /\ Other(s) \in Slots /\ Other(s) # s /\ Other(Other(s)) = s
           /\ \A t \in Slots : t = s \/ t = Other(s)
BY DEF Slots, Other

\* "none" is no slot; a release is no sign of its absence; nobody is Free.
LEMMA Names ==
    /\ "none" \notin Slots /\ NoProbation.prev = "none"
    /\ Timer \in Procs /\ Free \notin Procs
    /\ Released \subseteq Versions /\ Released \subseteq Nat /\ 0 \notin Versions
    /\ 1 \in Versions
<1>1. MaxVersion \in Nat \ {0}
  BY VersionAssumption
<1>2. Timer \in Procs /\ Free \notin Procs
  BY ShimAssumption DEF Procs, Timer, Free
<1> QED
  BY <1>1, <1>2 DEF Slots, NoProbation, Released, Versions

\* Types and lock, taken apart.
LEMMA TypeParts ==
    TypeOK <=> FilesOK /\ ProcessesOK
BY DEF TypeOK, FilesOK, ProcessesOK

\* Only one process is past acquire_lock.
LEMMA Alone ==
    ASSUME ProcessesOK, NEW p \in Procs, pc[p] \in LockedSteps
    PROVE  /\ lock = p
           /\ \A q \in Procs \ {p} : pc[q] \in {"idle", "lock"}
BY DEF ProcessesOK

\* Outside a swap the link is on disk.
LEMMA LinkSynced ==
    ASSUME ProcessesOK, LiveSound, NEW p \in Procs,
           pc[p] \in LockedSteps \ {"swapFile", "swapSync"}
    PROVE  synced = link
<1>1. \A q \in Procs : pc[q] \notin {"swapFile", "swapSync"}
  BY Alone
<1> QED
  BY <1>1 DEF LiveSound

\* Nobody holds the lock, so the link is on disk.
LEMMA FreeSynced ==
    ASSUME ProcessesOK, LiveSound, lock = Free
    PROVE  synced = link
<1>1. \A q \in Procs : pc[q] \notin LockedSteps
  BY Names DEF ProcessesOK
<1> QED
  BY <1>1 DEF LiveSound, LockedSteps

\* A process that is idle or waits has nothing to be right about but its slot.
LEMMA WaitingSound ==
    ASSUME NEW q \in Procs, pc[q] \in {"idle", "lock"}, pc[q] # "idle" => act[q] \in Slots
    PROVE  Sound(q)
BY DEF Sound, Preparing, Swapping, UpgradeSteps, Upgraded, RolledBack, RollbackSteps,
       RollingOut, Checking, Informed

\* So after a step too.
LEMMA WaitingSoundNext ==
    ASSUME NEW q \in Procs, pc[q]' \in {"idle", "lock"}, pc[q]' # "idle" => act[q]' \in Slots
    PROVE  Sound(q)'
BY DEF Sound, Preparing, Swapping, UpgradeSteps, Upgraded, RolledBack, RollbackSteps,
       RollingOut, Checking, Informed

\* After a step, one part of being sound says it all.
LEMMA SoundAtNext ==
    ASSUME NEW p \in Procs, Informed(p)'
    PROVE  /\ pc'[p] \in {"prepare", "build", "stash", "mark"} /\ Preparing(p)' => Sound(p)'
           /\ pc'[p] \in {"swap", "swapFile", "swapSync"} /\ Swapping(p)' => Sound(p)'
           /\ pc'[p] \in UpgradeSteps \cup RollbackSteps
              /\ Upgraded(p)' /\ RolledBack(p)' => Sound(p)'
           /\ pc'[p] = "rollback" /\ RollingOut(p)' => Sound(p)'
           /\ pc'[p] \in {"resume", "recover", "probe", "promote", "promoteFile", "promoteCount",
                         "checking"} /\ Checking(p)' => Sound(p)'
           /\ pc'[p] \in {"blocklist", "count"} => Sound(p)'
BY DEF Sound, Preparing, Swapping, UpgradeSteps, Upgraded, RolledBack, RollbackSteps,
       RollingOut, Checking, Informed

\* A step of the holder that changes no one else.
Only(p) ==
    \A q \in Procs \ {p} : pc'[q] = pc[q] /\ act'[q] = act[q] /\ job'[q] = job[q]

\* The holder's step: the others stay as sound as they were.
LEMMA OthersSound ==
    ASSUME Safe, NEW p \in Procs, pc[p] \in LockedSteps, Only(p), Sound(p)'
    PROVE  \A q \in Procs : Sound(q)'
<1>1. SUFFICES ASSUME NEW q \in Procs, q # p PROVE Sound(q)'
  OBVIOUS
<1>2. pc[q] \in {"idle", "lock"} /\ (pc[q] # "idle" => act[q] \in Slots)
  BY <1>1, Alone DEF Safe, Sound, Informed
<1> QED
  BY <1>1, <1>2, WaitingSoundNext DEF Only

\* Going on under the lock.
LEMMA WorkShape ==
    ASSUME ProcessesOK, NEW p \in Procs, pc[p] \in LockedSteps, NEW next \in LockedSteps,
           Work(p, next)
    PROVE  /\ ProcessesOK' /\ Only(p) /\ pc'[p] = next /\ act' = act /\ job' = job
           /\ UNCHANGED misread
BY DEF ProcessesOK, Work, Only

\* Going on under the lock with other locals.
LEMMA WorkAsShape ==
    ASSUME ProcessesOK, NEW p \in Procs, pc[p] \in LockedSteps, NEW next \in LockedSteps,
           NEW locals \in Jobs, WorkAs(p, next, locals)
    PROVE  /\ ProcessesOK' /\ Only(p) /\ pc'[p] = next /\ act' = act
           /\ job'[p] = locals /\ UNCHANGED misread
BY DEF ProcessesOK, WorkAs, Only

\* NoJob is a job.
LEMMA NoJobType ==
    NoJob \in Jobs
BY DEF NoJob, Jobs

\* Ending.
LEMMA ExitShape ==
    ASSUME ProcessesOK, NEW p \in Procs, Exit(p)
    PROVE  ProcessesOK' /\ Only(p) /\ pc'[p] = "idle"
<1>1. "idle" \notin LockedSteps /\ NoJob \in Jobs /\ Free \notin Procs
  BY NoJobType, Names DEF LockedSteps
<1>2. /\ lock' \in Procs \cup {Free}
      /\ pc' \in [Procs -> LockedSteps \cup {"idle", "lock"}]
      /\ act' \in [Procs -> Slots \cup {"none"}]
      /\ job' \in [Procs -> Jobs]
  BY <1>1 DEF ProcessesOK, Exit
<1>3. \A q \in Procs : pc'[q] \in LockedSteps <=> lock' = q
  BY <1>1 DEF ProcessesOK, Exit
<1>4. Only(p) /\ pc'[p] = "idle"
  BY DEF Only, Exit, ProcessesOK
<1> QED
  BY <1>2, <1>3, <1>4 DEF ProcessesOK

\* Taking the lock.
LEMMA TakeShape ==
    ASSUME ProcessesOK, NEW p \in Procs, NEW next \in LockedSteps, NEW locals \in Jobs,
           Take(p, next, locals)
    PROVE  ProcessesOK' /\ Only(p) /\ pc'[p] = next /\ act' = act /\ job'[p] = locals
<1>1. Free \notin Procs
  BY Names
<1>2. /\ lock' \in Procs \cup {Free}
      /\ pc' \in [Procs -> LockedSteps \cup {"idle", "lock"}]
      /\ act' \in [Procs -> Slots \cup {"none"}]
      /\ job' \in [Procs -> Jobs]
  BY DEF ProcessesOK, Take
<1>3. \A q \in Procs : pc'[q] \in LockedSteps <=> lock' = q
  BY <1>1 DEF ProcessesOK, Take
<1> QED
  BY <1>2, <1>3 DEF ProcessesOK, Only, Take

-----------------------------------------------------------------------------
(* What a step does not disturb.                                           *)

\* No marker, slot or misreading changed.
LEMMA MarkersFrame ==
    ASSUME MarkersSound, UNCHANGED <<slot, inflight, rolling, misread>>
    PROVE  MarkersSound' /\ (RollbackPending' <=> RollbackPending)
BY DEF MarkersSound, TargetOk, SlotWorks, RollbackPending

\* Nothing that probation.json is about changed.
LEMMA ProbationFrame ==
    ASSUME ProbationSound,
           UNCHANGED <<slot, inflight, rolling, link, synced, probation, disk, partial, misread>>
    PROVE  ProbationSound'
BY DEF ProbationSound, TargetOk, SlotWorks, RollbackPending, DiskOf

\* There is no probation.
LEMMA NoProbationSound ==
    ASSUME probation' = NoProbation PROVE ProbationSound'
BY DEF ProbationSound

\* The live slot is sound where the link is on disk, works and is covered.
LEMMA LiveSoundNext ==
    ASSUME synced' = link', SlotWorks(link)', Covered(link)'
    PROVE  LiveSound'
BY DEF LiveSound, Covered, SlotWorks

\* The timer's old view is harmless while the link and the markers stay.
LEMMA TimerFrame ==
    ASSUME TimerSound, UNCHANGED <<inflight, rolling, link>>,
           pc'[Timer] \in {"lock", "resume"} =>
              pc[Timer] \in {"lock", "resume"} /\ act'[Timer] = act[Timer]
    PROVE  TimerSound'
BY DEF TimerSound

\* It is harmless where no rollback is marked, or an upgrade is.
LEMMA TimerSoundNext ==
    ASSUME FilesOK', ~RollbackPending' \/ inflight'[link'] # 0, Sound(Timer)'
    PROVE  TimerSound'
<1> SUFFICES ASSUME pc'[Timer] \in {"lock", "resume"}, rolling'[act'[Timer]] # NoRollback,
                    ~RollbackPending'
             PROVE  FALSE
  BY DEF TimerSound
<1>1. act'[Timer] \in Slots
  BY DEF Sound, Informed
<1> QED
  BY <1>1 DEF RollbackPending

\* The waiting processes, and the files a step under the lock leaves alone.
LEMMA QuietStep ==
    ASSUME Safe, NEW p \in Procs, pc[p] \in LockedSteps \ {"swapFile", "swapSync"},
           ProcessesOK', Only(p), pc'[p] \notin {"lock", "resume"},
           UNCHANGED <<slots, probation, disk, partial, misread>>,
           stash' \in Disks, blocklist' \subseteq Released, interrupted' \subseteq Released,
           Sound(p)'
    PROVE  Safe'
<1>1. FilesOK'
  BY DEF Safe, FilesOK, slots
<1>2. MarkersSound' /\ ProbationSound'
  BY MarkersFrame, ProbationFrame DEF Safe, slots
<1>3. synced' = link'
  BY LinkSynced DEF Safe, slots
<1>4. LiveSound'
  <2>1. SlotWorks(link)' /\ Covered(link)'
    BY DEF Safe, LiveSound, slots, SlotWorks, Covered
  <2> QED
    BY <1>3, <2>1, LiveSoundNext
<1>5. CrashConsistent'
  BY DEF Safe, CrashConsistent, RollbackPending, DiskOf, slots
<1>6. TimerSound'
  <2>1. pc'[Timer] \in {"lock", "resume"} =>
           pc[Timer] \in {"lock", "resume"} /\ act'[Timer] = act[Timer]
    BY Names DEF Only
  <2> QED
    BY <2>1, TimerFrame DEF Safe, slots
<1>7. \A q \in Procs : Sound(q)'
  BY OthersSound
<1> QED
  BY <1>1, <1>2, <1>4, <1>5, <1>6, <1>7 DEF Safe

\* A process ends under the lock.
LEMMA QuietEnd ==
    ASSUME Safe, NEW p \in Procs, pc[p] \in LockedSteps \ {"swapFile", "swapSync"},
           End(p), UNCHANGED <<slots, probation, disk, partial>>,
           stash' \in Disks, blocklist' \subseteq Released, interrupted' \subseteq Released
    PROVE  Safe'
<1>1. ProcessesOK' /\ Only(p) /\ pc'[p] = "idle" /\ UNCHANGED misread
  BY ExitShape DEF Safe, End
<1>2. Sound(p)'
  BY <1>1, WaitingSoundNext
<1> QED
  BY <1>1, <1>2, QuietStep

\* A process that does nothing stays sound while the files it looked at stay.
LEMMA SoundFrame ==
    ASSUME NEW q \in Procs, Sound(q),
           UNCHANGED <<slot, inflight, rolling, link, probation, disk, partial, misread>>,
           pc'[q] = pc[q], act'[q] = act[q], job'[q] = job[q]
    PROVE  Sound(q)'
<1>1. RollbackPending' <=> RollbackPending
  BY DEF RollbackPending
<1>2. (InUpgrade(q)' <=> InUpgrade(q)) /\ (InRollback(q)' <=> InRollback(q))
  BY DEF InUpgrade, InRollback
<1>3. \A s : (SlotWorks(s)' <=> SlotWorks(s))
  BY DEF SlotWorks
<1>4. \A v : DiskOf(v)' = DiskOf(v)
  BY DEF DiskOf
<1>5. Preparing(q)' /\ Swapping(q)'
  BY <1>1, <1>2, <1>3 DEF Sound, Preparing, Swapping
<1>6. Upgraded(q)' /\ RolledBack(q)'
  BY <1>1, <1>2, <1>4 DEF Sound, Upgraded, RolledBack
<1>7. RollingOut(q)' /\ Checking(q)' /\ Informed(q)'
  BY <1>1, <1>2, <1>3 DEF Sound, RollingOut, Checking, Informed
<1> QED
  BY <1>5, <1>6, <1>7 DEF Sound

-----------------------------------------------------------------------------
(* Starting, waiting and taking the lock.                                  *)

\* The initial state is sound.
LEMMA InitSafe ==
    ASSUME Init PROVE Safe
<1>1. MaxVersion \in Nat \ {0} /\ Schema[1] \in {Schema[v] : v \in Versions}
  BY Names, VersionAssumption
<1>2. 1 \in Versions /\ disk \in Disks /\ stash \in Disks
  <2>1. disk = [inputs |-> Schema[1], generated |-> 1, installed |-> 1]
    BY DEF Init, DiskOf
  <2>2. stash = [inputs |-> Schema[1], generated |-> 0, installed |-> 1]
    BY <2>1 DEF Init
  <2> QED
    BY <2>1, <2>2, <1>1, Names DEF Disks
<1>3. FilesOK
  <2>1. slot \in [Slots -> Venvs]
    BY <1>2 DEF Init, Venvs, NoVenv
  <2> QED
    BY <1>2, <2>1 DEF Init, FilesOK, Slots
<1>4. ProcessesOK
  BY NoJobType, Names DEF Init, ProcessesOK, LockedSteps
<1>5. MarkersSound /\ ProbationSound /\ LiveSound /\ CrashConsistent /\ TimerSound
  <2>1. slot["a"] = [ver |-> 1, proven |-> TRUE] /\ "a" \in Slots
    BY DEF Init, Slots
  <2>2. MarkersSound /\ ProbationSound
    BY DEF Init, MarkersSound, ProbationSound
  <2>3. LiveSound
    BY <2>1 DEF Init, LiveSound, SlotWorks, Covered
  <2>4. CrashConsistent /\ TimerSound
    BY <2>1, Names DEF Init, CrashConsistent, TimerSound
  <2> QED
    BY <2>2, <2>3, <2>4
<1>6. \A q \in Procs : Sound(q)
  BY WaitingSound DEF Init
<1> QED
  BY <1>3, <1>4, <1>5, <1>6 DEF Safe

\* load_active_slot only mends active-slot.
LEMMA StartSafe ==
    ASSUME Safe, NEW p \in Procs, Start(p) PROVE Safe'
<1>1. UNCHANGED <<slot, inflight, rolling, link, synced, probation, disk, partial, misread>>
  BY DEF Start, Load, data
<1>2. /\ pc' = [pc EXCEPT ![p] = "lock"] /\ act' = [act EXCEPT ![p] = link]
      /\ pc[p] = "idle" /\ UNCHANGED <<lock, job>> /\ link \in Slots
  BY DEF Start, Safe, FilesOK
<1>3. FilesOK'
  BY <1>1, <1>2 DEF Safe, FilesOK, Start, Load, counts, data
<1>4. ProcessesOK'
  BY <1>2 DEF Safe, ProcessesOK, LockedSteps
<1>5. MarkersSound' /\ ProbationSound'
  BY <1>1, MarkersFrame, ProbationFrame DEF Safe
<1>6. LiveSound'
  <2>1. SlotWorks(link)' /\ SlotWorks(synced)' /\ Covered(link)' /\ Covered(synced)'
    BY <1>1 DEF Safe, LiveSound, SlotWorks, Covered
  <2>2. \A q \in Procs : pc[q] \in {"swapFile", "swapSync"} => pc'[q] = pc[q]
    BY <1>2 DEF Safe, ProcessesOK
  <2> QED
    BY <1>1, <2>1, <2>2 DEF Safe, LiveSound
<1>7. CrashConsistent'
  BY <1>1 DEF Safe, CrashConsistent, RollbackPending, DiskOf
<1>8. TimerSound'
  BY <1>1, <1>2, Names DEF Safe, TimerSound, ProcessesOK
<1>9. ASSUME NEW q \in Procs PROVE Sound(q)'
  <2>1. CASE q = p
    BY <2>1, <1>2, WaitingSoundNext DEF Safe, ProcessesOK
  <2>2. CASE q # p
    BY <2>2, <1>1, <1>2, SoundFrame DEF Safe, ProcessesOK
  <2> QED
    BY <2>1, <2>2
<1> QED
  BY <1>3, <1>4, <1>5, <1>6, <1>7, <1>8, <1>9 DEF Safe

\* A process that ends before it has the lock.
LEMMA DeclineSafe ==
    ASSUME Safe, NEW p \in Procs, Decline(p) PROVE Safe'
<1>1. UNCHANGED <<slots, probation, counts, data, misread>> /\ pc[p] = "lock"
  BY DEF Decline, End
<1>2. ProcessesOK' /\ Only(p) /\ pc'[p] = "idle"
  BY ExitShape DEF Safe, Decline, End
<1>3. FilesOK'
  BY <1>1 DEF Safe, FilesOK, slots, counts, data
<1>4. MarkersSound' /\ ProbationSound'
  BY <1>1, MarkersFrame, ProbationFrame DEF Safe, slots, data
<1>5. LiveSound'
  <2>1. SlotWorks(link)' /\ SlotWorks(synced)' /\ Covered(link)' /\ Covered(synced)'
    BY <1>1 DEF Safe, LiveSound, SlotWorks, Covered, slots
  <2>2. \A q \in Procs : pc[q] \in {"swapFile", "swapSync"} => pc'[q] = pc[q]
    BY <1>1, <1>2 DEF Only
  <2> QED
    BY <1>1, <2>1, <2>2 DEF Safe, LiveSound, slots
<1>6. CrashConsistent'
  BY <1>1 DEF Safe, CrashConsistent, RollbackPending, DiskOf, slots, data
<1>7. TimerSound'
  <2>1. pc'[Timer] \in {"lock", "resume"} =>
           pc[Timer] \in {"lock", "resume"} /\ act'[Timer] = act[Timer]
    BY <1>2, Names DEF Only
  <2> QED
    BY <1>1, <2>1, TimerFrame DEF Safe, slots
<1>8. ASSUME NEW q \in Procs PROVE Sound(q)'
  <2>1. CASE q = p
    BY <2>1, <1>2, WaitingSoundNext
  <2>2. CASE q # p
    BY <2>2, <1>1, <1>2, SoundFrame DEF Safe, slots, data, Only
  <2> QED
    BY <2>1, <2>2
<1> QED
  BY <1>3, <1>4, <1>5, <1>6, <1>7, <1>8, <1>2 DEF Safe

\* What a process thinks stale is not what covers the live slot.
LEMMA ForgottenSound ==
    ASSUME Safe, NEW p \in Procs, act[p] \in Slots, NoProbationFor(act[p]), ~RollbackPending,
           ForgetProbation(p), synced = link, UNCHANGED <<inflight, rolling>>,
           slot'[link] = slot[link]
    PROVE  /\ Covered(link)' \/ link' # link
           /\ misread' \in BOOLEAN /\ (~misread' => ~misread)
           /\ probation' = NoProbation
<1>1. /\ misread' \in BOOLEAN /\ (~misread' => ~misread)
      /\ probation' = NoProbation
  BY DEF ForgetProbation, Safe, FilesOK
<1>2. SUFFICES ASSUME link' = link, ~misread', ~slot[link].proven
               PROVE  inflight[link] # 0 \/ rolling[Other(link)] # NoRollback
  BY <1>1 DEF Covered
<1>3. link \in Slots
  BY DEF Safe, FilesOK
<1>4. CASE probation = NoProbation
  <2>1. probation.prev # Other(link)
    BY <1>3, <1>4, Names, TwoSlots
  <2> QED
    BY <1>1, <1>2, <2>1 DEF Safe, LiveSound, Covered
<1>5. CASE probation # NoProbation
  <2>1. act[p] = link
    BY <1>2, <1>5 DEF ForgetProbation
  <2>2. probation.prev = link
    BY <2>1, <1>5 DEF NoProbationFor, StaleProbation
  <2> QED
    BY <2>2, <1>5 DEF Safe, ProbationSound
<1> QED
  BY <1>4, <1>5

\* An upgrade begins where no marker of its slot stands and no rollback is open.
LEMMA TakeForUpgradeSafe ==
    ASSUME Safe, NEW p \in Procs, TakeForUpgrade(p) PROVE Safe'
<1>1. PICK v \in Released, mode \in {"run", "force"} :
         PolicyAllows(v, mode) /\ BeginUpgrade(p, v)
  BY DEF TakeForUpgrade
<1> DEFINE locals == [ver |-> v, to |-> Other(act[p]), prev |-> act[p], count |-> 0]
<1>2. /\ p # Timer /\ pc[p] = "lock" /\ inflight[act[p]] = 0 /\ ~RollbackPending
      /\ NoProbationFor(act[p]) /\ act[p] \in Slots /\ lock = Free
  BY <1>1 DEF TakeForUpgrade, BeginUpgrade, Take, Safe, Sound, Informed
<1>3. locals \in Jobs
  BY <1>2, TwoSlots, Names DEF Jobs
<1>4. Take(p, "prepare", locals) /\ ForgetProbation(p)
  BY <1>1 DEF BeginUpgrade
<1> HIDE DEF locals
<1>5. ProcessesOK' /\ Only(p) /\ pc'[p] = "prepare" /\ act' = act /\ job'[p] = locals
  BY <1>3, <1>4, TakeShape DEF LockedSteps, Safe
<1>6. UNCHANGED <<slots, counts, data>>
  BY <1>4 DEF Take
<1>7. synced = link
  BY <1>2, FreeSynced DEF Safe
<1>8. /\ Covered(link)' /\ misread' \in BOOLEAN /\ (~misread' => ~misread)
      /\ probation' = NoProbation
  BY <1>2, <1>4, <1>6, <1>7, ForgottenSound DEF slots
<1>9. FilesOK'
  BY <1>6, <1>8 DEF Safe, FilesOK, slots, counts, data
<1>10. MarkersSound'
  BY <1>6, <1>8 DEF Safe, MarkersSound, TargetOk, SlotWorks, slots
<1>11. ProbationSound'
  BY <1>8, NoProbationSound
<1>12. LiveSound'
  <2>1. SlotWorks(link)'
    BY <1>6 DEF Safe, LiveSound, SlotWorks, slots
  <2> QED
    BY <1>6, <1>7, <1>8, <2>1, LiveSoundNext DEF slots
<1>13. CrashConsistent'
  BY <1>6 DEF Safe, CrashConsistent, RollbackPending, DiskOf, slots, data
<1>14. TimerSound'
  BY <1>2, <1>5, <1>6, Names, TimerFrame DEF Safe, slots, Only
<1>15. Sound(p)'
  <2>1. InUpgrade(p)' /\ act'[p] = job'[p].prev /\ job'[p].ver \in Released
    BY <1>2, <1>5 DEF InUpgrade, locals
  <2>2. ~RollbackPending' /\ inflight'[act'[p]] = 0
    BY <1>2, <1>5, <1>6 DEF RollbackPending, slots
  <2> QED
    BY <1>2, <1>5, <1>8, <2>1, <2>2
       DEF Sound, Preparing, Swapping, UpgradeSteps, Upgraded, RolledBack, RollbackSteps,
           RollingOut, Checking, Informed
<1>16. \A q \in Procs : Sound(q)'
  <2>1. ASSUME NEW q \in Procs, q # p PROVE Sound(q)'
    <3>1. pc[q] \in {"idle", "lock"}
      BY <1>2, Names DEF Safe, ProcessesOK
    <3>2. pc[q] # "idle" => act[q] \in Slots
      BY DEF Safe, Sound, Informed
    <3> QED
      BY <2>1, <3>1, <3>2, <1>5, WaitingSoundNext DEF Only
  <2> QED
    BY <2>1, <1>15
<1> QED
  BY <1>5, <1>9, <1>10, <1>11, <1>12, <1>13, <1>14, <1>16 DEF Safe

\* check-probation takes the lock.
LEMMA TakeForCheckSafe ==
    ASSUME Safe, TakeForCheck PROVE Safe'
<1>1. /\ pc[Timer] = "lock" /\ Take(Timer, "resume", NoJob)
      /\ UNCHANGED <<probation, misread>> /\ Timer \in Procs /\ lock = Free
  BY Names DEF TakeForCheck, Take
<1>2. /\ ProcessesOK' /\ Only(Timer) /\ pc'[Timer] = "resume" /\ act' = act
      /\ job'[Timer] = NoJob
  BY <1>1, NoJobType, TakeShape DEF LockedSteps, Safe
<1>3. UNCHANGED <<slots, counts, data>>
  BY <1>1 DEF Take
<1>4. FilesOK'
  BY <1>1, <1>3 DEF Safe, FilesOK, slots, counts, data
<1>5. MarkersSound' /\ ProbationSound'
  BY <1>1, <1>3, MarkersFrame, ProbationFrame DEF Safe, slots, data
<1>6. LiveSound'
  <2>1. SlotWorks(link)' /\ Covered(link)'
    BY <1>1, <1>3 DEF Safe, LiveSound, SlotWorks, Covered, slots
  <2> QED
    BY <1>1, <1>3, <2>1, FreeSynced, LiveSoundNext DEF Safe, slots
<1>7. CrashConsistent'
  BY <1>3 DEF Safe, CrashConsistent, RollbackPending, DiskOf, slots, data
<1>8. TimerSound'
  BY <1>1, <1>2, <1>3, TimerFrame DEF Safe, slots
<1>9. \A q \in Procs : Sound(q)'
  <2>1. ASSUME NEW q \in Procs, q # Timer PROVE Sound(q)'
    <3>1. pc[q] \in {"idle", "lock"}
      BY <1>1, Names DEF Safe, ProcessesOK
    <3>2. pc[q] # "idle" => act[q] \in Slots
      BY DEF Safe, Sound, Informed
    <3> QED
      BY <2>1, <3>1, <3>2, <1>2, WaitingSoundNext DEF Only
  <2>2. act'[Timer] \in Slots
    BY <1>1, <1>2 DEF Safe, Sound, Informed
  <2>3. Sound(Timer)'
    BY <1>2, <2>2
       DEF Sound, Preparing, Swapping, UpgradeSteps, Upgraded, RolledBack, RollbackSteps,
           RollingOut, Checking, Informed
  <2> QED
    BY <2>1, <2>3
<1> QED
  BY <1>2, <1>4, <1>5, <1>6, <1>7, <1>8, <1>9 DEF Safe

-----------------------------------------------------------------------------
(* Everyone else: clear-blocklist, an accepted release, the six hours, and *)
(* faults.                                                                 *)

\* clear-blocklist only mends active-slot and forgets a version.
LEMMA ClearSafe ==
    ASSUME Safe, NEW v \in Released, Clear(v) PROVE Safe'
<1>1. /\ UNCHANGED <<slot, inflight, rolling, link, synced, probation, disk, stash, partial>>
      /\ UNCHANGED <<lock, pc, act, job, misread>> /\ activeFile' = link
      /\ blocklist' \subseteq blocklist /\ interrupted' \subseteq interrupted
  BY DEF Clear, Load, data
<1>2. FilesOK'
  BY <1>1 DEF Safe, FilesOK
<1>3. ProcessesOK'
  BY <1>1 DEF Safe, ProcessesOK
<1>4. MarkersSound' /\ ProbationSound'
  BY <1>1, MarkersFrame, ProbationFrame DEF Safe
<1>5. LiveSound'
  BY <1>1 DEF Safe, LiveSound, SlotWorks, Covered
<1>6. CrashConsistent' /\ TimerSound'
  BY <1>1 DEF Safe, CrashConsistent, TimerSound, RollbackPending, DiskOf
<1>7. \A q \in Procs : Sound(q)'
  BY <1>1, SoundFrame DEF Safe
<1> QED
  BY <1>2, <1>3, <1>4, <1>5, <1>6, <1>7 DEF Safe

\* A command that accepts the release on probation.
LEMMA InteractSafe ==
    ASSUME Safe, Interact PROVE Safe'
<1> DEFINE s == Other(probation.prev)
<1>1. /\ probation # NoProbation /\ probation' = NoProbation
      /\ slot' = [slot EXCEPT ![s].proven = TRUE]
      /\ UNCHANGED <<inflight, rolling, link, synced, activeFile, blocklist, interrupted>>
      /\ UNCHANGED <<disk, stash, partial, lock, pc, act, job, misread>>
  BY DEF Interact, counts, data
<1>2. probation.prev \in Slots /\ s \in Slots /\ Other(s) = probation.prev
  BY <1>1, TwoSlots DEF Safe, FilesOK, Probations
<1>3. /\ slot' \in [Slots -> Venvs]
      /\ \A t \in Slots : slot'[t].ver = slot[t].ver /\ (slot[t].proven => slot'[t].proven)
      /\ slot'[s].proven
  BY <1>1, <1>2 DEF Safe, FilesOK, Venvs
<1> HIDE DEF s
<1>4. \A t \in Slots : (SlotWorks(t)' <=> SlotWorks(t)) /\ (TargetOk(t)' <=> TargetOk(t))
  BY <1>1, <1>3 DEF SlotWorks, TargetOk
<1>5. FilesOK'
  BY <1>1, <1>3 DEF Safe, FilesOK
<1>6. ProcessesOK'
  BY <1>1 DEF Safe, ProcessesOK
<1>7. link \in Slots /\ synced \in Slots
  BY DEF Safe, FilesOK
<1>8. MarkersSound'
  BY <1>1, <1>3, <1>4, TwoSlots DEF Safe, MarkersSound
<1>9. ProbationSound'
  BY <1>1, NoProbationSound
<1>10. LiveSound'
  <2>1. ASSUME NEW t \in Slots, Covered(t) PROVE Covered(t)'
    BY <2>1, <1>1, <1>2, <1>3, TwoSlots DEF Covered
  <2> QED
    BY <2>1, <1>1, <1>4, <1>7 DEF Safe, LiveSound
<1>11. (RollbackPending' <=> RollbackPending) /\ \A v : DiskOf(v)' = DiskOf(v)
  BY <1>1 DEF RollbackPending, DiskOf
<1>12. CrashConsistent' /\ TimerSound'
  BY <1>1, <1>3, <1>7, <1>11 DEF Safe, CrashConsistent, TimerSound
<1>13. ASSUME NEW q \in Procs PROVE Sound(q)'
  <2>1. (InUpgrade(q)' <=> InUpgrade(q)) /\ (InRollback(q)' <=> InRollback(q))
    BY <1>1 DEF InUpgrade, InRollback
  <2>2. Preparing(q)'
    BY <1>1, <1>4, <1>11, <2>1, TwoSlots DEF Safe, Sound, Preparing, InUpgrade
  <2>3. Swapping(q)'
    BY <1>1, <1>4, <1>11, <2>1, TwoSlots DEF Safe, Sound, Swapping, InUpgrade
  <2>4. Upgraded(q)'
    <3> SUFFICES ASSUME pc[q] \in UpgradeSteps,
                        pc[q] \in {"apply", "applying"} => ~InRollback(q)
                 PROVE  Upgraded(q)'
      BY <1>1, <2>1 DEF Upgraded
    <3>1. pc[q] = "unmark"
      BY <1>1 DEF Safe, Sound, Upgraded
    <3>2. /\ InUpgrade(q) /\ act[q] = job[q].to /\ act[q] = link
          /\ ~RollbackPending /\ inflight[link] # 0 /\ probation.prev = job[q].prev
          /\ disk = DiskOf(slot[link].ver)
      BY <1>1, <3>1 DEF Safe, Sound, Upgraded
    <3>3. s = link
      BY <3>2, <1>2 DEF InUpgrade, s
    <3> QED
      BY <1>1, <1>3, <1>7, <1>11, <2>1, <3>1, <3>2, <3>3 DEF Upgraded
  <2>5. RolledBack(q)'
    BY <1>1, <1>3, <1>11, <2>1 DEF Safe, Sound, RolledBack, RollbackSteps, InRollback
  <2>6. RollingOut(q)'
    BY <1>1, <1>3, <1>4, <1>11, <2>1 DEF Safe, Sound, RollingOut, InRollback
  <2>7. Checking(q)'
    <3>1. pc[q] \in {"promote", "checking"} => job[q].prev \in Slots
      BY <1>7, TwoSlots DEF Safe, Sound, Checking
    <3> QED
      BY <1>1, <1>3, <1>4, <1>7, <1>11, <3>1 DEF Safe, Sound, Checking
  <2>8. Informed(q)'
    BY <1>1 DEF Safe, Sound, Informed
  <2> QED
    BY <2>2, <2>3, <2>4, <2>5, <2>6, <2>7, <2>8 DEF Sound
<1> QED
  BY <1>5, <1>6, <1>8, <1>9, <1>10, <1>12, <1>13 DEF Safe

\* The six hours pass.
LEMMA ExpireSafe ==
    ASSUME Safe, Expire PROVE Safe'
<1>1. /\ probation # NoProbation /\ probation' = [probation EXCEPT !.expired = TRUE]
      /\ UNCHANGED <<slot, inflight, rolling, link, synced, activeFile, blocklist, interrupted>>
      /\ UNCHANGED <<disk, stash, partial, lock, pc, act, job, misread>>
  BY DEF Expire, slots, counts, data
<1>2. probation \in Probations
  BY <1>1 DEF Safe, FilesOK
<1>3. /\ probation' \in Probations /\ probation'.ver = probation.ver
      /\ probation'.prev = probation.prev /\ probation' # NoProbation
  <2>1. probation' \in Probations /\ probation'.ver = probation.ver
        /\ probation'.prev = probation.prev
    BY <1>1, <1>2 DEF Probations
  <2> QED
    BY <1>2, <2>1, Names DEF Probations
<1>4. FilesOK'
  BY <1>1, <1>3 DEF Safe, FilesOK
<1>5. ProcessesOK'
  BY <1>1 DEF Safe, ProcessesOK
<1>6. MarkersSound'
  BY <1>1, MarkersFrame DEF Safe
<1>7. ProbationSound'
  BY <1>1, <1>3
     DEF Safe, ProbationSound, SlotWorks, TargetOk, RollbackPending, DiskOf
<1>8. LiveSound'
  BY <1>1, <1>3 DEF Safe, LiveSound, SlotWorks, Covered
<1>9. CrashConsistent' /\ TimerSound'
  BY <1>1 DEF Safe, CrashConsistent, TimerSound, RollbackPending, DiskOf
<1>10. ASSUME NEW q \in Procs PROVE Sound(q)'
  <2>1. (InUpgrade(q)' <=> InUpgrade(q)) /\ (InRollback(q)' <=> InRollback(q))
    BY <1>1 DEF InUpgrade, InRollback
  <2>2. (RollbackPending' <=> RollbackPending) /\ \A v : DiskOf(v)' = DiskOf(v)
    BY <1>1 DEF RollbackPending, DiskOf
  <2>3. \A s : (SlotWorks(s)' <=> SlotWorks(s))
    BY <1>1 DEF SlotWorks
  <2>4. Preparing(q)' /\ Swapping(q)'
    BY <1>1, <2>1, <2>2, <2>3 DEF Safe, Sound, Preparing, Swapping
  <2>5. Upgraded(q)'
    BY <1>1, <1>3, <2>1, <2>2 DEF Safe, Sound, Upgraded
  <2>6. RolledBack(q)'
    BY <1>1, <2>1, <2>2 DEF Safe, Sound, RolledBack
  <2>7. RollingOut(q)' /\ Checking(q)' /\ Informed(q)'
    BY <1>1, <2>1, <2>2, <2>3 DEF Safe, Sound, RollingOut, Checking, Informed
  <2> QED
    BY <2>4, <2>5, <2>6, <2>7 DEF Sound
<1> QED
  BY <1>4, <1>5, <1>6, <1>7, <1>8, <1>9, <1>10 DEF Safe

\* A swap under way is marked.
LEMMA SwapIsMarked ==
    ASSUME Safe, synced # link
    PROVE  RollbackPending \/ (inflight[link] # 0 /\ probation = NoProbation)
<1>1. PICK p \in Procs : pc[p] \in {"swapFile", "swapSync"}
  BY DEF Safe, LiveSound
<1>2. Swapping(p) /\ link \in Slots
  BY <1>1 DEF Safe, Sound, FilesOK
<1>3. /\ link = job[p].to
      /\ \/ probation = NoProbation /\ inflight[job[p].to] # 0
         \/ rolling[job[p].to] # NoRollback
  BY <1>1, <1>2 DEF Swapping
<1> QED
  BY <1>2, <1>3 DEF RollbackPending

\* A kill, of whichever process, lets the link reach the disk.
LEMMA KillSafe ==
    ASSUME Safe, NEW p \in Procs, Kill(p) PROVE Safe'
<1>1. /\ UNCHANGED <<slot, inflight, rolling, link, activeFile, probation, counts, data, misread>>
      /\ synced' = link
  BY DEF Kill, End
<1>2. ProcessesOK' /\ Only(p) /\ pc'[p] = "idle"
  BY ExitShape DEF Safe, Kill, End
<1>3. FilesOK'
  BY <1>1 DEF Safe, FilesOK, counts, data
<1>4. MarkersSound' /\ (RollbackPending' <=> RollbackPending)
  BY <1>1, MarkersFrame DEF Safe
<1>5. ProbationSound'
  <2>1. CASE synced = link
    BY <1>1, <2>1, ProbationFrame DEF Safe, data
  <2>2. CASE synced # link
    BY <1>1, <1>4, <2>2, SwapIsMarked
       DEF Safe, ProbationSound, SlotWorks, TargetOk
  <2> QED
    BY <2>1, <2>2
<1>6. LiveSound'
  <2>1. SlotWorks(link)' /\ Covered(link)'
    BY <1>1 DEF Safe, LiveSound, SlotWorks, Covered
  <2> QED
    BY <1>1, <2>1, LiveSoundNext
<1>7. CrashConsistent'
  <2>1. CASE synced = link
    BY <1>1, <1>4, <2>1 DEF Safe, CrashConsistent, DiskOf, data
  <2>2. CASE synced # link
    BY <1>1, <1>4, <2>2, SwapIsMarked DEF CrashConsistent
  <2> QED
    BY <2>1, <2>2
<1>8. TimerSound'
  BY <1>1, <1>2, Names, TimerFrame DEF Safe, Only
<1>9. ASSUME NEW q \in Procs PROVE Sound(q)'
  <2>1. CASE q = p
    BY <2>1, <1>2, WaitingSoundNext
  <2>2. CASE q # p
    BY <2>2, <1>1, <1>2, SoundFrame DEF Safe, data, Only
  <2> QED
    BY <2>1, <2>2
<1> QED
  BY <1>2, <1>3, <1>4, <1>5, <1>6, <1>7, <1>8, <1>9 DEF Safe

\* A power cut may take the link back.
LEMMA PowerCutSafe ==
    ASSUME Safe, PowerCut PROVE Safe'
<1>1. /\ UNCHANGED <<slot, inflight, rolling, activeFile, probation, counts, data, misread>>
      /\ link' \in {link, synced} /\ synced' = link'
      /\ lock' = Free
      /\ pc' = [p \in Procs |-> "idle"]
      /\ act' = [p \in Procs |-> "none"]
      /\ job' = [p \in Procs |-> NoJob]
  BY DEF PowerCut
<1>2. ProcessesOK'
  BY <1>1, Names, NoJobType DEF ProcessesOK, LockedSteps
<1>3. FilesOK'
  BY <1>1 DEF Safe, FilesOK, counts, data
<1>4. MarkersSound' /\ (RollbackPending' <=> RollbackPending)
  BY <1>1, MarkersFrame DEF Safe
<1>5. ProbationSound'
  <2>1. CASE synced = link
    BY <1>1, <2>1, ProbationFrame DEF Safe, data
  <2>2. CASE synced # link
    BY <1>1, <1>4, <2>2, SwapIsMarked
       DEF Safe, ProbationSound, SlotWorks, TargetOk
  <2> QED
    BY <2>1, <2>2
<1>6. LiveSound'
  <2>1. SlotWorks(link)' /\ Covered(link)'
    BY <1>1 DEF Safe, LiveSound, SlotWorks, Covered
  <2> QED
    BY <1>1, <2>1, LiveSoundNext
<1>7. CrashConsistent'
  <2>1. CASE link' = synced
    BY <1>1, <1>4, <2>1 DEF Safe, CrashConsistent, DiskOf, data
  <2>2. CASE link' # synced
    BY <1>1, <1>4, <2>2, SwapIsMarked DEF CrashConsistent
  <2> QED
    BY <2>1, <2>2
<1>8. TimerSound'
  BY <1>1, Names DEF TimerSound
<1>9. \A q \in Procs : Sound(q)'
  BY <1>1, WaitingSoundNext
<1> QED
  BY <1>2, <1>3, <1>4, <1>5, <1>6, <1>7, <1>8, <1>9 DEF Safe

-----------------------------------------------------------------------------
(* upgrade_to.                                                             *)

\* remove_slot of the standby, where the live slot has no marker.
LEMMA RemoveShape ==
    ASSUME FilesOK, NEW s \in Slots, Remove(s)
    PROVE  /\ slot' \in [Slots -> Venvs] /\ inflight' \in [Slots -> Versions \cup {0}]
           /\ rolling' \in [Slots -> Rollbacks \cup {NoRollback}]
           /\ inflight'[s] = 0 /\ rolling'[s] = NoRollback
           /\ \A t \in Slots \ {s} : /\ slot'[t] = slot[t] /\ inflight'[t] = inflight[t]
                                     /\ rolling'[t] = rolling[t]
BY DEF FilesOK, Remove, Venvs, NoVenv

\* What an upgrade knows between prepare and the marker.
LEMMA PreparingFacts ==
    ASSUME Safe, NEW p \in Procs, pc[p] \in {"prepare", "build", "stash", "mark"},
           act[p] = link
    PROVE  /\ link \in Slots /\ job[p].prev = link /\ job[p].to = Other(link)
           /\ job[p].to \in Slots /\ job[p].to # link /\ Other(job[p].to) = link
           /\ job[p].ver \in Released
           /\ probation = NoProbation /\ ~RollbackPending /\ inflight[link] = 0
           /\ rolling = [s \in Slots |-> NoRollback]
           /\ synced = link /\ SlotWorks(link) /\ (~misread => slot[link].proven)
           /\ disk = DiskOf(slot[link].ver) \/ partial
<1>1. link \in Slots
  BY DEF Safe, FilesOK
<1>2. Preparing(p) /\ job[p].ver \in Released
  BY DEF Safe, Sound, Informed
<1>3. /\ job[p].prev = link /\ job[p].to = Other(link)
      /\ probation = NoProbation /\ ~RollbackPending /\ inflight[link] = 0
  BY <1>2 DEF Preparing, InUpgrade
<1>4. rolling = [s \in Slots |-> NoRollback]
  BY <1>3 DEF RollbackPending, Safe, FilesOK
<1>5. synced = link
  BY LinkSynced DEF Safe, LockedSteps
<1>6. ~misread => slot[link].proven
  <2>1. probation.prev # Other(link) /\ rolling[Other(link)] = NoRollback
    BY <1>1, <1>3, <1>4, Names, TwoSlots
  <2> QED
    BY <1>3, <2>1 DEF Safe, LiveSound, Covered
<1>7. SlotWorks(link) /\ (disk = DiskOf(slot[link].ver) \/ partial)
  BY <1>3, <1>5 DEF Safe, LiveSound, CrashConsistent
<1> QED
  BY <1>1, <1>2, <1>3, <1>4, <1>5, <1>6, <1>7, TwoSlots

\* A standby that is removed, or built, before the marker changes nothing that
\* is relied on.
LEMMA StandbyStep ==
    ASSUME Safe, NEW p \in Procs, pc[p] \in {"prepare", "build", "stash", "mark"},
           act[p] = link,
           NEW s \in Slots, s # link, slot' \in [Slots -> Venvs], slot'[link] = slot[link],
           inflight' = [t \in Slots |-> 0], rolling' = [t \in Slots |-> NoRollback],
           UNCHANGED <<link, synced, activeFile, probation, disk, partial, stash, misread>>,
           UNCHANGED counts, ProcessesOK', Only(p), Sound(p)'
    PROVE  Safe'
<1>1. /\ link \in Slots /\ probation = NoProbation /\ synced = link /\ SlotWorks(link)
      /\ ~misread => slot[link].proven
      /\ disk = DiskOf(slot[link].ver) \/ partial
  BY PreparingFacts
<1>2. FilesOK'
  BY <1>1 DEF Safe, FilesOK, counts
<1>3. MarkersSound' /\ ~RollbackPending'
  BY DEF MarkersSound, RollbackPending
<1>4. ProbationSound'
  BY <1>1, NoProbationSound
<1>5. LiveSound'
  <2>1. SlotWorks(link)' /\ Covered(link)'
    BY <1>1 DEF SlotWorks, Covered
  <2> QED
    BY <1>1, <2>1, LiveSoundNext
<1>6. CrashConsistent'
  BY <1>1 DEF CrashConsistent, DiskOf
<1>7. \A q \in Procs : Sound(q)'
  BY OthersSound DEF LockedSteps
<1>8. TimerSound'
  BY <1>2, <1>3, <1>7, Names, TimerSoundNext
<1> QED
  BY <1>2, <1>3, <1>4, <1>5, <1>6, <1>7, <1>8 DEF Safe

\* remove_slot of an upgrade's standby.
LEMMA RemoveStandby ==
    ASSUME Safe, NEW p \in Procs, pc[p] \in {"prepare", "build", "stash", "mark"},
           MayRemove(p, job[p].to), Remove(job[p].to),
           UNCHANGED <<link, synced, activeFile, probation, counts, data, misread>>,
           ProcessesOK', Only(p), Sound(p)'
    PROVE  Safe'
<1>1. /\ Preparing(p) /\ act[p] \in Slots /\ link \in Slots
  BY DEF Safe, Sound, Informed, FilesOK
<1>2. act[p] = link /\ job[p].to \in Slots
  BY <1>1, TwoSlots DEF Preparing, InUpgrade, MayRemove
<1>3. /\ job[p].to # link /\ \A t \in Slots : t = link \/ t = job[p].to
      /\ inflight[link] = 0 /\ rolling = [s \in Slots |-> NoRollback]
  BY <1>2, PreparingFacts, TwoSlots
<1>4. /\ slot' \in [Slots -> Venvs] /\ slot'[link] = slot[link]
      /\ inflight' \in [Slots -> Versions \cup {0}]
      /\ rolling' \in [Slots -> Rollbacks \cup {NoRollback}]
      /\ \A t \in Slots : inflight'[t] = 0 /\ rolling'[t] = NoRollback
  BY <1>1, <1>2, <1>3, RemoveShape DEF Safe
<1>5. inflight' = [t \in Slots |-> 0] /\ rolling' = [t \in Slots |-> NoRollback]
  BY <1>4
<1> QED
  BY <1>2, <1>3, <1>4, <1>5, StandbyStep DEF data

\* A standby that may not be removed ends the upgrade.
LEMMA PrepareSafe ==
    ASSUME Safe, NEW p \in Procs, Prepare(p) PROVE Safe'
<1>1. /\ pc[p] = "prepare"
      /\ UNCHANGED <<link, synced, activeFile, probation, counts, data>>
  BY DEF Prepare
<1>2. CASE MayRemove(p, job[p].to) /\ Remove(job[p].to) /\ Work(p, "build")
  <2>1. /\ ProcessesOK' /\ Only(p) /\ pc'[p] = "build" /\ act' = act /\ job' = job
        /\ UNCHANGED misread
    BY <1>1, <1>2, WorkShape DEF Safe, LockedSteps
  <2>2. /\ InUpgrade(p) /\ act[p] = job[p].prev /\ inflight[act[p]] = 0
        /\ act[p] \in Slots /\ job[p].ver \in Released /\ ~RollbackPending
        /\ link \in Slots /\ probation = NoProbation
    BY <1>1 DEF Safe, Sound, Preparing, Informed, FilesOK
  <2>3. act[p] = link /\ job[p].to \in Slots
    BY <1>2, <2>2, TwoSlots DEF MayRemove, InUpgrade
  <2>4. rolling' = [s \in Slots |-> NoRollback] /\ \A s \in Slots : inflight'[s] = 0
    BY <1>2, <2>2, <2>3, TwoSlots, RemoveShape DEF Safe, RollbackPending, InUpgrade
  <2>5. Preparing(p)' /\ Informed(p)'
    BY <1>1, <2>1, <2>2, <2>3, <2>4
       DEF Preparing, InUpgrade, Informed, RollbackPending
  <2>6. Sound(p)'
    BY <2>1, <2>5, SoundAtNext
  <2> QED
    BY <1>1, <1>2, <2>1, <2>6, RemoveStandby
<1>3. CASE End(p) /\ UNCHANGED <<slot, inflight, rolling>>
  BY <1>1, <1>3, QuietEnd DEF Safe, FilesOK, slots, counts, data, LockedSteps
<1> QED
  BY <1>2, <1>3 DEF Prepare

\* The new venv stands, unproven and unmarked.
LEMMA BuiltSafe ==
    ASSUME Safe, NEW p \in Procs, Built(p) PROVE Safe'
<1>1. /\ pc[p] = "build"
      /\ slot' = [slot EXCEPT ![job[p].to] = [ver |-> job[p].ver, proven |-> FALSE]]
      /\ Work(p, "stash")
      /\ UNCHANGED <<inflight, rolling, link, synced, activeFile, probation, counts, data>>
  BY DEF Built
<1>2. /\ ProcessesOK' /\ Only(p) /\ pc'[p] = "stash" /\ act' = act /\ job' = job
      /\ UNCHANGED misread
  BY <1>1, WorkShape DEF Safe, LockedSteps
<1>3. act[p] = link /\ inflight[job[p].to] = 0 /\ InUpgrade(p) /\ act[p] = job[p].prev
  BY <1>1 DEF Safe, Sound, Preparing
<1>4. /\ link \in Slots /\ job[p].to = Other(link) /\ job[p].to \in Slots /\ job[p].to # link
      /\ job[p].ver \in Released /\ job[p].ver \in Versions /\ job[p].ver # 0
      /\ probation = NoProbation /\ ~RollbackPending /\ inflight[link] = 0
      /\ rolling = [s \in Slots |-> NoRollback]
  BY <1>1, <1>3, PreparingFacts, Names
<1>5. /\ slot' \in [Slots -> Venvs] /\ slot'[link] = slot[link]
      /\ slot'[job[p].to].ver # 0
  BY <1>1, <1>4 DEF Safe, FilesOK, Venvs
<1>6. inflight' = [t \in Slots |-> 0] /\ rolling' = [t \in Slots |-> NoRollback]
  BY <1>1, <1>3, <1>4, TwoSlots DEF Safe, FilesOK
<1>7. Sound(p)'
  <2>1. Preparing(p)' /\ Informed(p)'
    BY <1>1, <1>2, <1>3, <1>4, <1>5, <1>6
       DEF Preparing, InUpgrade, Informed, RollbackPending, SlotWorks
  <2> QED
    BY <1>2, <2>1, SoundAtNext
<1> QED
  BY <1>1, <1>2, <1>3, <1>4, <1>5, <1>6, <1>7, StandbyStep DEF data

\* A release that pre-flight refuses is removed, then blocklisted.
LEMMA PreflightFailsSafe ==
    ASSUME Safe, NEW p \in Procs, PreflightFails(p) PROVE Safe'
<1>1. /\ pc[p] \in {"build", "mark"} /\ MayRemove(p, job[p].to) /\ Remove(job[p].to)
      /\ Work(p, "blocklist")
      /\ UNCHANGED <<link, synced, activeFile, probation, counts, data>>
  BY DEF PreflightFails
<1>2. /\ ProcessesOK' /\ Only(p) /\ pc'[p] = "blocklist" /\ act' = act /\ job' = job
      /\ UNCHANGED misread
  BY <1>1, WorkShape DEF Safe, LockedSteps
<1>3. Informed(p)'
  BY <1>1, <1>2 DEF Safe, Sound, Informed
<1> QED
  BY <1>1, <1>2, <1>3, SoundAtNext, RemoveStandby

\* One that cannot be installed now is removed.
LEMMA GiveUpSafe ==
    ASSUME Safe, NEW p \in Procs, GiveUp(p) PROVE Safe'
<1>1. /\ pc[p] \in {"build", "stash"} /\ MayRemove(p, job[p].to) /\ Remove(job[p].to)
      /\ End(p) /\ UNCHANGED <<link, synced, activeFile, probation, counts, data>>
  BY DEF GiveUp
<1>2. ProcessesOK' /\ Only(p) /\ pc'[p] = "idle" /\ UNCHANGED misread
  BY <1>1, ExitShape DEF Safe, End
<1> QED
  BY <1>1, <1>2, WaitingSoundNext, RemoveStandby

\* The stash is taken.
LEMMA StashSafe ==
    ASSUME Safe, NEW p \in Procs, Stash(p) PROVE Safe'
<1>1. /\ pc[p] = "stash" /\ stash' = [disk EXCEPT !.generated = 0] /\ Work(p, "mark")
      /\ UNCHANGED <<slots, probation, counts, disk, partial>>
  BY DEF Stash
<1>2. /\ ProcessesOK' /\ Only(p) /\ pc'[p] = "mark" /\ act' = act /\ job' = job
      /\ UNCHANGED misread
  BY <1>1, WorkShape DEF Safe, LockedSteps
<1>3. stash' \in Disks
  BY <1>1 DEF Safe, FilesOK, Disks
<1>4. Sound(p)'
  <2>1. Preparing(p)' /\ Informed(p)'
    BY <1>1, <1>2
       DEF Safe, Sound, Preparing, InUpgrade, Informed, RollbackPending, SlotWorks, slots
  <2> QED
    BY <1>2, <2>1, SoundAtNext
<1> QED
  BY <1>1, <1>2, <1>3, <1>4, QuietStep DEF Safe, FilesOK, counts, LockedSteps

\* The marker of an upgrade stands over a proven release.
LEMMA MarkInflightSafe ==
    ASSUME Safe, NEW p \in Procs, MarkInflight(p) PROVE Safe'
<1>1. /\ pc[p] = "mark"
      /\ inflight' = [inflight EXCEPT ![job[p].to] = job[p].ver]
      /\ synced' = link /\ Work(p, "swap")
      /\ UNCHANGED <<slot, rolling, link, activeFile, probation, counts, data>>
  BY DEF MarkInflight
<1>2. /\ ProcessesOK' /\ Only(p) /\ pc'[p] = "swap" /\ act' = act /\ job' = job
      /\ UNCHANGED misread
  BY <1>1, WorkShape DEF Safe, LockedSteps
<1>3. /\ act[p] = link /\ inflight[job[p].to] = 0 /\ SlotWorks(job[p].to)
      /\ InUpgrade(p) /\ act[p] = job[p].prev
  BY <1>1 DEF Safe, Sound, Preparing
<1>4. /\ link \in Slots /\ job[p].to = Other(link) /\ job[p].to \in Slots /\ job[p].to # link
      /\ Other(job[p].to) = link
      /\ job[p].ver \in Released /\ job[p].ver \in Versions /\ job[p].ver # 0
      /\ probation = NoProbation /\ ~RollbackPending /\ inflight[link] = 0
      /\ rolling = [s \in Slots |-> NoRollback]
      /\ synced = link /\ SlotWorks(link) /\ (~misread => slot[link].proven)
      /\ disk = DiskOf(slot[link].ver) \/ partial
  BY <1>1, <1>3, PreparingFacts, Names
<1>5. /\ inflight'[job[p].to] = job[p].ver /\ inflight'[link] = 0
      /\ inflight' \in [Slots -> Versions \cup {0}]
  BY <1>1, <1>4 DEF Safe, FilesOK
<1>6. FilesOK'
  BY <1>1, <1>2, <1>5 DEF Safe, FilesOK, counts, data
<1>7. MarkersSound' /\ ~RollbackPending'
  <2>1. ASSUME NEW s \in Slots
        PROVE  /\ rolling'[s] = NoRollback /\ inflight'[s] \in Released \cup {0}
               /\ inflight'[s] # 0 => TargetOk(Other(s))' /\ (~misread' => slot'[Other(s)].proven)
    <3>1. s = link \/ s = job[p].to
      BY <1>4, TwoSlots
    <3> QED
      BY <3>1, <1>1, <1>2, <1>4, <1>5 DEF TargetOk, SlotWorks
  <2> QED
    BY <2>1 DEF MarkersSound, RollbackPending
<1>8. ProbationSound'
  BY <1>1, <1>4, NoProbationSound
<1>9. LiveSound'
  <2>1. SlotWorks(link)' /\ Covered(link)'
    BY <1>1, <1>2, <1>4 DEF SlotWorks, Covered
  <2> QED
    BY <1>1, <2>1, LiveSoundNext
<1>10. CrashConsistent'
  BY <1>1, <1>4 DEF CrashConsistent, DiskOf, data
<1>11. Sound(p)'
  <2>1. Swapping(p)' /\ Informed(p)'
    BY <1>1, <1>2, <1>3, <1>4, <1>5, <1>7
       DEF Swapping, InUpgrade, Informed, SlotWorks
  <2> QED
    BY <1>2, <2>1, SoundAtNext
<1>12. \A q \in Procs : Sound(q)'
  BY <1>1, <1>2, <1>11, OthersSound DEF LockedSteps
<1>13. TimerSound'
  BY <1>6, <1>7, <1>12, Names, TimerSoundNext
<1> QED
  BY <1>2, <1>6, <1>7, <1>8, <1>9, <1>10, <1>12, <1>13 DEF Safe

\* What an upgrade knows once its release is live.
LEMMA UpgradedFacts ==
    ASSUME Safe, NEW p \in Procs,
           \/ pc[p] \in {"health", "probation", "unmark"}
           \/ pc[p] \in {"apply", "applying"} /\ ~RollingBack(p)
    PROVE  /\ Upgraded(p) /\ InUpgrade(p) /\ ~InRollback(p)
           /\ link \in Slots /\ job[p].prev \in Slots /\ job[p].prev = Other(link)
           /\ Other(job[p].prev) = link /\ job[p].prev # link
           /\ act[p] = link /\ act[p] = job[p].to /\ job[p].ver \in Released
           /\ ~RollbackPending /\ rolling = [s \in Slots |-> NoRollback]
           /\ inflight[link] # 0 /\ TargetOk(job[p].prev) /\ inflight[job[p].prev] = 0
           /\ (~misread => slot[job[p].prev].proven)
           /\ synced = link /\ SlotWorks(link)
<1>1. Upgraded(p) /\ job[p].ver \in Released /\ link \in Slots /\ synced = link
  BY LinkSynced DEF Safe, Sound, Informed, FilesOK, LockedSteps
<1>2. /\ InUpgrade(p) /\ act[p] = job[p].to /\ act[p] = link
      /\ ~RollbackPending /\ inflight[link] # 0
  BY <1>1 DEF UpgradeSteps, Upgraded, RollingBack, InRollback
<1>3. /\ job[p].prev \in Slots /\ job[p].prev = Other(link) /\ Other(job[p].prev) = link
      /\ job[p].prev # link
  BY <1>2, TwoSlots DEF InUpgrade
<1>4. ~InRollback(p)
  BY <1>2, <1>3 DEF InRollback
<1>5. rolling = [s \in Slots |-> NoRollback]
  BY <1>2 DEF RollbackPending, Safe, FilesOK
<1>6. /\ TargetOk(job[p].prev) /\ inflight[job[p].prev] = 0
      /\ ~misread => slot[job[p].prev].proven
  BY <1>1, <1>2, <1>3 DEF Safe, MarkersSound, TargetOk
<1>7. SlotWorks(link)
  BY DEF Safe, LiveSound
<1> QED
  BY <1>1, <1>2, <1>3, <1>4, <1>5, <1>6, <1>7

\* A version to roll back from, and its locals.
LEMMA RollBackShape ==
    ASSUME Safe, NEW p \in Procs, pc[p] \in LockedSteps, NEW v \in Released, NEW s \in Slots,
           NEW n \in 0 .. 2, RollBack(p, v, s, n)
    PROVE  /\ ProcessesOK' /\ Only(p) /\ pc'[p] = "rollback" /\ act' = act
           /\ job'[p].ver = v /\ job'[p].to = s /\ job'[p].prev = s /\ job'[p].count = n
           /\ UNCHANGED misread
<1> DEFINE locals == [ver |-> v, to |-> s, prev |-> s, count |-> n]
<1>1. locals \in Jobs
  BY Names DEF Jobs
<1>2. WorkAs(p, "rollback", locals)
  BY DEF RollBack
<1> HIDE DEF locals
<1>3. /\ ProcessesOK' /\ Only(p) /\ pc'[p] = "rollback" /\ act' = act
      /\ job'[p] = locals /\ UNCHANGED misread
  BY <1>1, <1>2, WorkAsShape DEF Safe, LockedSteps
<1> QED
  BY <1>3 DEF locals

\* A rollback that is decided on begins, from the slot the process is at, where
\* none is marked and the other slot, if it works, was proven.
LEMMA RollBackSafe ==
    ASSUME Safe, NEW p \in Procs, pc[p] \in LockedSteps \ {"swapFile", "swapSync"},
           NEW v \in Released, NEW n \in 0 .. 2,
           act[p] \in Slots, RollBack(p, v, Other(act[p]), n),
           ~RollbackPending,
           ~misread /\ SlotWorks(Other(act[p])) => slot[Other(act[p])].proven,
           p # Timer => (link = act[p] /\ inflight[link] # 0),
           UNCHANGED <<slots, probation, counts, data>>
    PROVE  Safe'
<1>1. Other(act[p]) \in Slots /\ act[p] = Other(Other(act[p]))
  BY TwoSlots
<1>2. /\ ProcessesOK' /\ Only(p) /\ pc'[p] = "rollback" /\ act' = act
      /\ job'[p].ver = v /\ job'[p].to = Other(act[p]) /\ job'[p].prev = Other(act[p])
      /\ UNCHANGED misread
  BY <1>1, RollBackShape
<1>3. ~RollbackPending'
  BY DEF RollbackPending, slots
<1>4. RollingOut(p)' /\ Informed(p)'
  BY <1>1, <1>2, <1>3 DEF RollingOut, InRollback, Informed, SlotWorks, slots
<1>5. Sound(p)'
  BY <1>2, <1>4, SoundAtNext
<1> QED
  BY <1>2, <1>5, QuietStep DEF Safe, FilesOK, counts, data

\* An upgrade that fails after the swap rolls back.
LEMMA UpgradeRollsBack ==
    ASSUME Safe, NEW p \in Procs,
           \/ pc[p] = "health"
           \/ pc[p] \in {"apply", "applying"} /\ ~RollingBack(p),
           RollBack(p, job[p].ver, job[p].prev, 0),
           UNCHANGED <<slots, probation, counts, data>>
    PROVE  Safe'
<1>1. /\ link \in Slots /\ job[p].prev = Other(link) /\ act[p] = link /\ job[p].ver \in Released
      /\ ~RollbackPending /\ inflight[link] # 0
      /\ (~misread => slot[job[p].prev].proven)
  BY UpgradedFacts
<1>2. pc[p] \in LockedSteps \ {"swapFile", "swapSync"} /\ 0 \in 0 .. 2
  BY DEF LockedSteps
<1> QED
  BY <1>1, <1>2, RollBackSafe

\* Healthy, or not known to be unhealthy.
LEMMA HealthOkSafe ==
    ASSUME Safe, NEW p \in Procs, HealthOk(p) PROVE Safe'
<1>1. pc[p] = "health" /\ Work(p, "probation") /\ UNCHANGED <<slots, probation, counts, data>>
  BY DEF HealthOk
<1>2. /\ ProcessesOK' /\ Only(p) /\ pc'[p] = "probation" /\ act' = act /\ job' = job
      /\ UNCHANGED misread
  BY <1>1, WorkShape DEF Safe, LockedSteps
<1>3. Upgraded(p) /\ InUpgrade(p) /\ act[p] \in Slots /\ job[p].ver \in Released
  BY <1>1, UpgradedFacts
<1>4. Sound(p)'
  <2>1. Upgraded(p)' /\ RolledBack(p)' /\ Informed(p)'
    BY <1>1, <1>2, <1>3
       DEF Upgraded, UpgradeSteps, InUpgrade, RolledBack, RollbackSteps, Informed,
           RollbackPending, DiskOf, slots, data
  <2> QED
    BY <1>2, <2>1, SoundAtNext DEF UpgradeSteps
<1> QED
  BY <1>1, <1>2, <1>4, QuietStep DEF Safe, FilesOK, counts, data, LockedSteps

\* Critical: the upgrade rolls back.
LEMMA HealthCriticalSafe ==
    ASSUME Safe, NEW p \in Procs, HealthCritical(p) PROVE Safe'
BY UpgradeRollsBack DEF HealthCritical

\* probation.json is written beside a release that wrote what is on disk.
LEMMA EnterProbationSafe ==
    ASSUME Safe, NEW p \in Procs, EnterProbation(p) PROVE Safe'
<1>1. /\ pc[p] = "probation" /\ Work(p, "unmark") /\ UNCHANGED <<slots, counts, data>>
      /\ probation' = [ver |-> job[p].ver, prev |-> job[p].prev, expired |-> FALSE]
  BY DEF EnterProbation
<1>2. /\ ProcessesOK' /\ Only(p) /\ pc'[p] = "unmark" /\ act' = act /\ job' = job
      /\ UNCHANGED misread
  BY <1>1, WorkShape DEF Safe, LockedSteps
<1>3. /\ Upgraded(p) /\ InUpgrade(p) /\ link \in Slots
      /\ job[p].prev \in Slots /\ Other(job[p].prev) = link /\ job[p].prev # link
      /\ act[p] = link /\ act[p] = job[p].to /\ job[p].ver \in Released
      /\ job[p].ver \in Versions /\ job[p].ver # 0
      /\ ~RollbackPending /\ inflight[link] # 0 /\ TargetOk(job[p].prev)
      /\ (~misread => slot[job[p].prev].proven)
      /\ synced = link /\ SlotWorks(link)
  BY <1>1, UpgradedFacts, Names
<1>4. disk = DiskOf(slot[link].ver)
  BY <1>1, <1>3 DEF Upgraded, UpgradeSteps
<1>5. /\ probation' \in Probations /\ probation' # NoProbation
      /\ probation'.ver = job[p].ver /\ probation'.prev = job[p].prev
  BY <1>1, <1>3 DEF Probations, NoProbation
<1>6. FilesOK'
  BY <1>1, <1>2, <1>5 DEF Safe, FilesOK, slots, counts, data
<1>7. MarkersSound' /\ (RollbackPending' <=> RollbackPending)
  BY <1>1, <1>2, MarkersFrame DEF Safe, slots
<1>8. ProbationSound'
  BY <1>1, <1>2, <1>3, <1>4, <1>5 DEF ProbationSound, TargetOk, SlotWorks, DiskOf, slots, data
<1>9. LiveSound'
  <2>1. SlotWorks(link)' /\ Covered(link)'
    BY <1>1, <1>3 DEF SlotWorks, Covered, slots
  <2> QED
    BY <1>1, <1>3, <2>1, LiveSoundNext DEF slots
<1>10. CrashConsistent'
  BY <1>1 DEF Safe, CrashConsistent, RollbackPending, DiskOf, slots, data
<1>11. Sound(p)'
  <2>1. Upgraded(p)' /\ RolledBack(p)' /\ Informed(p)'
    BY <1>1, <1>2, <1>3, <1>4, <1>5, <1>7
       DEF Upgraded, UpgradeSteps, InUpgrade, RolledBack, RollbackSteps, Informed, DiskOf,
           slots, data
  <2> QED
    BY <1>2, <2>1, SoundAtNext DEF UpgradeSteps
<1>12. \A q \in Procs : Sound(q)'
  BY <1>1, <1>2, <1>11, OthersSound DEF LockedSteps
<1>13. TimerSound'
  BY <1>3, <1>6, <1>7, <1>12, Names, TimerSoundNext
<1> QED
  BY <1>2, <1>6, <1>7, <1>8, <1>9, <1>10, <1>12, <1>13 DEF Safe

\* The marker goes once probation.json covers the release.
LEMMA UnmarkSafe ==
    ASSUME Safe, NEW p \in Procs, Unmark(p) PROVE Safe'
<1>1. /\ pc[p] = "unmark" /\ End(p) /\ inflight' = [inflight EXCEPT ![act[p]] = 0]
      /\ UNCHANGED <<slot, rolling, link, synced, activeFile, probation, counts, data>>
  BY DEF Unmark
<1>2. ProcessesOK' /\ Only(p) /\ pc'[p] = "idle" /\ UNCHANGED misread
  BY <1>1, ExitShape DEF Safe, End
<1>3. /\ Upgraded(p) /\ link \in Slots /\ job[p].prev = Other(link) /\ act[p] = link
      /\ ~RollbackPending /\ inflight[job[p].prev] = 0
      /\ rolling = [s \in Slots |-> NoRollback]
      /\ synced = link /\ SlotWorks(link)
  BY <1>1, UpgradedFacts
<1>4. disk = DiskOf(slot[link].ver) /\ (probation.prev = Other(link) \/ slot[link].proven)
  BY <1>1, <1>3 DEF Upgraded, UpgradeSteps
<1>5. /\ inflight' \in [Slots -> Versions \cup {0}]
      /\ \A s \in Slots : inflight'[s] = 0
  BY <1>1, <1>3, TwoSlots DEF Safe, FilesOK
<1>6. FilesOK'
  BY <1>1, <1>2, <1>5 DEF Safe, FilesOK, counts, data
<1>7. MarkersSound' /\ ~RollbackPending'
  BY <1>1, <1>3, <1>5 DEF MarkersSound, RollbackPending
<1>8. ProbationSound'
  BY <1>1, <1>2, <1>5, <1>3, TwoSlots
     DEF Safe, FilesOK, Probations, ProbationSound, TargetOk, SlotWorks, RollbackPending, DiskOf,
         data
<1>9. LiveSound'
  <2>1. SlotWorks(link)' /\ Covered(link)'
    BY <1>1, <1>3, <1>4 DEF SlotWorks, Covered
  <2> QED
    BY <1>1, <1>3, <2>1, LiveSoundNext
<1>10. CrashConsistent'
  BY <1>1, <1>3, <1>4 DEF CrashConsistent, DiskOf, data
<1>11. \A q \in Procs : Sound(q)'
  BY <1>1, <1>2, WaitingSoundNext, OthersSound DEF LockedSteps
<1>12. TimerSound'
  BY <1>6, <1>7, <1>11, Names, TimerSoundNext
<1> QED
  BY <1>2, <1>6, <1>7, <1>8, <1>9, <1>10, <1>11, <1>12 DEF Safe

\* The blocklist gets the version.
LEMMA AddBlocklistSafe ==
    ASSUME Safe, NEW p \in Procs, AddBlocklist(p) PROVE Safe'
<1>1. /\ pc[p] = "blocklist" /\ End(p) /\ blocklist' = blocklist \cup {job[p].ver}
      /\ UNCHANGED <<slots, probation, interrupted, data>>
  BY DEF AddBlocklist
<1>2. job[p].ver \in Released
  BY <1>1 DEF Safe, Sound, Informed
<1> QED
  BY <1>1, <1>2, QuietEnd DEF Safe, FilesOK, data, LockedSteps

-----------------------------------------------------------------------------
(* swap_to, apply, and the way back.                                       *)

\* The link moves to a slot that a marker vouches for.
LEMMA SwapLinkSafe ==
    ASSUME Safe, NEW p \in Procs, SwapLink(p) PROVE Safe'
<1>1. /\ pc[p] = "swap"
      /\ UNCHANGED <<slot, inflight, rolling, synced, activeFile, probation, counts, data>>
  BY DEF SwapLink
<1>2. /\ Swapping(p) /\ job[p].ver \in Released /\ synced = link /\ link \in Slots
      /\ job[p].to \in Slots
  <2>1. Swapping(p) /\ job[p].ver \in Released /\ synced = link /\ link \in Slots
    BY <1>1, LinkSynced DEF Safe, Sound, Informed, FilesOK, LockedSteps
  <2> QED
    BY <1>1, <2>1, TwoSlots DEF Swapping, InUpgrade, InRollback
<1>3. /\ \/ /\ InUpgrade(p) /\ probation = NoProbation /\ ~RollbackPending
            /\ inflight[job[p].to] # 0
         \/ /\ InRollback(p) /\ rolling[job[p].to] # NoRollback
            /\ p # Timer => inflight[Other(job[p].to)] # 0
      /\ act[p] = Other(job[p].to)
  BY <1>1, <1>2 DEF Swapping
<1>4. SlotWorks(job[p].to)
  <2>1. CASE rolling[job[p].to] # NoRollback
    BY <1>2, <2>1 DEF Safe, MarkersSound, TargetOk
  <2>2. CASE rolling[job[p].to] = NoRollback
    BY <1>1, <1>2, <2>2 DEF Swapping
  <2> QED
    BY <2>1, <2>2
<1>5. link' = job[p].to /\ Work(p, "swapFile")
  BY <1>4 DEF SwapLink
<1>6. /\ ProcessesOK' /\ Only(p) /\ pc'[p] = "swapFile" /\ act' = act /\ job' = job
      /\ UNCHANGED misread
  BY <1>1, <1>5, WorkShape DEF Safe, LockedSteps
<1>7. FilesOK'
  BY <1>1, <1>2, <1>5, <1>6 DEF Safe, FilesOK, counts, data
<1>8. MarkersSound' /\ (RollbackPending' <=> RollbackPending)
  BY <1>1, <1>6, MarkersFrame DEF Safe
<1>9. RollbackPending \/ probation = NoProbation
  BY <1>2, <1>3 DEF RollbackPending
<1>10. ProbationSound'
  BY <1>1, <1>6, <1>8, <1>9 DEF Safe, ProbationSound, TargetOk, SlotWorks, DiskOf, data
<1>11. LiveSound'
  <2>1. SlotWorks(link)' /\ SlotWorks(synced)' /\ Covered(synced)'
    BY <1>1, <1>4, <1>5, <1>6 DEF Safe, LiveSound, SlotWorks, Covered
  <2>2. Covered(link)'
    BY <1>1, <1>2, <1>3, <1>5, <1>6 DEF Safe, MarkersSound, Covered
  <2> QED
    BY <2>1, <2>2, <1>6 DEF LiveSound
<1>12. CrashConsistent'
  BY <1>1, <1>8 DEF Safe, CrashConsistent, DiskOf, data
<1>13. Sound(p)'
  <2>1. Swapping(p)' /\ Informed(p)'
    BY <1>1, <1>2, <1>3, <1>4, <1>5, <1>6, <1>8, TwoSlots
       DEF Swapping, InUpgrade, InRollback, Informed, SlotWorks
  <2> QED
    BY <1>6, <2>1, SoundAtNext
<1>14. \A q \in Procs : Sound(q)'
  BY <1>1, <1>6, <1>13, OthersSound DEF LockedSteps
<1>15. TimerSound'
  <2>1. CASE InUpgrade(p) /\ ~RollbackPending
    BY <2>1, <1>7, <1>8, <1>14, Names, TimerSoundNext
  <2>2. CASE rolling[job[p].to] # NoRollback
    <3> SUFFICES ASSUME pc'[Timer] \in {"lock", "resume"},
                        rolling'[act'[Timer]] # NoRollback, act'[Timer] # link'
                 PROVE  FALSE
      BY DEF TimerSound
    <3>1. act'[Timer] \in Slots
      BY <1>14, Names DEF Sound, Informed
    <3>2. act'[Timer] = Other(job[p].to)
      BY <1>2, <1>5, <3>1, TwoSlots
    <3> QED
      BY <1>1, <1>2, <2>2, <3>2 DEF Safe, MarkersSound
  <2> QED
    BY <1>3, <2>1, <2>2
<1> QED
  BY <1>6, <1>7, <1>8, <1>10, <1>11, <1>12, <1>14, <1>15 DEF Safe

\* The file and the process follow.
LEMMA SwapFileSafe ==
    ASSUME Safe, NEW p \in Procs, SwapFile(p) PROVE Safe'
<1>1. /\ pc[p] = "swapFile" /\ activeFile' = job[p].to
      /\ act' = [act EXCEPT ![p] = job[p].to] /\ pc' = [pc EXCEPT ![p] = "swapSync"]
      /\ UNCHANGED <<slot, inflight, rolling, link, synced, probation, counts, data>>
      /\ UNCHANGED <<lock, job, misread>>
  BY DEF SwapFile
<1>2. Swapping(p) /\ job[p].ver \in Released /\ link \in Slots /\ job[p].to = link
  BY <1>1 DEF Safe, Sound, Informed, FilesOK, Swapping
<1>3. pc'[p] = "swapSync" /\ act'[p] = link /\ Only(p) /\ ProcessesOK'
  BY <1>1, <1>2 DEF Safe, ProcessesOK, Only, LockedSteps
<1>4. FilesOK'
  BY <1>1, <1>2 DEF Safe, FilesOK, counts, data
<1>5. MarkersSound' /\ ProbationSound' /\ (RollbackPending' <=> RollbackPending)
  BY <1>1, MarkersFrame, ProbationFrame DEF Safe, data
<1>6. LiveSound'
  BY <1>1, <1>3 DEF Safe, LiveSound, SlotWorks, Covered
<1>7. CrashConsistent'
  BY <1>1, <1>5 DEF Safe, CrashConsistent, DiskOf, data
<1>8. Sound(p)'
  <2>1. Swapping(p)' /\ Informed(p)'
    BY <1>1, <1>2, <1>3, <1>5 DEF Swapping, InUpgrade, InRollback, Informed, SlotWorks
  <2> QED
    BY <1>3, <2>1, SoundAtNext
<1>9. \A q \in Procs : Sound(q)'
  BY <1>1, <1>3, <1>8, OthersSound DEF LockedSteps
<1>10. TimerSound'
  BY <1>1, <1>3, Names, TimerFrame DEF Safe, Only
<1> QED
  BY <1>3, <1>4, <1>5, <1>6, <1>7, <1>9, <1>10 DEF Safe

\* The link is on disk: an upgrade applies its release, a rollback goes on.
LEMMA SwapSyncSafe ==
    ASSUME Safe, NEW p \in Procs, SwapSync(p) PROVE Safe'
<1> DEFINE next == IF RollingBack(p) THEN "dropProbation" ELSE "apply"
<1>1. /\ pc[p] = "swapSync" /\ synced' = link /\ Work(p, next)
      /\ UNCHANGED <<slot, inflight, rolling, link, activeFile, probation, counts, data>>
  BY DEF SwapSync
<1>2. /\ ProcessesOK' /\ Only(p) /\ pc'[p] = next /\ act' = act /\ job' = job
      /\ UNCHANGED misread
  BY <1>1, WorkShape DEF Safe, LockedSteps
<1>3. /\ link \in Slots /\ job[p].to = link /\ act[p] = link /\ job[p].ver \in Released
      /\ \/ InUpgrade(p) /\ ~RollingBack(p) /\ probation = NoProbation /\ ~RollbackPending
            /\ inflight[link] # 0
         \/ InRollback(p) /\ RollingBack(p) /\ rolling[link] # NoRollback
  <2>1. Swapping(p) /\ link \in Slots /\ job[p].ver \in Released
    BY <1>1 DEF Safe, Sound, Informed, FilesOK
  <2>2. InUpgrade(p) => ~RollingBack(p)
    BY TwoSlots DEF InUpgrade, RollingBack
  <2>3. InRollback(p) => RollingBack(p)
    BY DEF InRollback, RollingBack
  <2> QED
    BY <1>1, <2>1, <2>2, <2>3 DEF Swapping
<1>4. RollbackPending \/ (probation = NoProbation /\ inflight[link] # 0)
  BY <1>3 DEF RollbackPending
<1>5. FilesOK'
  BY <1>1, <1>2 DEF Safe, FilesOK, counts, data
<1>6. MarkersSound' /\ (RollbackPending' <=> RollbackPending)
  BY <1>1, <1>2, MarkersFrame DEF Safe
<1>7. ProbationSound'
  BY <1>1, <1>2, <1>4, <1>6 DEF Safe, ProbationSound, TargetOk, SlotWorks, DiskOf, data
<1>8. LiveSound'
  <2>1. SlotWorks(link)' /\ Covered(link)'
    BY <1>1, <1>2 DEF Safe, LiveSound, SlotWorks, Covered
  <2> QED
    BY <1>1, <2>1, LiveSoundNext
<1>9. CrashConsistent'
  BY <1>1, <1>4, <1>6 DEF CrashConsistent
<1>10. Sound(p)'
  <2>1. Informed(p)'
    BY <1>2, <1>3 DEF Informed
  <2>2. Upgraded(p)'
    BY <1>1, <1>2, <1>3, <1>6
       DEF Upgraded, UpgradeSteps, InUpgrade, InRollback, RollingBack
  <2>3. RolledBack(p)'
    BY <1>1, <1>2, <1>3, <1>6
       DEF RolledBack, RollbackSteps, InUpgrade, InRollback, RollingBack
  <2> QED
    BY <1>2, <2>1, <2>2, <2>3, SoundAtNext DEF UpgradeSteps, RollbackSteps
<1>11. \A q \in Procs : Sound(q)'
  BY <1>1, <1>2, <1>10, OthersSound DEF LockedSteps
<1>12. TimerSound'
  BY <1>1, <1>2, Names, TimerFrame DEF Safe, Only
<1> QED
  BY <1>2, <1>5, <1>6, <1>7, <1>8, <1>9, <1>11, <1>12 DEF Safe

\* What a rollback knows once its target is live.
LEMMA RolledBackFacts ==
    ASSUME Safe, NEW p \in Procs, pc[p] \in RollbackSteps,
           pc[p] \in {"apply", "applying"} => RollingBack(p)
    PROVE  /\ RolledBack(p) /\ InRollback(p) /\ act[p] \in Slots /\ link \in Slots
           /\ act[p] = job[p].to /\ act[p] = job[p].prev /\ job[p].ver \in Released
           /\ rolling[act[p]] # NoRollback /\ RollbackPending /\ TargetOk(act[p])
           /\ rolling[Other(act[p])] = NoRollback
           /\ (~misread => slot[act[p]].proven)
           /\ act[p] # link => inflight[link] # 0
           /\ synced = link /\ slot[act[p]].ver \in Versions
           /\ pc[p] # "dropProbation" => probation = NoProbation
<1>1. /\ RolledBack(p) /\ Upgraded(p) /\ act[p] \in Slots /\ link \in Slots
      /\ job[p].ver \in Released /\ synced = link
  BY LinkSynced DEF Safe, Sound, Informed, FilesOK, LockedSteps, RollbackSteps
<1>2. InRollback(p)
  <2>1. CASE pc[p] \in {"apply", "applying"} /\ ~InRollback(p)
    BY <1>1, <2>1, TwoSlots DEF Upgraded, UpgradeSteps, InUpgrade, RollingBack
  <2>2. CASE pc[p] \in {"apply", "applying"} => InRollback(p)
    BY <1>1, <2>2 DEF RolledBack
  <2> QED
    BY <2>1, <2>2
<1>3. /\ act[p] = job[p].to /\ act[p] = job[p].prev /\ rolling[act[p]] # NoRollback
      /\ act[p] # link => inflight[link] # 0
      /\ pc[p] # "dropProbation" => probation = NoProbation
  BY <1>1, <1>2 DEF RolledBack, InRollback
<1>4. /\ RollbackPending /\ TargetOk(act[p]) /\ rolling[Other(act[p])] = NoRollback
      /\ ~misread => slot[act[p]].proven
  BY <1>1, <1>3 DEF Safe, MarkersSound, RollbackPending
<1>5. slot[act[p]].ver \in Versions
  BY <1>1, <1>4 DEF Safe, FilesOK, Venvs, TargetOk, SlotWorks
<1> QED
  BY <1>1, <1>2, <1>3, <1>4, <1>5

\* Applying either way, the process is at a slot that works, and marked.
LEMMA ApplyFacts ==
    ASSUME Safe, NEW p \in Procs, pc[p] \in {"apply", "applying"}
    PROVE  /\ act[p] \in Slots /\ slot[act[p]].ver \in Versions /\ job[p].ver \in Released
           /\ synced = link /\ probation = NoProbation
           /\ inflight[link] # 0 \/ RollbackPending
<1>1. CASE RollingBack(p)
  BY <1>1, RolledBackFacts DEF RollbackSteps
<1>2. CASE ~RollingBack(p)
  <2>1. /\ Upgraded(p) /\ act[p] = link /\ link \in Slots /\ job[p].ver \in Released
        /\ synced = link /\ inflight[link] # 0 /\ SlotWorks(link) /\ ~InRollback(p)
    BY <1>2, UpgradedFacts
  <2>2. slot[link].ver \in Versions
    BY <2>1 DEF Safe, FilesOK, Venvs, SlotWorks
  <2> QED
    BY <2>1, <2>2 DEF Upgraded, UpgradeSteps
<1> QED
  BY <1>1, <1>2

\* A step of the holder that only writes what is on disk, while a marker stands.
LEMMA MarkedStep ==
    ASSUME Safe, NEW p \in Procs, pc[p] \in LockedSteps \ {"swapFile", "swapSync"},
           ProcessesOK', Only(p), pc'[p] \notin {"lock", "resume"},
           UNCHANGED <<slots, misread>>, probation' = NoProbation,
           probation # NoProbation => Covered(link)',
           inflight[link] # 0 \/ RollbackPending,
           disk' \in Disks, stash' \in Disks, partial' \in BOOLEAN,
           blocklist' \subseteq Released, interrupted' \subseteq Released,
           Sound(p)'
    PROVE  Safe'
<1>1. synced = link
  BY LinkSynced DEF Safe
<1>2. FilesOK'
  BY DEF Safe, FilesOK, slots
<1>3. MarkersSound' /\ (RollbackPending' <=> RollbackPending)
  BY MarkersFrame DEF Safe, slots
<1>4. ProbationSound'
  BY NoProbationSound
<1>5. LiveSound'
  <2>1. SlotWorks(link)' /\ (probation = NoProbation => Covered(link)')
    BY DEF Safe, LiveSound, SlotWorks, Covered, slots
  <2> QED
    BY <1>1, <2>1, LiveSoundNext DEF slots
<1>6. CrashConsistent'
  BY <1>1, <1>3 DEF CrashConsistent, slots
<1>7. TimerSound'
  BY Names, TimerFrame DEF Safe, Only, slots
<1>8. \A q \in Procs : Sound(q)'
  BY OthersSound
<1> QED
  BY <1>2, <1>3, <1>4, <1>5, <1>6, <1>7, <1>8 DEF Safe

\* upgrade --apply migrates.
LEMMA ApplyBeginsSafe ==
    ASSUME Safe, NEW p \in Procs, ApplyBegins(p) PROVE Safe'
<1> DEFINE v == slot[act[p]].ver
<1>1. /\ pc[p] = "apply" /\ Work(p, "applying")
      /\ disk' = [disk EXCEPT !.inputs = Schema[v], !.generated = 0]
      /\ UNCHANGED <<slots, probation, counts, stash, partial>>
  BY DEF ApplyBegins
<1>2. /\ ProcessesOK' /\ Only(p) /\ pc'[p] = "applying" /\ act' = act /\ job' = job
      /\ UNCHANGED misread
  BY <1>1, WorkShape DEF Safe, LockedSteps
<1>3. /\ act[p] \in Slots /\ v \in Versions /\ job[p].ver \in Released
      /\ synced = link /\ probation = NoProbation
      /\ inflight[link] # 0 \/ RollbackPending
  BY <1>1, ApplyFacts
<1>4. disk' \in Disks /\ disk'.inputs = Schema[v]
  BY <1>1, <1>3 DEF Safe, FilesOK, Disks
<1>5. Upgraded(p) /\ RolledBack(p)
  BY DEF Safe, Sound
<1>6. Sound(p)'
  <2>1. Informed(p)' /\ (RollbackPending' <=> RollbackPending)
    BY <1>1, <1>2, <1>3 DEF Informed, RollbackPending, slots
  <2>2. Upgraded(p)'
    BY <1>1, <1>2, <1>4, <1>5, <2>1
       DEF Upgraded, UpgradeSteps, InUpgrade, InRollback, slots
  <2>3. RolledBack(p)'
    BY <1>1, <1>2, <1>4, <1>5 DEF RolledBack, RollbackSteps, InRollback, slots
  <2> QED
    BY <1>2, <2>1, <2>2, <2>3, SoundAtNext DEF UpgradeSteps
<1> QED
  BY <1>1, <1>2, <1>3, <1>4, <1>6, MarkedStep DEF Safe, FilesOK, counts, LockedSteps

\* config/version comes last: what is on disk is one release's.
LEMMA ApplyEndsSafe ==
    ASSUME Safe, NEW p \in Procs, ApplyEnds(p) PROVE Safe'
<1> DEFINE v == slot[act[p]].ver
           next == IF RollingBack(p) THEN "dropMarker" ELSE "health"
<1>1. /\ pc[p] = "applying" /\ Work(p, next)
      /\ disk' = [disk EXCEPT !.generated = v, !.installed = v] /\ partial' = FALSE
      /\ UNCHANGED <<slots, probation, counts, stash>>
  BY DEF ApplyEnds
<1>2. /\ ProcessesOK' /\ Only(p) /\ pc'[p] = next /\ act' = act /\ job' = job
      /\ UNCHANGED misread
  BY <1>1, WorkShape DEF Safe, LockedSteps
<1>3. /\ act[p] \in Slots /\ v \in Versions /\ job[p].ver \in Released
      /\ synced = link /\ probation = NoProbation
      /\ inflight[link] # 0 \/ RollbackPending
  BY <1>1, ApplyFacts
<1>4. Upgraded(p) /\ RolledBack(p)
  BY DEF Safe, Sound
<1>5. disk.inputs = Schema[v]
  <2>1. CASE RollingBack(p)
    BY <1>1, <2>1, RolledBackFacts DEF RolledBack, RollbackSteps
  <2>2. CASE ~RollingBack(p)
    BY <1>1, <2>2, UpgradedFacts DEF Upgraded, UpgradeSteps
  <2> QED
    BY <2>1, <2>2
<1>6. disk' \in Disks /\ disk' = DiskOf(v)
  BY <1>1, <1>3, <1>5 DEF Safe, FilesOK, Disks, DiskOf
<1>7. Sound(p)'
  <2>1. /\ Informed(p)' /\ (RollbackPending' <=> RollbackPending)
        /\ (InRollback(p)' <=> InRollback(p)) /\ disk' = DiskOf(slot[act[p]].ver)'
        /\ (InUpgrade(p)' <=> InUpgrade(p))
    BY <1>1, <1>2, <1>3, <1>6
       DEF Informed, RollbackPending, InRollback, InUpgrade, DiskOf, slots
  <2>2. CASE RollingBack(p)
    <3>1. /\ InRollback(p) /\ act[p] = job[p].to /\ rolling[act[p]] # NoRollback
          /\ act[p] # link => inflight[link] # 0
      BY <1>1, <2>2, RolledBackFacts DEF RollbackSteps
    <3>2. RolledBack(p)' /\ Upgraded(p)'
      BY <1>1, <1>2, <1>3, <2>1, <2>2, <3>1
         DEF RolledBack, RollbackSteps, Upgraded, UpgradeSteps, slots
    <3> QED
      BY <1>2, <2>1, <2>2, <3>2, SoundAtNext DEF RollbackSteps
  <2>3. CASE ~RollingBack(p)
    <3>1. InUpgrade(p) /\ act[p] = job[p].to /\ act[p] = link /\ ~RollbackPending
          /\ inflight[link] # 0
      BY <1>1, <2>3, UpgradedFacts
    <3>2. RolledBack(p)' /\ Upgraded(p)'
      BY <1>1, <1>2, <1>3, <2>1, <2>3, <3>1
         DEF RolledBack, RollbackSteps, Upgraded, UpgradeSteps, slots
    <3> QED
      BY <1>2, <2>1, <2>3, <3>2, SoundAtNext DEF UpgradeSteps
  <2> QED
    BY <2>2, <2>3
<1> QED
  BY <1>1, <1>2, <1>3, <1>6, <1>7, MarkedStep DEF Safe, FilesOK, counts, LockedSteps

\* A rollback's step that changes no file goes on where it was.
LEMMA PartialNext ==
    ASSUME Safe, NEW p \in Procs, pc[p] \in {"apply", "applying", "restore"},
           pc[p] \in {"apply", "applying"} => RollingBack(p),
           Work(p, "partial"), UNCHANGED <<slots, probation, counts, data>>
    PROVE  Safe'
<1>1. /\ ProcessesOK' /\ Only(p) /\ pc'[p] = "partial" /\ act' = act /\ job' = job
      /\ UNCHANGED misread
  BY WorkShape DEF Safe, LockedSteps
<1>2. /\ InRollback(p) /\ act[p] = job[p].to /\ rolling[act[p]] # NoRollback
      /\ act[p] # link => inflight[link] # 0
      /\ probation = NoProbation /\ act[p] \in Slots /\ job[p].ver \in Released
  BY RolledBackFacts DEF RollbackSteps
<1>3. RolledBack(p)' /\ Upgraded(p)' /\ Informed(p)'
  BY <1>1, <1>2
     DEF RolledBack, RollbackSteps, Upgraded, UpgradeSteps, Informed, InRollback, slots
<1>4. Sound(p)'
  BY <1>1, <1>3, SoundAtNext DEF RollbackSteps
<1> QED
  BY <1>1, <1>4, QuietStep DEF Safe, FilesOK, counts, data, LockedSteps

\* An apply that fails.
LEMMA ApplyFailsSafe ==
    ASSUME Safe, NEW p \in Procs, ApplyFails(p) PROVE Safe'
<1>1. CASE RollingBack(p)
  BY <1>1, PartialNext DEF ApplyFails
<1>2. CASE ~RollingBack(p)
  BY <1>2, UpgradeRollsBack DEF ApplyFails
<1> QED
  BY <1>1, <1>2

-----------------------------------------------------------------------------
(* do_rollback and complete_rollback.                                      *)

\* A rollback's marker stands before it swaps; a target that cannot take over
\* ends it.
LEMMA MarkRollbackSafe ==
    ASSUME Safe, NEW p \in Procs, MarkRollback(p) PROVE Safe'
<1>1. /\ pc[p] = "rollback"
      /\ UNCHANGED <<slot, inflight, link, activeFile, probation, counts, data>>
  BY DEF MarkRollback
<1>2. /\ RollingOut(p) /\ job[p].ver \in Released /\ act[p] \in Slots /\ link \in Slots
      /\ synced = link
  BY <1>1, LinkSynced DEF Safe, Sound, Informed, FilesOK, LockedSteps
<1>3. /\ InRollback(p) /\ job[p].to \in Slots /\ job[p].prev = job[p].to
      /\ act[p] = Other(job[p].to) /\ act[p] # job[p].to /\ ~RollbackPending
      /\ ~misread /\ SlotWorks(job[p].to) => slot[job[p].to].proven
      /\ p # Timer => link = act[p] /\ inflight[link] # 0
  BY <1>1, <1>2, TwoSlots DEF RollingOut, InRollback
<1>4. CASE ~TargetOk(job[p].prev)
  BY <1>1, <1>4, QuietEnd DEF MarkRollback, Safe, FilesOK, slots, counts, data, LockedSteps
<1>5. CASE TargetOk(job[p].prev)
  <2> DEFINE s == job[p].to
             mark == [ver |-> job[p].ver, count |-> job[p].count]
  <2>1. rolling' = [rolling EXCEPT ![s] = mark] /\ synced' = link /\ Work(p, "swap")
    BY <1>3, <1>5 DEF MarkRollback
  <2>2. /\ ProcessesOK' /\ Only(p) /\ pc'[p] = "swap" /\ act' = act /\ job' = job
        /\ UNCHANGED misread
    BY <1>1, <2>1, WorkShape DEF Safe, LockedSteps
  <2>3. mark \in Rollbacks /\ mark # NoRollback /\ mark.ver \in Released
    <3>1. job[p].count \in 0 .. 2
      BY DEF Safe, ProcessesOK, Jobs
    <3> QED
      BY <1>2, <3>1, Names DEF Rollbacks, NoRollback
  <2>4. \A t \in Slots : rolling[t] = NoRollback
    BY <1>3 DEF RollbackPending
  <2> HIDE DEF mark
  <2>5. /\ rolling' \in [Slots -> Rollbacks \cup {NoRollback}]
        /\ rolling'[s] = mark /\ rolling'[Other(s)] = NoRollback /\ RollbackPending'
    BY <1>3, <2>1, <2>3, <2>4, TwoSlots DEF Safe, FilesOK, RollbackPending
  <2>6. FilesOK'
    BY <1>1, <2>1, <2>2, <2>5 DEF Safe, FilesOK, counts, data
  <2>7. MarkersSound'
    <3>1. ASSUME NEW t \in Slots, rolling'[t] # NoRollback
          PROVE  /\ rolling'[t].ver \in Released
                 /\ TargetOk(t)' /\ (~misread' => slot'[t].proven)
                 /\ rolling'[Other(t)] = NoRollback
      <4>1. t = s
        BY <1>3, <2>5, <3>1, TwoSlots
      <4> QED
        BY <4>1, <1>1, <1>3, <1>5, <2>2, <2>3, <2>5 DEF TargetOk, SlotWorks
    <3>2. ASSUME NEW t \in Slots
          PROVE  /\ inflight'[t] \in Released \cup {0}
                 /\ inflight'[t] # 0 => TargetOk(Other(t))' /\ (~misread' => slot'[Other(t)].proven)
      BY <1>1, <2>2 DEF Safe, MarkersSound, TargetOk, SlotWorks
    <3> QED
      BY <3>1, <3>2 DEF MarkersSound
  <2>8. ProbationSound'
    BY <1>1, <2>1, <2>2, <2>5 DEF Safe, ProbationSound, TargetOk, SlotWorks
  <2>9. LiveSound'
    <3>1. rolling[Other(link)] = NoRollback
      BY <1>2, <2>4, TwoSlots
    <3>2. SlotWorks(link)' /\ Covered(link)'
      BY <1>1, <2>2, <3>1 DEF Safe, LiveSound, SlotWorks, Covered
    <3> QED
      BY <1>1, <2>1, <3>2, LiveSoundNext
  <2>10. CrashConsistent'
    BY <2>5 DEF CrashConsistent
  <2>11. Sound(p)'
    <3>1. Swapping(p)' /\ Informed(p)'
      BY <1>1, <1>2, <1>3, <2>2, <2>3, <2>5 DEF Swapping, InRollback, Informed
    <3> QED
      BY <2>2, <3>1, SoundAtNext
  <2>12. \A q \in Procs : Sound(q)'
    BY <1>1, <2>2, <2>11, OthersSound DEF LockedSteps
  <2>13. TimerSound'
    <3>1. CASE p = Timer
      BY <2>2, <3>1 DEF TimerSound
    <3>2. CASE p # Timer
      BY <1>1, <1>3, <3>2 DEF TimerSound
    <3> QED
      BY <3>1, <3>2
  <2> QED
    BY <2>2, <2>6, <2>7, <2>8, <2>9, <2>10, <2>12, <2>13 DEF Safe
<1> QED
  BY <1>4, <1>5

\* The probation ends; the target is proven, or an upgrade is still marked.
LEMMA DropProbationSafe ==
    ASSUME Safe, NEW p \in Procs, DropProbation(p) PROVE Safe'
<1>1. /\ pc[p] = "dropProbation" /\ probation' = NoProbation /\ Work(p, "restore")
      /\ UNCHANGED <<slots, counts, data>>
  BY DEF DropProbation
<1>2. /\ ProcessesOK' /\ Only(p) /\ pc'[p] = "restore" /\ act' = act /\ job' = job
      /\ UNCHANGED misread
  BY <1>1, WorkShape DEF Safe, LockedSteps
<1>3. /\ InRollback(p) /\ act[p] \in Slots /\ act[p] = job[p].to /\ job[p].ver \in Released
      /\ rolling[act[p]] # NoRollback /\ RollbackPending
      /\ ~misread => slot[act[p]].proven
      /\ act[p] # link => inflight[link] # 0
  BY <1>1, RolledBackFacts DEF RollbackSteps
<1>4. Covered(link)'
  BY <1>1, <1>2, <1>3 DEF Covered, slots
<1>5. Sound(p)'
  <2>1. RolledBack(p)' /\ Upgraded(p)' /\ Informed(p)'
    BY <1>1, <1>2, <1>3
       DEF RolledBack, RollbackSteps, Upgraded, UpgradeSteps, Informed, InRollback, slots
  <2> QED
    BY <1>2, <2>1, SoundAtNext DEF RollbackSteps
<1> QED
  BY <1>1, <1>2, <1>3, <1>4, <1>5, MarkedStep DEF Safe, FilesOK, counts, data, LockedSteps

\* The stash comes back.
LEMMA RestoreStashSafe ==
    ASSUME Safe, NEW p \in Procs, RestoreStash(p) PROVE Safe'
<1>1. /\ pc[p] = "restore" /\ disk' = [stash EXCEPT !.generated = disk.generated]
      /\ Work(p, "apply") /\ UNCHANGED <<slots, probation, counts, stash, partial>>
  BY DEF RestoreStash
<1>2. /\ ProcessesOK' /\ Only(p) /\ pc'[p] = "apply" /\ act' = act /\ job' = job
      /\ UNCHANGED misread
  BY <1>1, WorkShape DEF Safe, LockedSteps
<1>3. /\ InRollback(p) /\ act[p] \in Slots /\ act[p] = job[p].to /\ job[p].ver \in Released
      /\ rolling[act[p]] # NoRollback /\ RollbackPending /\ probation = NoProbation
      /\ act[p] # link => inflight[link] # 0
  BY <1>1, RolledBackFacts DEF RollbackSteps
<1>4. disk' \in Disks
  BY <1>1 DEF Safe, FilesOK, Disks
<1>5. Sound(p)'
  <2>1. RolledBack(p)' /\ Upgraded(p)' /\ Informed(p)'
    BY <1>1, <1>2, <1>3
       DEF RolledBack, RollbackSteps, Upgraded, UpgradeSteps, Informed, InRollback, slots
  <2> QED
    BY <1>2, <2>1, SoundAtNext DEF RollbackSteps
<1> QED
  BY <1>1, <1>2, <1>3, <1>4, <1>5, MarkedStep DEF Safe, FilesOK, counts, LockedSteps

\* It does not.
LEMMA RestoreFailsSafe ==
    ASSUME Safe, NEW p \in Procs, RestoreFails(p) PROVE Safe'
BY PartialNext DEF RestoreFails

\* A partial rollback is reported while its marker stands.
LEMMA PartialSafe ==
    ASSUME Safe, NEW p \in Procs, Partial(p) PROVE Safe'
<1>1. /\ pc[p] = "partial" /\ blocklist' = blocklist \cup {job[p].ver} /\ partial' = TRUE
      /\ Work(p, "partialDone") /\ UNCHANGED <<slots, probation, interrupted, disk, stash>>
  BY DEF Partial
<1>2. /\ ProcessesOK' /\ Only(p) /\ pc'[p] = "partialDone" /\ act' = act /\ job' = job
      /\ UNCHANGED misread
  BY <1>1, WorkShape DEF Safe, LockedSteps
<1>3. /\ InRollback(p) /\ act[p] \in Slots /\ act[p] = job[p].to /\ job[p].ver \in Released
      /\ rolling[act[p]] # NoRollback /\ RollbackPending /\ probation = NoProbation
      /\ act[p] # link => inflight[link] # 0
  BY <1>1, RolledBackFacts DEF RollbackSteps
<1>4. Sound(p)'
  <2>1. RolledBack(p)' /\ Upgraded(p)' /\ Informed(p)'
    BY <1>1, <1>2, <1>3
       DEF RolledBack, RollbackSteps, Upgraded, UpgradeSteps, Informed, InRollback, slots
  <2> QED
    BY <1>2, <2>1, SoundAtNext DEF RollbackSteps
<1> QED
  BY <1>1, <1>2, <1>3, <1>4, MarkedStep DEF Safe, FilesOK, LockedSteps

\* The marker of a rollback goes where what is on disk is right, or reported,
\* or an upgrade's marker still stands over the live slot.
LEMMA RollbackEnds ==
    ASSUME Safe, NEW p \in Procs, pc[p] \in {"partialDone", "dropMarker"},
           rolling' = [rolling EXCEPT ![job[p].prev] = NoRollback],
           UNCHANGED <<slot, inflight, link, synced, activeFile, probation, counts, data, misread>>,
           ProcessesOK', Only(p), pc'[p] \notin {"lock", "resume"}, Sound(p)'
    PROVE  Safe'
<1>1. /\ RolledBack(p) /\ act[p] \in Slots /\ link \in Slots /\ act[p] = job[p].prev
      /\ rolling[Other(act[p])] = NoRollback
      /\ ~misread => slot[act[p]].proven
      /\ act[p] # link => inflight[link] # 0
      /\ synced = link /\ probation = NoProbation
  BY RolledBackFacts DEF RollbackSteps
<1>2. rolling' = [s \in Slots |-> NoRollback] /\ ~RollbackPending'
  <2>1. rolling \in [Slots -> Rollbacks \cup {NoRollback}]
    BY DEF Safe, FilesOK
  <2>2. ASSUME NEW s \in Slots PROVE rolling'[s] = NoRollback
    <3>1. s = act[p] \/ s = Other(act[p])
      BY <1>1, TwoSlots
    <3> QED
      BY <3>1, <2>1, <1>1
  <2>3. rolling' = [s \in Slots |-> NoRollback]
    BY <2>1, <2>2
  <2> QED
    BY <2>2, <2>3 DEF RollbackPending
<1>3. FilesOK'
  BY <1>2 DEF Safe, FilesOK, counts, data
<1>4. MarkersSound'
  BY <1>2 DEF Safe, MarkersSound, TargetOk, SlotWorks
<1>5. ProbationSound'
  BY <1>1, NoProbationSound
<1>6. LiveSound'
  <2>1. SlotWorks(link)' /\ Covered(link)'
    BY <1>1 DEF Safe, LiveSound, SlotWorks, Covered
  <2> QED
    BY <1>1, <2>1, LiveSoundNext
<1>7. CrashConsistent'
  <2>1. CASE act[p] # link
    BY <1>1, <2>1 DEF CrashConsistent
  <2>2. CASE act[p] = link /\ pc[p] = "dropMarker"
    BY <1>1, <2>2 DEF CrashConsistent, RolledBack, RollbackSteps, DiskOf, data
  <2>3. CASE pc[p] = "partialDone"
    BY <1>1, <2>3 DEF CrashConsistent, RolledBack, RollbackSteps, data
  <2> QED
    BY <2>1, <2>2, <2>3
<1>8. \A q \in Procs : Sound(q)'
  BY OthersSound DEF LockedSteps
<1>9. TimerSound'
  BY <1>2, <1>3, <1>8, Names, TimerSoundNext
<1> QED
  BY <1>3, <1>4, <1>5, <1>6, <1>7, <1>8, <1>9 DEF Safe

\* A partial rollback ends.
LEMMA PartialDoneSafe ==
    ASSUME Safe, NEW p \in Procs, PartialDone(p) PROVE Safe'
<1>1. ProcessesOK' /\ Only(p) /\ pc'[p] = "idle" /\ UNCHANGED misread
  BY ExitShape DEF Safe, PartialDone, End
<1> QED
  BY <1>1, WaitingSoundNext, RollbackEnds DEF PartialDone

\* A rollback is done.
LEMMA DropMarkerSafe ==
    ASSUME Safe, NEW p \in Procs, DropMarker(p) PROVE Safe'
<1> DEFINE next == IF job[p].count = 0 THEN "blocklist" ELSE "count"
<1>1. /\ pc[p] = "dropMarker" /\ Work(p, next)
      /\ rolling' = [rolling EXCEPT ![job[p].prev] = NoRollback]
      /\ UNCHANGED <<slot, inflight, link, synced, activeFile, probation, counts, data>>
  BY DEF DropMarker
<1>2. /\ ProcessesOK' /\ Only(p) /\ pc'[p] = next /\ act' = act /\ job' = job
      /\ UNCHANGED misread
  BY <1>1, WorkShape DEF Safe, LockedSteps
<1>3. Informed(p)'
  BY <1>1, <1>2 DEF Safe, Sound, Informed
<1> QED
  BY <1>1, <1>2, <1>3, SoundAtNext, RollbackEnds

\* An interruption is counted, and blocklisted the second time.
LEMMA CountInterruptionSafe ==
    ASSUME Safe, NEW p \in Procs, CountInterruption(p) PROVE Safe'
<1>1. /\ pc[p] = "count" /\ interrupted' = interrupted \cup {job[p].ver}
      /\ UNCHANGED <<slots, probation, blocklist, data>>
  BY DEF CountInterruption
<1>2. interrupted' \subseteq Released
  BY <1>1 DEF Safe, Sound, Informed, FilesOK
<1>3. CASE End(p)
  BY <1>1, <1>2, <1>3, QuietEnd DEF Safe, FilesOK, data, LockedSteps
<1>4. CASE Work(p, "blocklist")
  <2>1. /\ ProcessesOK' /\ Only(p) /\ pc'[p] = "blocklist" /\ act' = act /\ job' = job
        /\ UNCHANGED misread
    BY <1>1, <1>4, WorkShape DEF Safe, LockedSteps
  <2>2. Informed(p)'
    BY <1>1, <2>1 DEF Safe, Sound, Informed
  <2> QED
    BY <1>1, <1>2, <2>1, <2>2, SoundAtNext, QuietStep DEF Safe, FilesOK, data, LockedSteps
<1> QED
  BY <1>3, <1>4 DEF CountInterruption

-----------------------------------------------------------------------------
(* check-probation.                                                        *)

\* A rollback cut short goes on towards the slot that holds its marker.
LEMMA ResumeRollbackSafe ==
    ASSUME Safe, ResumeRollback PROVE Safe'
<1> DEFINE here == act[Timer]
           s == IF rolling[here] # NoRollback THEN here ELSE Other(here)
           next == IF here = s THEN "dropProbation" ELSE "swap"
           locals == [ver |-> rolling[s].ver, to |-> s, prev |-> s, count |-> rolling[s].count]
<1>1. /\ pc[Timer] = "resume" /\ UNCHANGED <<slots, probation, counts, data>>
      /\ Timer \in Procs /\ here \in Slots
  BY Names DEF ResumeRollback, Safe, Sound, Informed
<1>2. CASE ~RollbackPending
  <2>1. /\ ProcessesOK' /\ Only(Timer) /\ pc'[Timer] = "recover" /\ act' = act /\ job' = job
        /\ UNCHANGED misread
    BY <1>1, <1>2, WorkShape DEF ResumeRollback, Safe, LockedSteps
  <2>2. Checking(Timer)' /\ Informed(Timer)'
    BY <1>1, <1>2, <2>1 DEF Checking, Informed, RollbackPending, slots
  <2> QED
    BY <1>1, <2>1, <2>2, SoundAtNext, QuietStep DEF Safe, FilesOK, counts, data, LockedSteps
<1>3. CASE RollbackPending /\ ~TargetOk(s)
  <2>1. End(Timer)
    BY <1>3 DEF ResumeRollback
  <2> QED
    BY <1>1, <2>1, QuietEnd DEF Safe, FilesOK, counts, data, slots, LockedSteps
<1>4. CASE RollbackPending /\ TargetOk(s)
  <2>1. s \in Slots /\ rolling[s] # NoRollback /\ (here # s => here = Other(s))
    BY <1>1, <1>4, TwoSlots DEF RollbackPending
  <2>2. rolling[s].ver \in Released /\ rolling[s].count \in 0 .. 2
    BY <2>1 DEF Safe, MarkersSound, FilesOK, Rollbacks
  <2>3. locals \in Jobs
    BY <2>1, <2>2, Names DEF Jobs
  <2>4. WorkAs(Timer, next, locals)
    BY <1>4 DEF ResumeRollback
  <2>5. next \in LockedSteps \ {"lock", "resume"}
    BY DEF LockedSteps
  <2>6. locals.ver \in Released /\ locals.to = s /\ locals.prev = s
    BY <2>2
  <2> HIDE DEF locals
  <2>7. /\ ProcessesOK' /\ Only(Timer) /\ pc'[Timer] = next /\ act' = act
        /\ job'[Timer] = locals /\ UNCHANGED misread
    BY <1>1, <2>3, <2>4, <2>5, WorkAsShape DEF Safe, LockedSteps
  <2>8. Informed(Timer)' /\ InRollback(Timer)'
    BY <1>1, <2>1, <2>6, <2>7 DEF Informed, InRollback
  <2>9. CASE here = s
    <3>1. here # link => inflight[link] # 0
      BY <1>1, <2>1, <2>9 DEF Safe, TimerSound
    <3>2. RolledBack(Timer)' /\ Upgraded(Timer)'
      BY <1>1, <2>1, <2>6, <2>7, <2>8, <2>9, <3>1
         DEF RolledBack, RollbackSteps, Upgraded, UpgradeSteps, slots
    <3>3. Sound(Timer)'
      BY <1>1, <2>7, <2>8, <2>9, <3>2, SoundAtNext DEF RollbackSteps
    <3> QED
      BY <1>1, <2>5, <2>7, <3>3, QuietStep DEF Safe, FilesOK, counts, data, LockedSteps
  <2>10. CASE here # s
    <3>1. Swapping(Timer)'
      BY <1>1, <2>1, <2>6, <2>7, <2>8, <2>10 DEF Swapping, slots
    <3>2. Sound(Timer)'
      BY <1>1, <2>7, <2>8, <2>10, <3>1, SoundAtNext
    <3> QED
      BY <1>1, <2>5, <2>7, <3>2, QuietStep DEF Safe, FilesOK, counts, data, LockedSteps
  <2> QED
    BY <2>9, <2>10
<1> QED
  BY <1>2, <1>3, <1>4

\* An upgrade whose probation was recorded only lacks its marker's removal;
\* any other one rolls back.
LEMMA RecoverUpgradeSafe ==
    ASSUME Safe, RecoverUpgrade PROVE Safe'
<1> DEFINE here == act[Timer]
           v == inflight[here]
<1>1. /\ pc[Timer] = "recover" /\ Timer \in Procs /\ here \in Slots /\ link \in Slots
      /\ UNCHANGED <<slot, rolling, link, synced, activeFile, probation, counts, data>>
  BY Names DEF RecoverUpgrade, Safe, Sound, Informed, FilesOK
<1>2. ~RollbackPending /\ rolling = [s \in Slots |-> NoRollback] /\ synced = link
  <2>1. ~RollbackPending /\ synced = link
    BY <1>1, LinkSynced DEF Safe, Sound, Checking, LockedSteps
  <2> QED
    BY <2>1 DEF Safe, FilesOK, RollbackPending
<1>3. CASE v = 0
  <2>1. /\ ProcessesOK' /\ Only(Timer) /\ pc'[Timer] = "probe" /\ act' = act /\ job' = job
        /\ UNCHANGED misread /\ UNCHANGED inflight
    BY <1>1, <1>3, WorkShape DEF RecoverUpgrade, Safe, LockedSteps
  <2>2. Checking(Timer)' /\ Informed(Timer)'
    BY <1>1, <1>2, <1>3, <2>1 DEF Checking, Informed, RollbackPending
  <2> QED
    BY <1>1, <2>1, <2>2, SoundAtNext, QuietStep
       DEF Safe, FilesOK, counts, data, slots, LockedSteps
<1>4. CASE v # 0 /\ OnProbation(here) /\ probation.ver = v
  <2>1. inflight' = [inflight EXCEPT ![here] = 0] /\ Work(Timer, "probe")
    BY <1>4 DEF RecoverUpgrade
  <2>2. /\ ProcessesOK' /\ Only(Timer) /\ pc'[Timer] = "probe" /\ act' = act /\ job' = job
        /\ UNCHANGED misread
    BY <1>1, <2>1, WorkShape DEF Safe, LockedSteps
  <2>3. /\ inflight' \in [Slots -> Versions \cup {0}] /\ inflight'[here] = 0
        /\ \A t \in Slots : inflight'[t] = 0 \/ inflight'[t] = inflight[t]
        /\ \A t \in Slots \ {here} : inflight'[t] = inflight[t]
    BY <1>1, <2>1 DEF Safe, FilesOK
  <2>4. /\ probation # NoProbation /\ probation.prev # here /\ probation.prev \in Slots
        /\ probation.prev = Other(here)
    <3>1. probation # NoProbation /\ probation.prev # here /\ probation.prev \in Slots
      BY <1>4 DEF OnProbation, Safe, FilesOK, Probations
    <3> QED
      BY <1>1, <3>1, TwoSlots
  <2>5. FilesOK'
    BY <1>1, <2>2, <2>3 DEF Safe, FilesOK, counts, data
  <2>6. MarkersSound' /\ ~RollbackPending'
    <3>1. \A t \in Slots : TargetOk(t) => TargetOk(t)'
      BY <1>1, <2>3 DEF TargetOk, SlotWorks
    <3> QED
      BY <1>1, <1>2, <2>2, <2>3, <3>1, TwoSlots DEF Safe, MarkersSound, RollbackPending
  <2>7. ProbationSound'
    <3>1. TargetOk(probation.prev) => TargetOk(probation.prev)'
      BY <1>1, <2>3, <2>4 DEF TargetOk, SlotWorks
    <3> QED
      BY <1>1, <1>2, <2>2, <2>6, <3>1 DEF Safe, ProbationSound, SlotWorks, DiskOf, data
  <2>8. LiveSound'
    <3>1. CASE here = link
      BY <1>1, <1>2, <2>4, <3>1, LiveSoundNext DEF Safe, LiveSound, SlotWorks, Covered
    <3>2. CASE here # link
      <4>1. inflight'[link] = inflight[link]
        BY <1>1, <2>3, <3>2
      <4>2. SlotWorks(link)' /\ Covered(link)'
        BY <1>1, <2>2, <4>1 DEF Safe, LiveSound, SlotWorks, Covered
      <4> QED
        BY <1>1, <1>2, <4>2, LiveSoundNext
    <3> QED
      BY <3>1, <3>2
  <2>9. CrashConsistent'
    BY <1>1, <1>2, <2>4 DEF Safe, ProbationSound, CrashConsistent, DiskOf, data
  <2>10. Sound(Timer)'
    <3>1. Checking(Timer)' /\ Informed(Timer)'
      BY <1>1, <2>2, <2>3, <2>6 DEF Checking, Informed
    <3> QED
      BY <1>1, <2>2, <3>1, SoundAtNext
  <2>11. \A q \in Procs : Sound(q)'
    BY <1>1, <2>2, <2>10, OthersSound DEF LockedSteps
  <2>12. TimerSound'
    BY <2>2 DEF TimerSound
  <2> QED
    BY <2>2, <2>5, <2>6, <2>7, <2>8, <2>9, <2>11, <2>12 DEF Safe
<1>5. CASE v # 0 /\ ~(OnProbation(here) /\ probation.ver = v) /\ UNCHANGED inflight
           /\ RollBack(Timer, v, Other(here), IF v \in interrupted THEN 2 ELSE 1)
  <2>1. v \in Released /\ (~misread => slot[Other(here)].proven)
    BY <1>1, <1>5 DEF Safe, MarkersSound
  <2>2. (IF v \in interrupted THEN 2 ELSE 1) \in 0 .. 2
    OBVIOUS
  <2>3. Timer \in Procs /\ pc[Timer] \in LockedSteps \ {"swapFile", "swapSync"}
    BY <1>1 DEF LockedSteps
  <2> QED
    BY <1>1, <1>2, <1>5, <2>1, <2>2, <2>3, RollBackSafe DEF slots
<1>6. CASE UNCHANGED inflight /\ End(Timer)
  BY <1>1, <1>6, QuietEnd DEF Safe, FilesOK, counts, data, slots, LockedSteps
<1> QED
  BY <1>3, <1>4, <1>5, <1>6 DEF RecoverUpgrade

\* The orphan is removed beside a live slot that nothing marks.
LEMMA RemoveOrphanSafe ==
    ASSUME Safe, RemoveOrphan PROVE Safe'
<1> DEFINE here == act[Timer]
           s == Other(here)
<1>1. /\ pc[Timer] = "probe" /\ Timer \in Procs /\ here \in Slots /\ link \in Slots
      /\ NoProbationFor(here) /\ ForgetProbation(Timer) /\ Exit(Timer)
      /\ UNCHANGED <<link, synced, activeFile, counts, data>>
  BY Names DEF RemoveOrphan, Safe, Sound, Informed, FilesOK
<1>2. /\ ~RollbackPending /\ rolling = [t \in Slots |-> NoRollback] /\ synced = link
      /\ inflight[here] = 0
  <2>1. ~RollbackPending /\ synced = link /\ inflight[here] = 0
    BY <1>1, LinkSynced DEF Safe, Sound, Checking, LockedSteps
  <2> QED
    BY <2>1 DEF Safe, FilesOK, RollbackPending
<1>3. ProcessesOK' /\ Only(Timer) /\ pc'[Timer] = "idle"
  BY <1>1, ExitShape DEF Safe
<1>4. probation' = NoProbation /\ misread' \in BOOLEAN /\ (~misread' => ~misread)
  BY <1>1 DEF ForgetProbation, Safe, FilesOK
<1>5. \A q \in Procs : Sound(q)'
  BY <1>1, <1>3, WaitingSoundNext, OthersSound DEF LockedSteps
<1>6. TimerSound'
  BY <1>3 DEF TimerSound
<1>7. ProbationSound'
  BY <1>4, NoProbationSound
<1>8. CASE UNCHANGED <<slot, inflight, rolling>>
  <2>1. Covered(link)'
    BY <1>1, <1>2, <1>8, ForgottenSound
  <2>2. FilesOK'
    BY <1>1, <1>4, <1>8 DEF Safe, FilesOK, counts, data
  <2>3. MarkersSound'
    BY <1>4, <1>8 DEF Safe, MarkersSound, TargetOk, SlotWorks
  <2>4. LiveSound'
    BY <1>1, <1>2, <1>8, <2>1, LiveSoundNext DEF Safe, LiveSound, SlotWorks
  <2>5. CrashConsistent'
    BY <1>1, <1>8 DEF Safe, CrashConsistent, RollbackPending, DiskOf, data
  <2> QED
    BY <1>3, <1>5, <1>6, <1>7, <2>2, <2>3, <2>4, <2>5 DEF Safe
<1>9. CASE MayRemove(Timer, s) /\ Remove(s)
  <2>1. s \in Slots /\ s # link /\ here = link /\ \A t \in Slots : t = link \/ t = s
    BY <1>1, <1>9, TwoSlots DEF MayRemove
  <2>2. /\ slot' \in [Slots -> Venvs] /\ slot'[link] = slot[link]
        /\ inflight' \in [Slots -> Versions \cup {0}]
        /\ rolling' \in [Slots -> Rollbacks \cup {NoRollback}]
        /\ \A t \in Slots : inflight'[t] = 0 /\ rolling'[t] = NoRollback
    <3>1. /\ slot' \in [Slots -> Venvs] /\ slot'[link] = slot[link]
          /\ inflight' \in [Slots -> Versions \cup {0}]
          /\ rolling' \in [Slots -> Rollbacks \cup {NoRollback}]
          /\ inflight'[s] = 0 /\ rolling'[s] = NoRollback
          /\ inflight'[link] = inflight[link] /\ rolling'[link] = rolling[link]
      BY <1>1, <1>9, <2>1, RemoveShape DEF Safe
    <3>2. inflight[link] = 0 /\ rolling[link] = NoRollback
      BY <1>1, <1>2, <2>1
    <3> QED
      BY <2>1, <3>1, <3>2
  <2>3. FilesOK'
    BY <1>1, <1>4, <2>2 DEF Safe, FilesOK, counts, data
  <2>4. MarkersSound'
    BY <2>2 DEF MarkersSound
  <2>5. LiveSound'
    <3>1. ~misread => slot[link].proven
      <4>1. ~misread' => slot[link].proven
        <5>1. probation = NoProbation \/ probation.prev = link
          BY <1>1, <2>1 DEF NoProbationFor, StaleProbation
        <5>2. probation.prev # Other(link)
          BY <1>1, <5>1, Names, TwoSlots
        <5>3. rolling[Other(link)] = NoRollback /\ inflight[link] = 0
          BY <1>1, <1>2, <2>1, TwoSlots
        <5> QED
          BY <1>4, <5>2, <5>3 DEF Safe, LiveSound, Covered
      <4>2. misread' <=> misread
        BY <1>1, <2>1 DEF ForgetProbation, Safe, FilesOK
      <4> QED
        BY <4>1, <4>2
    <3>2. SlotWorks(link)' /\ Covered(link)'
      BY <1>1, <1>4, <2>2, <3>1 DEF Safe, LiveSound, SlotWorks, Covered
    <3> QED
      BY <1>1, <1>2, <3>2, LiveSoundNext
  <2>6. CrashConsistent'
    BY <1>1, <1>2, <2>1, <2>2 DEF Safe, CrashConsistent, DiskOf, data
  <2> QED
    BY <1>3, <1>5, <1>6, <1>7, <2>3, <2>4, <2>5, <2>6 DEF Safe
<1> QED
  BY <1>8, <1>9 DEF RemoveOrphan

\* A probation that no rollback could use stops the shim.
LEMMA ProbationUnusableSafe ==
    ASSUME Safe, ProbationUnusable PROVE Safe'
BY Names, QuietEnd
   DEF ProbationUnusable, Safe, FilesOK, slots, counts, data, LockedSteps

\* A probation the timer can act on names the slot that is not live.
LEMMA ProbationFacts ==
    ASSUME Safe, pc[Timer] = "probe", OnProbation(act[Timer])
    PROVE  /\ Timer \in Procs /\ act[Timer] = link /\ act[Timer] \in Slots
           /\ probation.prev = Other(act[Timer]) /\ probation.prev \in Slots
           /\ probation.ver \in Released
           /\ ~RollbackPending /\ inflight[act[Timer]] = 0
           /\ ~misread /\ SlotWorks(probation.prev) => slot[probation.prev].proven
<1>1. /\ Timer \in Procs /\ act[Timer] \in Slots /\ link \in Slots /\ ~RollbackPending
      /\ inflight[act[Timer]] = 0
  BY Names DEF Safe, Sound, Informed, Checking, FilesOK
<1>2. /\ probation # NoProbation /\ probation.prev # act[Timer]
      /\ probation.prev \in Slots /\ probation.prev # link /\ probation.ver \in Released
      /\ ~misread /\ SlotWorks(probation.prev) => slot[probation.prev].proven
  BY <1>1 DEF OnProbation, Safe, FilesOK, Probations, ProbationSound
<1>3. probation.prev = Other(act[Timer]) /\ probation.prev = Other(link)
  BY <1>1, <1>2, TwoSlots
<1>4. act[Timer] = link
  BY <1>1, <1>3, TwoSlots
<1> QED
  BY <1>1, <1>2, <1>3, <1>4

\* The timer goes on with the release on probation.
LEMMA ProbationTaken ==
    ASSUME Safe, NEW next \in {"promote", "checking"},
           pc[Timer] = "probe", OnProbation(act[Timer]),
           WorkAs(Timer, next, [NoJob EXCEPT !.ver = probation.ver, !.prev = probation.prev]),
           UNCHANGED <<slots, probation, counts, data>>
    PROVE  Safe'
<1> DEFINE locals == [NoJob EXCEPT !.ver = probation.ver, !.prev = probation.prev]
<1>1. /\ Timer \in Procs /\ act[Timer] = link /\ act[Timer] \in Slots
      /\ probation.prev = Other(act[Timer]) /\ probation.prev \in Slots
      /\ probation.ver \in Released
      /\ ~RollbackPending /\ inflight[act[Timer]] = 0
      /\ ~misread /\ SlotWorks(probation.prev) => slot[probation.prev].proven
  BY ProbationFacts
<1>2. ASSUME NEW r, r = locals
      PROVE  r = [ver |-> probation.ver, to |-> "none", prev |-> probation.prev, count |-> 0]
  BY <1>2 DEF NoJob
<1> HIDE DEF locals
<1>3. locals \in Jobs /\ locals.ver = probation.ver /\ locals.prev = probation.prev
  <2>1. locals = [ver |-> probation.ver, to |-> "none", prev |-> probation.prev, count |-> 0]
    BY <1>2
  <2> QED
    BY <1>1, <2>1, Names DEF Jobs
<1>4. /\ ProcessesOK' /\ Only(Timer) /\ pc'[Timer] = next /\ act' = act
      /\ job'[Timer] = locals /\ UNCHANGED misread
  BY <1>1, <1>3, WorkAsShape DEF Safe, LockedSteps, locals
<1>5. ~RollbackPending'
  BY <1>1 DEF RollbackPending, slots
<1>6. Checking(Timer)' /\ Informed(Timer)'
  BY <1>1, <1>3, <1>4, <1>5 DEF Checking, Informed, SlotWorks, slots
<1>7. Sound(Timer)'
  BY <1>1, <1>4, <1>6, SoundAtNext
<1> QED
  BY <1>1, <1>4, <1>7, QuietStep DEF Safe, FilesOK, counts, data, LockedSteps

\* An expired probation is promoted.
LEMMA PromoteSafe ==
    ASSUME Safe, Promote PROVE Safe'
BY ProbationTaken DEF Promote

\* One that is not has its health checked.
LEMMA CheckHealthSafe ==
    ASSUME Safe, CheckHealth PROVE Safe'
BY ProbationTaken DEF CheckHealth

\* What the timer still knows when it promotes, or the health check answers.
LEMMA CheckingFacts ==
    ASSUME Safe, pc[Timer] \in {"promote", "checking"}
    PROVE  /\ Timer \in Procs /\ act[Timer] = link /\ link \in Slots
           /\ job[Timer].prev = Other(link) /\ job[Timer].ver \in Released
           /\ ~RollbackPending /\ rolling = [t \in Slots |-> NoRollback]
           /\ inflight[link] = 0 /\ synced = link
           /\ ~misread /\ SlotWorks(job[Timer].prev) => slot[job[Timer].prev].proven
<1>1. /\ Timer \in Procs /\ act[Timer] = link /\ link \in Slots
      /\ job[Timer].prev = Other(link) /\ job[Timer].ver \in Released
      /\ ~RollbackPending /\ inflight[link] = 0 /\ synced = link
      /\ ~misread /\ SlotWorks(job[Timer].prev) => slot[job[Timer].prev].proven
  BY Names, LinkSynced DEF Safe, Sound, Informed, Checking, FilesOK, LockedSteps
<1>2. rolling = [t \in Slots |-> NoRollback]
  BY <1>1 DEF Safe, FilesOK, RollbackPending
<1> QED
  BY <1>1, <1>2

\* The old slot goes, and the live one counts as proven.
LEMMA PromoteSlotSafe ==
    ASSUME Safe, PromoteSlot PROVE Safe'
<1> DEFINE s == job[Timer].prev
<1>1. /\ pc[Timer] = "promote"
      /\ UNCHANGED <<link, synced, activeFile, probation, counts, data>>
  BY DEF PromoteSlot
<1>2. /\ Timer \in Procs /\ act[Timer] = link /\ link \in Slots
      /\ s = Other(link) /\ job[Timer].ver \in Released
      /\ ~RollbackPending /\ rolling = [t \in Slots |-> NoRollback]
      /\ inflight[link] = 0 /\ synced = link
  BY <1>1, CheckingFacts
<1>3. s \in Slots /\ s # link /\ \A t \in Slots : t = link \/ t = s
  BY <1>2, TwoSlots
<1>4. CASE End(Timer) /\ UNCHANGED <<slot, inflight, rolling>>
  BY <1>1, <1>2, <1>4, QuietEnd DEF Safe, FilesOK, slots, counts, data, LockedSteps
<1>5. CASE /\ slot' = [slot EXCEPT ![s] = NoVenv, ![act[Timer]].proven = TRUE]
           /\ inflight' = [inflight EXCEPT ![s] = 0]
           /\ rolling' = [rolling EXCEPT ![s] = NoRollback]
           /\ Work(Timer, "promoteFile")
  <2>1. /\ ProcessesOK' /\ Only(Timer) /\ pc'[Timer] = "promoteFile" /\ act' = act
        /\ job' = job /\ UNCHANGED misread
    BY <1>1, <1>2, <1>5, WorkShape DEF Safe, LockedSteps
  <2>2. slot[link] \in Venvs /\ NoVenv \in Venvs
    BY <1>2 DEF Safe, FilesOK, Venvs, NoVenv
  <2>3. [slot[link] EXCEPT !.proven = TRUE] \in Venvs
    BY <2>2 DEF Venvs
  <2>4. /\ slot' \in [Slots -> Venvs] /\ slot'[link].proven
        /\ slot'[link].ver = slot[link].ver
    <3>1. slot' = [slot EXCEPT ![s] = NoVenv, ![link].proven = TRUE]
      BY <1>2, <1>5
    <3>2. /\ slot'[link] = [slot[link] EXCEPT !.proven = TRUE]
          /\ slot' \in [Slots -> Venvs]
      BY <1>2, <1>3, <2>2, <2>3, <3>1 DEF Safe, FilesOK
    <3> QED
      BY <2>2, <3>2 DEF Venvs
  <2>5. /\ inflight' \in [Slots -> Versions \cup {0}]
        /\ rolling' \in [Slots -> Rollbacks \cup {NoRollback}]
        /\ \A t \in Slots : inflight'[t] = 0 /\ rolling'[t] = NoRollback
    BY <1>2, <1>3, <1>5 DEF Safe, FilesOK
  <2>6. FilesOK'
    BY <1>1, <2>1, <2>4, <2>5 DEF Safe, FilesOK, counts, data
  <2>7. MarkersSound'
    BY <2>5 DEF MarkersSound
  <2>8. ProbationSound'
    <3> SUFFICES ASSUME probation # NoProbation PROVE ProbationSound'
      BY <1>1 DEF ProbationSound
    <3>1. /\ probation.ver \in Released /\ probation.prev \in Slots
          /\ probation.prev # link /\ (disk = DiskOf(slot[synced].ver) \/ partial)
      BY <1>2 DEF Safe, ProbationSound, FilesOK, Probations
    <3>2. probation.prev = s /\ Other(s) = link
      BY <1>2, <1>3, <3>1, TwoSlots
    <3>3. ~SlotWorks(s)'
      <4>1. slot' = [slot EXCEPT ![s] = NoVenv, ![link].proven = TRUE]
        BY <1>2, <1>5
      <4>2. slot'[s] = NoVenv
        BY <1>2, <1>3, <4>1 DEF Safe, FilesOK
      <4> QED
        BY <2>1, <4>2 DEF SlotWorks, NoVenv
    <3> QED
      BY <1>1, <1>2, <2>1, <2>4, <3>1, <3>2, <3>3 DEF ProbationSound, DiskOf, data
  <2>9. LiveSound'
    <3>1. SlotWorks(link)' /\ Covered(link)'
      BY <1>1, <2>4 DEF Safe, LiveSound, SlotWorks, Covered
    <3> QED
      BY <1>1, <1>2, <3>1, LiveSoundNext
  <2>10. CrashConsistent'
    BY <1>1, <1>2, <2>4 DEF Safe, CrashConsistent, DiskOf, data
  <2>11. Checking(Timer)' /\ Informed(Timer)'
    BY <1>1, <1>2, <2>1, <2>4 DEF Checking, Informed
  <2>12. Sound(Timer)'
    BY <1>2, <2>1, <2>11, SoundAtNext
  <2>13. \A q \in Procs : Sound(q)'
    BY <1>1, <1>2, <2>1, <2>12, OthersSound DEF LockedSteps
  <2>14. TimerSound'
    BY <2>1 DEF TimerSound
  <2> QED
    BY <2>1, <2>6, <2>7, <2>8, <2>9, <2>10, <2>13, <2>14 DEF Safe
<1> QED
  BY <1>4, <1>5 DEF PromoteSlot

\* The probation of a promoted release ends.
LEMMA PromoteFileSafe ==
    ASSUME Safe, PromoteFile PROVE Safe'
<1>1. /\ pc[Timer] = "promoteFile" /\ probation' = NoProbation
      /\ Work(Timer, "promoteCount") /\ UNCHANGED <<slots, counts, data>> /\ Timer \in Procs
  BY Names DEF PromoteFile
<1>2. /\ ProcessesOK' /\ Only(Timer) /\ pc'[Timer] = "promoteCount" /\ act' = act
      /\ job' = job /\ UNCHANGED misread
  BY <1>1, WorkShape DEF Safe, LockedSteps
<1>3. /\ slot[link].proven /\ synced = link /\ act[Timer] \in Slots
      /\ job[Timer].ver \in Released
  BY <1>1, LinkSynced DEF Safe, Sound, Informed, Checking, LockedSteps
<1>4. FilesOK'
  BY <1>1, <1>2 DEF Safe, FilesOK, slots, counts, data
<1>5. MarkersSound'
  BY <1>1, <1>2, MarkersFrame DEF Safe, slots
<1>6. ProbationSound'
  BY <1>1, NoProbationSound
<1>7. LiveSound'
  <2>1. SlotWorks(link)' /\ Covered(link)'
    BY <1>1, <1>3 DEF Safe, LiveSound, SlotWorks, Covered, slots
  <2> QED
    BY <1>1, <1>3, <2>1, LiveSoundNext DEF slots
<1>8. CrashConsistent'
  BY <1>1 DEF Safe, CrashConsistent, RollbackPending, DiskOf, slots, data
<1>9. Sound(Timer)'
  <2>1. Checking(Timer)' /\ Informed(Timer)'
    BY <1>1, <1>2, <1>3 DEF Checking, Informed
  <2> QED
    BY <1>1, <1>2, <2>1, SoundAtNext
<1>10. \A q \in Procs : Sound(q)'
  BY <1>1, <1>2, <1>9, OthersSound DEF LockedSteps
<1>11. TimerSound'
  BY <1>2 DEF TimerSound
<1> QED
  BY <1>2, <1>4, <1>5, <1>6, <1>7, <1>8, <1>10, <1>11 DEF Safe

\* Its count is forgotten.
LEMMA PromoteCountSafe ==
    ASSUME Safe, PromoteCount PROVE Safe'
BY Names, QuietEnd
   DEF PromoteCount, Safe, FilesOK, slots, counts, data, LockedSteps

\* Healthy, or not known to be unhealthy: nothing happens.
LEMMA CheckHealthOkSafe ==
    ASSUME Safe, CheckHealthOk PROVE Safe'
BY Names, QuietEnd
   DEF CheckHealthOk, Safe, FilesOK, slots, counts, data, LockedSteps

\* Unhealthy: it rolls back.
LEMMA CheckHealthCriticalSafe ==
    ASSUME Safe, CheckHealthCritical PROVE Safe'
<1>1. /\ pc[Timer] = "checking" /\ RollBack(Timer, job[Timer].ver, job[Timer].prev, 0)
      /\ UNCHANGED <<slots, probation, counts, data>>
  BY DEF CheckHealthCritical
<1>2. /\ Timer \in Procs /\ act[Timer] = link /\ link \in Slots
      /\ job[Timer].prev = Other(link) /\ job[Timer].ver \in Released /\ ~RollbackPending
      /\ ~misread /\ SlotWorks(job[Timer].prev) => slot[job[Timer].prev].proven
  BY <1>1, CheckingFacts
<1>3. pc[Timer] \in LockedSteps \ {"swapFile", "swapSync"} /\ 0 \in 0 .. 2
  BY <1>1 DEF LockedSteps
<1> QED
  BY <1>1, <1>2, <1>3, RollBackSafe

-----------------------------------------------------------------------------
(* The invariant holds.                                                    *)

\* No step of an upgrade breaks it.
LEMMA UpgradeSafe ==
    ASSUME Safe, NEW p \in Procs, Upgrade(p) PROVE Safe'
BY TakeForUpgradeSafe, PrepareSafe, BuiltSafe, PreflightFailsSafe, GiveUpSafe, StashSafe,
   MarkInflightSafe, HealthOkSafe, HealthCriticalSafe, EnterProbationSafe, UnmarkSafe
   DEF Upgrade

\* Nor one of a swap or a rollback.
LEMMA SwitchSafe ==
    ASSUME Safe, NEW p \in Procs, Switch(p) PROVE Safe'
BY SwapLinkSafe, SwapFileSafe, SwapSyncSafe, ApplyBeginsSafe, ApplyEndsSafe, ApplyFailsSafe,
   MarkRollbackSafe, DropProbationSafe, RestoreStashSafe, RestoreFailsSafe, PartialSafe,
   PartialDoneSafe, DropMarkerSafe, CountInterruptionSafe, AddBlocklistSafe
   DEF Switch

\* Nor one of check-probation.
LEMMA CheckSafe ==
    ASSUME Safe, Check PROVE Safe'
BY TakeForCheckSafe, ResumeRollbackSafe, RecoverUpgradeSafe, RemoveOrphanSafe,
   ProbationUnusableSafe, PromoteSafe, PromoteSlotSafe, PromoteFileSafe, PromoteCountSafe,
   CheckHealthSafe, CheckHealthOkSafe, CheckHealthCriticalSafe
   DEF Check

\* Nothing happens.
LEMMA StutterSafe ==
    ASSUME Safe, UNCHANGED vars PROVE Safe'
<1>1. /\ UNCHANGED <<slot, inflight, rolling, link, synced, activeFile, probation>>
      /\ UNCHANGED <<blocklist, interrupted, disk, stash, partial, lock, pc, act, job, misread>>
  BY DEF vars, slots, counts, data
<1>2. FilesOK' /\ ProcessesOK'
  BY <1>1 DEF Safe, FilesOK, ProcessesOK
<1>3. MarkersSound' /\ ProbationSound'
  BY <1>1, MarkersFrame, ProbationFrame DEF Safe
<1>4. LiveSound' /\ CrashConsistent' /\ TimerSound'
  BY <1>1
     DEF Safe, LiveSound, SlotWorks, Covered, CrashConsistent, RollbackPending, DiskOf, TimerSound
<1>5. \A q \in Procs : Sound(q)'
  BY <1>1, SoundFrame DEF Safe
<1> QED
  BY <1>2, <1>3, <1>4, <1>5 DEF Safe

\* No step breaks the invariant.
LEMMA NextSafe ==
    ASSUME Safe, [Next]_vars PROVE Safe'
<1>1. ASSUME NEW p \in Procs, Step(p) PROVE Safe'
  BY <1>1, UpgradeSafe, SwitchSafe, DeclineSafe, CheckSafe DEF Step
<1>2. CASE Fault
  BY <1>2, PowerCutSafe, KillSafe DEF Fault
<1> QED
  BY <1>1, <1>2, StartSafe, ClearSafe, InteractSafe, ExpireSafe, StutterSafe DEF Next

\* The invariant of the platform upgrade.
THEOREM SafeHolds ==
    Spec => []Safe
<1>1. Init => Safe
  BY InitSafe
<1>2. Safe /\ [Next]_vars => Safe'
  BY NextSafe
<1> QED
  BY <1>1, <1>2, PTL DEF Spec

-----------------------------------------------------------------------------
(* env-active and active-slot.  With two shims beside the timer the two may *)
(* come to disagree unmarked: one shim's rollback is killed between them,   *)
(* the timer, which read the slot before, finishes it, and the other shim,  *)
(* which read it before too, takes the last marker away with the standby.   *)
(* UpgradesInView excludes that shim's step and no other.                   *)

\* The timer upgrades nothing.
TimerChecks ==
    /\ pc[Timer] \notin {"prepare", "build", "stash", "mark", "health", "probation", "unmark"}
    /\ pc[Timer] \in {"swap", "swapFile", "swapSync", "apply", "applying"} => InRollback(Timer)

\* Where link and file disagree, a marker says so, and it outlives the timer's
\* rollback; a shim that installs never finds them apart.
Agreed ==
    /\ link # activeFile =>
          \/ RollbackPending
          \/ probation = NoProbation /\ \E s \in Slots : inflight[s] # 0
    /\ \A p \in Shims :
          pc[p] \in LockedSteps \ {"swapFile"} /\ (pc[p] = "prepare" => act[p] = link)
          => link = activeFile
    /\ pc[Timer] \notin {"idle", "swapFile"} /\ link # activeFile =>
          \E s \in Slots : inflight[s] # 0
    /\ pc[Timer] \in {"lock", "resume", "recover", "probe", "promote", "checking"}
       /\ link # activeFile => RollbackPending \/ inflight[link] # 0

AgreedInv == Safe /\ TimerChecks /\ Agreed

\* No upgrade begins on the live slot over a swap that was cut short.
UpgradesInView ==
    \A p \in Shims : TakeForUpgrade(p) /\ act[p] = link => link = activeFile

\* The timer is no shim.
LEMMA ShimsAndTimer ==
    /\ \A p \in Shims : p \in Procs /\ p # Timer
    /\ \A p \in Procs : p # Timer => p \in Shims
BY ShimAssumption DEF Procs, Timer

\* Link and file agree.
LEMMA AgreedNow ==
    ASSUME link' = activeFile' PROVE Agreed'
BY DEF Agreed

\* The timer's step is another's.
LEMMA TimerChecksFrame ==
    ASSUME TimerChecks, pc'[Timer] = pc[Timer], job'[Timer] = job[Timer]
    PROVE  TimerChecks'
BY DEF TimerChecks, InRollback

\* It checks, or goes on.
LEMMA TimerChecksNext ==
    ASSUME pc'[Timer] \notin {"prepare", "build", "stash", "mark", "health", "probation",
                              "unmark", "swap", "swapFile", "swapSync", "apply", "applying"}
    PROVE  TimerChecks'
BY DEF TimerChecks

\* Nothing that link and file depend on changed, and no process is further on.
LEMMA AgreedFrame ==
    ASSUME Agreed, UNCHANGED <<link, activeFile, inflight, rolling>>,
           probation' = probation \/ probation' = NoProbation \/ RollbackPending,
           \A p \in Shims : pc'[p] \in LockedSteps => pc'[p] = pc[p] /\ act'[p] = act[p],
           pc'[Timer] \notin {"idle", "swapFile"} => pc[Timer] \notin {"idle", "swapFile"},
           pc'[Timer] \in {"lock", "resume", "recover", "probe", "promote", "checking"} =>
              pc[Timer] \in {"lock", "resume", "recover", "probe", "promote", "checking"}
    PROVE  Agreed'
<1>1. RollbackPending' <=> RollbackPending
  BY DEF RollbackPending
<1> QED
  BY <1>1 DEF Agreed

\* A step of an installing shim that swaps nothing.
LEMMA ShimAgrees ==
    ASSUME AgreedInv, NEW p \in Shims, pc[p] \in LockedSteps \ {"swapFile"},
           pc[p] = "prepare" => act[p] = link,
           UNCHANGED <<link, activeFile>>, Only(p)
    PROVE  TimerChecks' /\ Agreed'
<1>1. link = activeFile
  BY DEF AgreedInv, Agreed
<1>2. pc'[Timer] = pc[Timer] /\ job'[Timer] = job[Timer]
  BY Names, ShimsAndTimer DEF Only
<1> QED
  BY <1>1, <1>2, AgreedNow, TimerChecksFrame DEF AgreedInv

\* A step of the timer's rollback that swaps nothing: where link and file
\* disagree, an upgrade is marked too.
LEMMA TimerAgrees ==
    ASSUME AgreedInv, pc[Timer] \in LockedSteps \ {"swapFile"},
           UNCHANGED <<link, activeFile, inflight>>, Only(Timer),
           probation' = NoProbation
           \/ (probation' = probation /\ (RollbackPending => RollbackPending')),
           pc'[Timer] \notin {"lock", "resume", "recover", "probe", "promote", "checking"},
           TimerChecks'
    PROVE  Agreed'
<1>1. CASE link = activeFile
  BY <1>1, AgreedNow
<1>2. CASE link # activeFile
  <2>1. \E s \in Slots : inflight[s] # 0
    BY <1>2 DEF AgreedInv, Agreed, LockedSteps
  <2>2. RollbackPending' \/ probation' = NoProbation
    BY <1>2 DEF AgreedInv, Agreed
  <2>3. \A p \in Shims : pc'[p] \notin LockedSteps
    <3>1. ASSUME NEW p \in Shims PROVE pc[p] \in {"idle", "lock"} /\ pc'[p] = pc[p]
      BY ShimsAndTimer, Names, Alone DEF AgreedInv, Safe, Only
    <3> QED
      BY <3>1 DEF LockedSteps
  <2> QED
    BY <2>1, <2>2, <2>3 DEF Agreed
<1> QED
  BY <1>1, <1>2

\* The steps of an upgrade past its first one leave link and file alone.
LEMMA UpgradeKeepsLink ==
    ASSUME ProcessesOK, NEW p \in Procs, Upgrade(p), ~TakeForUpgrade(p)
    PROVE  /\ pc[p] \in {"prepare", "build", "stash", "mark", "health", "probation", "unmark"}
           /\ pc[p] = "prepare" => Prepare(p)
           /\ UNCHANGED <<link, activeFile>> /\ Only(p)
<1>1. CASE Prepare(p)
  BY <1>1 DEF Prepare, Work, End, Exit, ProcessesOK, Only
<1>2. CASE Built(p) \/ PreflightFails(p) \/ GiveUp(p) \/ Stash(p) \/ MarkInflight(p)
  BY <1>2
     DEF Built, PreflightFails, GiveUp, Stash, MarkInflight, Work, End, Exit, ProcessesOK, Only,
         slots
<1>3. CASE HealthOk(p) \/ HealthCritical(p) \/ EnterProbation(p) \/ Unmark(p)
  BY <1>3
     DEF HealthOk, HealthCritical, EnterProbation, Unmark, Work, RollBack, WorkAs, End, Exit,
         ProcessesOK, Only, slots
<1> QED
  BY <1>1, <1>2, <1>3 DEF Upgrade

SwitchSteps ==
    {"swapSync", "apply", "applying", "rollback", "dropProbation", "restore", "partial",
     "partialDone", "dropMarker", "count", "blocklist"}

\* Nor do those of a rollback outside the swap touch them; markers and the
\* probation only go.
LEMMA SwitchKeepsLink ==
    ASSUME ProcessesOK, NEW p \in Procs, Switch(p), ~SwapLink(p), ~SwapFile(p)
    PROVE  /\ pc[p] \in SwitchSteps /\ UNCHANGED <<link, activeFile, inflight>> /\ Only(p)
           /\ pc[p] \notin {"partialDone", "dropMarker"} =>
                 probation' = NoProbation
                 \/ (probation' = probation /\ (rolling' = rolling \/ pc[p] = "rollback"))
           /\ pc[p] \in {"partialDone", "dropMarker"} => probation' = probation
           /\ pc'[p] \in SwitchSteps \cup {"health", "idle", "swap"}
<1>1. CASE SwapSync(p) \/ ApplyBegins(p) \/ ApplyEnds(p)
  BY <1>1
     DEF SwapSync, ApplyBegins, ApplyEnds, Work, ProcessesOK, Only, SwitchSteps, slots
<1>2. CASE ApplyFails(p) \/ DropProbation(p) \/ RestoreStash(p) \/ RestoreFails(p)
  BY <1>2
     DEF ApplyFails, RollBack, WorkAs, DropProbation, RestoreStash, RestoreFails, Work,
         ProcessesOK, Only, SwitchSteps, slots
<1>3. CASE MarkRollback(p)
  BY <1>3 DEF MarkRollback, Work, End, Exit, ProcessesOK, Only, SwitchSteps
<1>4. CASE Partial(p) \/ PartialDone(p) \/ DropMarker(p) \/ CountInterruption(p)
           \/ AddBlocklist(p)
  BY <1>4
     DEF Partial, PartialDone, DropMarker, CountInterruption, AddBlocklist, Work, End, Exit,
         ProcessesOK, Only, SwitchSteps, slots
<1> QED
  BY <1>1, <1>2, <1>3, <1>4 DEF Switch

\* Nor check-probation's.
LEMMA CheckKeepsLink ==
    ASSUME Check PROVE UNCHANGED <<link, activeFile>>
<1>1. CASE TakeForCheck \/ ResumeRollback \/ RecoverUpgrade \/ RemoveOrphan
  BY <1>1 DEF TakeForCheck, Take, ResumeRollback, RecoverUpgrade, RemoveOrphan, slots
<1>2. CASE ProbationUnusable \/ Promote \/ PromoteSlot \/ PromoteFile \/ PromoteCount
  BY <1>2 DEF ProbationUnusable, Promote, PromoteSlot, PromoteFile, PromoteCount, slots
<1>3. CASE CheckHealth \/ CheckHealthOk \/ CheckHealthCritical
  BY <1>3 DEF CheckHealth, CheckHealthOk, CheckHealthCritical, slots
<1> QED
  BY <1>1, <1>2, <1>3 DEF Check

\* An upgrade's first step is taken in view of the swaps; the others change
\* nothing that is not marked.
LEMMA UpgradeAgrees ==
    ASSUME AgreedInv, UpgradesInView, NEW p \in Procs, Upgrade(p)
    PROVE  TimerChecks' /\ Agreed'
<1>1. CASE TakeForUpgrade(p)
  <2>1. p # Timer /\ pc[p] = "lock" /\ ~RollbackPending /\ p \in Shims /\ lock = Free
    BY <1>1, ShimsAndTimer DEF TakeForUpgrade, BeginUpgrade, Take
  <2>2. /\ UNCHANGED <<link, activeFile, inflight, rolling, act>> /\ probation' = NoProbation
        /\ pc' = [pc EXCEPT ![p] = "prepare"]
        /\ \A q \in Procs \ {p} : job'[q] = job[q]
    BY <1>1, <2>1
       DEF TakeForUpgrade, BeginUpgrade, Take, ForgetProbation, slots, AgreedInv, Safe, ProcessesOK
  <2>3. pc'[Timer] = pc[Timer] /\ job'[Timer] = job[Timer] /\ pc'[p] = "prepare"
    BY <2>1, <2>2, Names DEF AgreedInv, Safe, ProcessesOK
  <2>4. \A q \in Shims \ {p} : pc'[q] = pc[q] /\ pc[q] \notin LockedSteps
    BY <2>1, <2>2, ShimsAndTimer, Names DEF AgreedInv, Safe, ProcessesOK
  <2>5. act[p] = link => link = activeFile
    BY <1>1, <2>1 DEF UpgradesInView
  <2>6. RollbackPending' <=> RollbackPending
    BY <2>2 DEF RollbackPending
  <2>7. Agreed'
    BY <2>1, <2>2, <2>3, <2>4, <2>5, <2>6 DEF AgreedInv, Agreed
  <2> QED
    BY <2>3, <2>7, TimerChecksFrame DEF AgreedInv
<1>2. CASE ~TakeForUpgrade(p)
  <2>1. /\ pc[p] \in {"prepare", "build", "stash", "mark", "health", "probation", "unmark"}
        /\ pc[p] = "prepare" => Prepare(p)
        /\ UNCHANGED <<link, activeFile>> /\ Only(p)
    BY <1>2, UpgradeKeepsLink DEF AgreedInv, Safe
  <2>2. p \in Shims /\ pc[p] \in LockedSteps \ {"swapFile"}
    BY <2>1, ShimsAndTimer DEF AgreedInv, TimerChecks, LockedSteps
  <2>3. CASE pc[p] = "prepare" => act[p] = link
    BY <2>1, <2>2, <2>3, ShimAgrees
  <2>4. CASE pc[p] = "prepare" /\ act[p] # link
    <3>1. End(p) /\ UNCHANGED <<slot, inflight, rolling, link, activeFile, probation>>
      <4>1. ~MayRemove(p, job[p].to)
        BY <2>4, TwoSlots
           DEF MayRemove, AgreedInv, Safe, Sound, Preparing, InUpgrade, Informed, FilesOK
      <4> QED
        BY <2>1, <2>4, <4>1 DEF Prepare
    <3>2. /\ Only(p) /\ pc'[p] = "idle" /\ pc'[Timer] = pc[Timer] /\ job'[Timer] = job[Timer]
      BY <2>2, <3>1, Names, ShimsAndTimer, ExitShape DEF End, AgreedInv, Safe, Only
    <3>3. \A q \in Shims : pc'[q] \in LockedSteps => pc'[q] = pc[q] /\ act'[q] = act[q]
      BY <3>2, ShimsAndTimer DEF Only, LockedSteps
    <3> QED
      BY <3>1, <3>2, <3>3, AgreedFrame, TimerChecksFrame DEF AgreedInv
  <2> QED
    BY <2>3, <2>4
<1> QED
  BY <1>1, <1>2

\* A swap is marked until the file follows the link.
LEMMA SwapLinkAgrees ==
    ASSUME AgreedInv, NEW p \in Procs, SwapLink(p)
    PROVE  TimerChecks' /\ Agreed'
<1>1. pc[p] = "swap" /\ UNCHANGED <<activeFile, inflight, rolling, probation>> /\ Swapping(p)
  BY DEF SwapLink, AgreedInv, Safe, Sound
<1>2. \A q \in Shims \ {p} : pc[q] \in {"idle", "lock"}
  BY <1>1, Alone, ShimsAndTimer DEF AgreedInv, Safe, LockedSteps
<1>3. CASE link' = job[p].to /\ Work(p, "swapFile")
  <2>1. Only(p) /\ pc'[p] = "swapFile" /\ act' = act /\ job' = job
    BY <1>1, <1>3, WorkShape DEF AgreedInv, Safe, LockedSteps
  <2>2. RollbackPending' <=> RollbackPending
    BY <1>1 DEF RollbackPending
  <2>3. job[p].to \in Slots
    BY <1>1, TwoSlots DEF Swapping, InUpgrade, InRollback
  <2>4. \/ ~RollbackPending /\ probation = NoProbation /\ inflight[link'] # 0
        \/ RollbackPending /\ (p # Timer => \E s \in Slots : inflight[s] # 0)
    BY <1>1, <1>3, <2>3, TwoSlots DEF Swapping, RollbackPending
  <2>5. \A q \in Shims : pc'[q] \notin LockedSteps \ {"swapFile"}
    BY <1>2, <2>1, ShimsAndTimer DEF Only, LockedSteps
  <2>6. link' \in Slots
    BY <1>3, <2>3
  <2>7. CASE p = Timer
    <3>1. TimerChecks'
      BY <1>1, <2>1, <2>7 DEF AgreedInv, TimerChecks, InRollback
    <3> QED
      BY <1>1, <2>1, <2>2, <2>4, <2>5, <2>6, <2>7, <3>1 DEF Agreed
  <2>8. CASE p # Timer
    <3>1. pc'[Timer] = pc[Timer] /\ job'[Timer] = job[Timer]
      BY <2>1, <2>8, Names DEF Only
    <3>2. Agreed'
      BY <1>1, <2>1, <2>2, <2>4, <2>5, <2>6, <2>8, <3>1 DEF Agreed
    <3> QED
      BY <3>1, <3>2, TimerChecksFrame DEF AgreedInv
  <2> QED
    BY <2>7, <2>8
<1>4. CASE End(p) /\ UNCHANGED link
  <2>1. Only(p) /\ pc'[p] = "idle"
    BY <1>4, ExitShape DEF End, AgreedInv, Safe
  <2>2. \A q \in Shims : pc'[q] \notin LockedSteps
    BY <1>2, <2>1, ShimsAndTimer DEF Only, LockedSteps
  <2>3. (pc'[Timer] = pc[Timer] /\ job'[Timer] = job[Timer]) \/ pc'[Timer] = "idle"
    BY <2>1, Names DEF Only
  <2>4. TimerChecks'
    BY <2>3, TimerChecksFrame, TimerChecksNext DEF AgreedInv
  <2>5. Agreed'
    BY <1>1, <1>4, <2>2, <2>3, AgreedFrame DEF AgreedInv
  <2> QED
    BY <2>4, <2>5
<1> QED
  BY <1>3, <1>4 DEF SwapLink

\* The file follows the link, and a rollback's marker goes where they agree or
\* an upgrade's marker stands.
LEMMA SwitchAgrees ==
    ASSUME AgreedInv, NEW p \in Procs, Switch(p)
    PROVE  TimerChecks' /\ Agreed'
<1>1. CASE SwapLink(p)
  BY <1>1, SwapLinkAgrees
<1>2. CASE SwapFile(p)
  <2>1. /\ pc[p] = "swapFile" /\ activeFile' = job[p].to /\ UNCHANGED <<link, job>>
        /\ pc' = [pc EXCEPT ![p] = "swapSync"]
    BY <1>2 DEF SwapFile
  <2>2. link' = activeFile'
    BY <2>1 DEF AgreedInv, Safe, Sound, Swapping
  <2>3. TimerChecks'
    <3>1. pc'[Timer] = pc[Timer] \/ (pc[Timer] = "swapFile" /\ pc'[Timer] = "swapSync")
      BY <2>1, Names DEF AgreedInv, Safe, ProcessesOK
    <3> QED
      BY <2>1, <3>1 DEF AgreedInv, TimerChecks, InRollback
  <2> QED
    BY <2>2, <2>3, AgreedNow
<1>3. CASE ~SwapLink(p) /\ ~SwapFile(p)
  <2>1. /\ pc[p] \in SwitchSteps /\ UNCHANGED <<link, activeFile, inflight>> /\ Only(p)
        /\ pc[p] \notin {"partialDone", "dropMarker"} =>
              probation' = NoProbation
              \/ (probation' = probation /\ (rolling' = rolling \/ pc[p] = "rollback"))
        /\ pc[p] \in {"partialDone", "dropMarker"} => probation' = probation
        /\ pc'[p] \in SwitchSteps \cup {"health", "idle", "swap"}
    BY <1>3, SwitchKeepsLink DEF AgreedInv, Safe
  <2>2. pc[p] \in LockedSteps \ {"swapFile", "prepare"}
    BY <2>1 DEF SwitchSteps, LockedSteps
  <2>3. CASE p # Timer
    BY <2>1, <2>2, <2>3, ShimsAndTimer, ShimAgrees
  <2>4. CASE p = Timer
    <3>1. pc[p] \in {"apply", "applying"} => InRollback(p)
      BY <2>4 DEF AgreedInv, TimerChecks
    <3>2. TimerChecks'
      <4>1. CASE pc[p] \in {"swapSync", "apply", "applying", "restore"}
        <5>1. InRollback(p) /\ RollingBack(p)
          <6>1. InRollback(p)
            BY <2>4, <4>1 DEF AgreedInv, TimerChecks, Safe, Sound, RolledBack, RollbackSteps
          <6> QED
            BY <6>1 DEF InRollback, RollingBack
        <5>2. job' = job /\ pc'[p] \notin {"prepare", "build", "stash", "mark", "health",
                                          "probation", "unmark"}
          BY <1>3, <4>1, <5>1
             DEF Switch, SwapSync, ApplyBegins, ApplyEnds, ApplyFails, MarkRollback, DropProbation,
                 RestoreStash, RestoreFails, Partial, PartialDone, DropMarker, CountInterruption,
                 AddBlocklist, Work, AgreedInv, Safe, ProcessesOK
        <5> QED
          BY <2>4, <5>1, <5>2 DEF TimerChecks, InRollback
      <4>2. CASE pc[p] = "rollback"
        <5>1. InRollback(p)
          BY <4>2 DEF AgreedInv, Safe, Sound, RollingOut
        <5>2. (job' = job \/ pc'[p] = "idle") /\ pc'[p] \in {"idle", "swap", "dropProbation"}
          BY <1>3, <4>2
             DEF Switch, SwapSync, ApplyBegins, ApplyEnds, ApplyFails, MarkRollback, DropProbation,
                 RestoreStash, RestoreFails, Partial, PartialDone, DropMarker, CountInterruption,
                 AddBlocklist, Work, End, Exit, AgreedInv, Safe, ProcessesOK
        <5> QED
          BY <2>4, <5>1, <5>2 DEF TimerChecks, InRollback
      <4>3. CASE pc[p] \in {"dropProbation", "partial", "partialDone", "dropMarker", "count",
                            "blocklist"}
        <5>1. pc'[p] \in {"restore", "partialDone", "idle", "blocklist", "count"}
          BY <1>3, <4>3
             DEF Switch, SwapSync, ApplyBegins, ApplyEnds, ApplyFails, MarkRollback, DropProbation,
                 RestoreStash, RestoreFails, Partial, PartialDone, DropMarker, CountInterruption,
                 AddBlocklist, Work, End, Exit, AgreedInv, Safe, ProcessesOK
        <5> QED
          BY <2>4, <5>1, TimerChecksNext
      <4> QED
        BY <2>1, <4>1, <4>2, <4>3 DEF SwitchSteps
    <3>3. probation' = NoProbation
          \/ (probation' = probation /\ (RollbackPending => RollbackPending'))
      <4>1. CASE pc[p] \in {"partialDone", "dropMarker"}
        BY <2>1, <4>1 DEF AgreedInv, Safe, Sound, RolledBack, RollbackSteps
      <4>2. CASE pc[p] = "rollback"
        BY <2>1, <4>2 DEF AgreedInv, Safe, Sound, RollingOut
      <4>3. CASE pc[p] \notin {"partialDone", "dropMarker", "rollback"}
        BY <2>1, <4>3 DEF RollbackPending
      <4> QED
        BY <4>1, <4>2, <4>3
    <3>4. pc'[Timer] \notin {"lock", "resume", "recover", "probe", "promote", "checking"}
      BY <2>1, <2>4 DEF SwitchSteps
    <3> QED
      BY <2>1, <2>2, <2>4, <3>2, <3>3, <3>4, TimerAgrees
  <2> QED
    BY <2>3, <2>4
<1> QED
  BY <1>1, <1>2, <1>3

\* check-probation never upgrades.
LEMMA CheckChecks ==
    ASSUME AgreedInv, Check
    PROVE  TimerChecks'
<1>1. Timer \in Procs /\ act[Timer] \in Slots \cup {"none"}
      /\ pc \in [Procs -> LockedSteps \cup {"idle", "lock"}]
      /\ job \in [Procs -> Jobs]
  BY Names DEF AgreedInv, Safe, ProcessesOK
<1>2. CASE ResumeRollback
  <2>1. CASE pc'[Timer] # "swap"
    BY <1>1, <1>2, <2>1, TimerChecksNext DEF ResumeRollback, Work, WorkAs, End, Exit
  <2>2. CASE pc'[Timer] = "swap"
    <3> DEFINE s == IF rolling[act[Timer]] # NoRollback THEN act[Timer] ELSE Other(act[Timer])
    <3>1. s \in Slots
      BY <1>2, Names, TwoSlots DEF AgreedInv, Safe, Sound, Informed, ResumeRollback
    <3>2. job'[Timer].to = s /\ job'[Timer].prev = s
      BY <1>1, <1>2, <2>2 DEF ResumeRollback, Work, WorkAs, End, Exit
    <3> QED
      BY <2>2, <3>1, <3>2 DEF TimerChecks, InRollback
  <2> QED
    BY <2>1, <2>2
<1>3. CASE TakeForCheck \/ RecoverUpgrade \/ RemoveOrphan \/ ProbationUnusable
  <2>1. pc'[Timer] \in {"resume", "probe", "rollback", "idle"}
    BY <1>1, <1>3
       DEF TakeForCheck, Take, RecoverUpgrade, RemoveOrphan, ProbationUnusable, Work, RollBack,
           WorkAs, End, Exit
  <2> QED
    BY <2>1, TimerChecksNext
<1>4. CASE Promote \/ PromoteSlot \/ PromoteFile \/ PromoteCount \/ CheckHealth \/ CheckHealthOk
           \/ CheckHealthCritical
  <2>1. pc'[Timer] \in {"promote", "promoteFile", "promoteCount", "checking", "rollback", "idle"}
    BY <1>1, <1>4
       DEF Promote, PromoteSlot, PromoteFile, PromoteCount, CheckHealth, CheckHealthOk,
           CheckHealthCritical, Work, RollBack, WorkAs, End, Exit
  <2> QED
    BY <2>1, TimerChecksNext
<1> QED
  BY <1>2, <1>3, <1>4 DEF Check

\* Where it finds link and file apart, check-probation removes no marker before
\* it has rolled back.
LEMMA CheckAgrees ==
    ASSUME AgreedInv, Check
    PROVE  TimerChecks' /\ Agreed'
<1>1. TimerChecks' /\ UNCHANGED <<link, activeFile>>
  BY CheckChecks, CheckKeepsLink
<1>2. CASE link = activeFile
  BY <1>1, <1>2, AgreedNow
<1>3. CASE link # activeFile
  <2>1. /\ Timer \in Procs /\ Sound(Timer) /\ link \in Slots
        /\ pc \in [Procs -> LockedSteps \cup {"idle", "lock"}]
    BY Names DEF AgreedInv, Safe, FilesOK, ProcessesOK
  <2>2. \A p \in Shims : pc[p] \notin LockedSteps \/ pc[p] \in {"swapFile", "prepare"}
    BY <1>3 DEF AgreedInv, Agreed, LockedSteps
  <2>3. /\ RollbackPending \/ (probation = NoProbation /\ \E s \in Slots : inflight[s] # 0)
        /\ pc[Timer] \notin {"idle", "swapFile"} => \E s \in Slots : inflight[s] # 0
        /\ pc[Timer] \in {"lock", "resume", "recover", "probe", "promote", "checking"} =>
              RollbackPending \/ inflight[link] # 0
    BY <1>3 DEF AgreedInv, Agreed
  <2>4. CASE TakeForCheck
    <3>1. /\ pc[Timer] = "lock" /\ pc' = [pc EXCEPT ![Timer] = "resume"]
          /\ UNCHANGED <<act, inflight, rolling, probation>>
      BY <2>4 DEF TakeForCheck, Take, slots
    <3>2. \A p \in Shims : pc'[p] = pc[p] /\ act'[p] = act[p]
      BY <2>1, <3>1, ShimsAndTimer
    <3> QED
      BY <1>1, <2>1, <3>1, <3>2, AgreedFrame DEF AgreedInv
  <2>5. CASE ~TakeForCheck
    <3>1. pc[Timer] \in {"resume", "recover", "probe", "promote", "promoteFile", "promoteCount",
                         "checking"}
      BY <2>5
         DEF Check, ResumeRollback, RecoverUpgrade, RemoveOrphan, ProbationUnusable, Promote,
             PromoteSlot, PromoteFile, PromoteCount, CheckHealth, CheckHealthOk,
             CheckHealthCritical
    <3>2. pc[Timer] \notin {"promote", "checking"} /\ (pc[Timer] = "probe" => act[Timer] # link)
      BY <2>1, <2>3 DEF AgreedInv, Safe, Sound, Checking
    <3>3. pc[Timer] \in {"recover", "probe"} => ~RollbackPending /\ ~OnProbation(act[Timer])
      BY <2>1, <2>3 DEF Sound, Checking, OnProbation
    <3>4. UNCHANGED <<inflight, rolling>> /\ probation' \in {probation, NoProbation}
      <4>1. CASE ResumeRollback \/ PromoteFile \/ PromoteCount \/ ProbationUnusable
        BY <4>1 DEF ResumeRollback, PromoteFile, PromoteCount, ProbationUnusable, slots
      <4>2. CASE RecoverUpgrade
        BY <3>3, <4>2 DEF RecoverUpgrade
      <4>3. CASE RemoveOrphan
        <5>1. ~MayRemove(Timer, Other(act[Timer]))
          <6>1. act[Timer] \in Slots
            BY <2>1, <4>3 DEF RemoveOrphan, Sound, Informed
          <6>2. link = Other(act[Timer])
            BY <2>1, <3>2, <4>3, <6>1, TwoSlots DEF RemoveOrphan
          <6> QED
            BY <6>2 DEF MayRemove
        <5> QED
          BY <4>3, <5>1 DEF RemoveOrphan, ForgetProbation
      <4> QED
        BY <2>5, <3>1, <3>2, <3>3, <4>1, <4>2, <4>3
           DEF Check, Promote, PromoteSlot, CheckHealth, CheckHealthOk, CheckHealthCritical
    <3>5. \A p \in Shims : pc'[p] = pc[p] /\ act'[p] = act[p]
      <4>1. Only(Timer)
        <5>1. CASE ResumeRollback \/ PromoteFile \/ PromoteCount \/ ProbationUnusable
          BY <2>1, <5>1
             DEF ResumeRollback, PromoteFile, PromoteCount, ProbationUnusable, Work, WorkAs, End,
                 Exit, Only, AgreedInv, Safe, ProcessesOK
        <5>2. CASE RecoverUpgrade \/ RemoveOrphan
          BY <2>1, <5>2
             DEF RecoverUpgrade, RemoveOrphan, RollBack, Work, WorkAs, End, Exit, Only, AgreedInv,
                 Safe, ProcessesOK
        <5> QED
          BY <2>5, <3>2, <3>3, <5>1, <5>2
             DEF Check, Promote, PromoteSlot, CheckHealth, CheckHealthOk, CheckHealthCritical
      <4> QED
        BY <4>1, ShimsAndTimer DEF Only
    <3>6. pc'[Timer] \in {"lock", "resume", "recover", "probe", "promote", "checking"} =>
             pc[Timer] \in {"resume", "recover", "probe"}
      BY <2>1, <2>5, <3>1, <3>2
         DEF Check, PromoteFile, PromoteCount, Work, End, Exit, ResumeRollback, RecoverUpgrade,
             RemoveOrphan, ProbationUnusable, Promote, PromoteSlot, CheckHealth, CheckHealthOk,
             CheckHealthCritical
    <3>7. pc[Timer] \notin {"idle", "swapFile"}
      BY <3>1
    <3> QED
      BY <1>1, <3>4, <3>5, <3>6, <3>7, AgreedFrame DEF AgreedInv
  <2> QED
    BY <2>4, <2>5
<1> QED
  BY <1>2, <1>3

\* A process that ends, or waits no longer, leaves the files alone.
LEMMA DeclineAgrees ==
    ASSUME AgreedInv, NEW p \in Procs, Decline(p)
    PROVE  TimerChecks' /\ Agreed'
<1>1. /\ pc[p] = "lock" /\ UNCHANGED <<link, activeFile, inflight, rolling, probation>>
      /\ Only(p) /\ pc'[p] = "idle"
  BY ExitShape DEF Decline, End, slots, AgreedInv, Safe
<1>2. \A q \in Shims : pc'[q] \in LockedSteps => pc'[q] = pc[q] /\ act'[q] = act[q]
  BY <1>1, ShimsAndTimer DEF Only, LockedSteps
<1>3. (pc'[Timer] = pc[Timer] /\ job'[Timer] = job[Timer]) \/ pc'[Timer] = "idle"
  BY <1>1, Names DEF Only
<1> QED
  BY <1>1, <1>2, <1>3, AgreedFrame, TimerChecksFrame, TimerChecksNext DEF AgreedInv

\* Starting, and clear-blocklist, make the file follow the link.
LEMMA LoadAgrees ==
    ASSUME AgreedInv, (\E p \in Procs : Start(p)) \/ (\E v \in Released : Clear(v))
    PROVE  TimerChecks' /\ Agreed'
<1>1. link' = activeFile'
  BY DEF Start, Clear, Load
<1>2. (pc'[Timer] = pc[Timer] /\ job'[Timer] = job[Timer]) \/ pc'[Timer] = "lock"
  BY Names DEF Start, Clear, AgreedInv, Safe, ProcessesOK
<1> QED
  BY <1>1, <1>2, AgreedNow, TimerChecksFrame, TimerChecksNext DEF AgreedInv

\* While link and file are apart a probation only stands beside a rollback.
LEMMA ProbationAgrees ==
    ASSUME AgreedInv, Interact \/ Expire
    PROVE  TimerChecks' /\ Agreed'
<1>1. /\ UNCHANGED <<link, activeFile, inflight, rolling, pc, act, job>>
      /\ probation' = NoProbation \/ probation # NoProbation
  BY DEF Interact, Expire, slots
<1>2. TimerChecks'
  BY <1>1, TimerChecksFrame DEF AgreedInv
<1>3. CASE link = activeFile
  BY <1>1, <1>2, <1>3, AgreedNow
<1>4. CASE link # activeFile
  <2>1. probation' = NoProbation \/ RollbackPending
    BY <1>1, <1>4 DEF AgreedInv, Agreed
  <2> QED
    BY <1>1, <1>2, <2>1, AgreedFrame DEF AgreedInv
<1> QED
  BY <1>3, <1>4

\* A process that is killed between link and file leaves its marker.
LEMMA KillAgrees ==
    ASSUME AgreedInv, NEW p \in Procs, Kill(p)
    PROVE  TimerChecks' /\ Agreed'
<1>1. /\ UNCHANGED <<link, activeFile, inflight, rolling, probation>>
      /\ Only(p) /\ pc'[p] = "idle"
  BY ExitShape DEF Kill, End, AgreedInv, Safe
<1>2. \A q \in Shims : pc'[q] \in LockedSteps => pc'[q] = pc[q] /\ act'[q] = act[q]
  BY <1>1, ShimsAndTimer DEF Only, LockedSteps
<1>3. (pc'[Timer] = pc[Timer] /\ job'[Timer] = job[Timer]) \/ pc'[Timer] = "idle"
  BY <1>1, Names DEF Only
<1> QED
  BY <1>1, <1>2, <1>3, AgreedFrame, TimerChecksFrame, TimerChecksNext DEF AgreedInv

\* A power cut takes the link back while the swap is marked.
LEMMA PowerCutAgrees ==
    ASSUME AgreedInv, PowerCut
    PROVE  TimerChecks' /\ Agreed'
<1>1. /\ UNCHANGED <<activeFile, inflight, rolling, probation>> /\ link' \in {link, synced}
      /\ pc' = [q \in Procs |-> "idle"]
  BY DEF PowerCut
<1>2. pc'[Timer] = "idle" /\ \A q \in Shims : pc'[q] \notin LockedSteps
  BY <1>1, Names, ShimsAndTimer DEF LockedSteps
<1>3. TimerChecks'
  BY <1>2, TimerChecksNext
<1>4. RollbackPending' <=> RollbackPending
  BY <1>1 DEF RollbackPending
<1>5. CASE link' = link
  BY <1>1, <1>2, <1>3, <1>5, AgreedFrame DEF AgreedInv
<1>6. CASE link' # link
  <2>1. RollbackPending \/ (probation = NoProbation /\ \E s \in Slots : inflight[s] # 0)
    BY <1>1, <1>6, SwapIsMarked DEF AgreedInv, Safe, FilesOK
  <2> QED
    BY <1>1, <1>2, <1>3, <1>4, <2>1 DEF Agreed
<1> QED
  BY <1>5, <1>6

\* No step parts link and file unmarked, unless an upgrade begins where they are.
LEMMA NextAgrees ==
    ASSUME AgreedInv, [Next]_vars, [UpgradesInView]_vars
    PROVE  AgreedInv'
<1>1. Safe'
  BY NextSafe DEF AgreedInv
<1>2. CASE UNCHANGED vars
  <2>1. UNCHANGED <<link, activeFile, inflight, rolling, probation, pc, act, job>>
    BY <1>2 DEF vars, slots
  <2> QED
    BY <1>1, <2>1, AgreedFrame, TimerChecksFrame DEF AgreedInv
<1>3. CASE Next /\ UpgradesInView
  <2>1. ASSUME NEW p \in Procs, Step(p) PROVE TimerChecks' /\ Agreed'
    BY <1>3, <2>1, UpgradeAgrees, SwitchAgrees, DeclineAgrees, CheckAgrees DEF Step
  <2>2. ASSUME Fault PROVE TimerChecks' /\ Agreed'
    BY <2>2, KillAgrees, PowerCutAgrees DEF Fault
  <2>3. TimerChecks' /\ Agreed'
    BY <1>3, <2>1, <2>2, LoadAgrees, ProbationAgrees DEF Next
  <2> QED
    BY <1>1, <2>3 DEF AgreedInv
<1> QED
  BY <1>2, <1>3

\* At the start link and file agree.
LEMMA InitAgrees ==
    ASSUME Init PROVE AgreedInv
<1>1. pc[Timer] = "idle" /\ link = activeFile
  BY Names DEF Init
<1> QED
  BY <1>1, InitSafe DEF AgreedInv, TimerChecks, Agreed

\* Where link and file agree but for marked swaps, the live slot can be found.
LEMMA AgreedLive ==
    ASSUME AgreedInv PROVE LiveWorks
<1>1. SlotWorks(link) /\ SlotWorks(synced) /\ link \in Slots
  BY DEF AgreedInv, Safe, LiveSound, FilesOK
<1>2. link # activeFile => SwapMarked
  BY DEF AgreedInv, Agreed, SwapMarked
<1>3. synced # link => SwapMarked
  BY <1>1, SwapIsMarked DEF AgreedInv, SwapMarked
<1> QED
  BY <1>1, <1>2, <1>3 DEF LiveWorks

\* With one shim, while it waits the link leaves the file only by the timer's
\* swap, which its rollback's marker outlives.
OneInv ==
    \A p \in Shims :
        pc[p] = "lock" /\ link # activeFile => RollbackPending /\ pc[Timer] \in {"idle", "swapFile"}

\* So it begins no upgrade over a swap cut short.
LEMMA OneInView ==
    ASSUME OneInv, Next PROVE UpgradesInView
BY DEF OneInv, UpgradesInView, TakeForUpgrade

\* The link leaves the file in a swap only, and the steps of a rollback clear
\* its marker only past the swap.
LEMMA OneSwap ==
    ASSUME AgreedInv, NEW p \in Shims, pc[p] = "lock", pc'[p] = "lock",
           \A q \in Shims : q = p,
           pc[Timer] \in {"idle", "swapFile"} \/ link = activeFile,
           link = activeFile \/ RollbackPending,
           Next, link' # activeFile'
    PROVE  RollbackPending' /\ pc'[Timer] \in {"idle", "swapFile"}
<1>1. /\ p \in Procs /\ p # Timer /\ Timer \in Procs /\ \A q \in Procs : q = p \/ q = Timer
      /\ pc \in [Procs -> LockedSteps \cup {"idle", "lock"}] /\ "lock" \notin LockedSteps
  BY ShimsAndTimer, Names DEF AgreedInv, Safe, ProcessesOK, LockedSteps
<1>2. (UNCHANGED <<link, activeFile, rolling>> /\ pc'[Timer] \in {"idle", pc[Timer]})
      \/ SwapLink(Timer)
  <2>1. ~\E q \in Procs : Start(q)
    BY DEF Start, Load
  <2>2. ~\E v \in Released : Clear(v)
    BY DEF Clear, Load
  <2>3. CASE Interact \/ Expire
    BY <2>3 DEF Interact, Expire, slots
  <2>4. CASE Fault
    <3>1. ~PowerCut
      BY <1>1 DEF PowerCut
    <3>2. ASSUME NEW q \in Procs, Kill(q)
          PROVE  UNCHANGED <<link, activeFile, rolling>> /\ pc'[Timer] \in {"idle", pc[Timer]}
      BY <1>1, <3>2 DEF Kill, End, Exit
    <3> QED
      BY <2>4, <3>1, <3>2 DEF Fault
  <2>5. ~Step(p)
    <3>1. ~Upgrade(p)
      <4>1. ~TakeForUpgrade(p)
        BY <1>1 DEF TakeForUpgrade, BeginUpgrade, Take
      <4> QED
        BY <1>1, <4>1, UpgradeKeepsLink DEF AgreedInv, Safe
    <3>2. ~Switch(p)
      BY <1>1, SwitchKeepsLink DEF AgreedInv, Safe, SwapLink, SwapFile, SwitchSteps
    <3>3. ~Decline(p)
      BY <1>1 DEF Decline, End, Exit
    <3> QED
      BY <1>1, <3>1, <3>2, <3>3 DEF Step
  <2>6. CASE Step(Timer)
    <3>1. ~Upgrade(Timer)
      <4>1. ~TakeForUpgrade(Timer)
        BY DEF TakeForUpgrade
      <4> QED
        BY <1>1, <4>1, UpgradeKeepsLink DEF AgreedInv, TimerChecks, Safe
    <3>2. CASE Switch(Timer)
      <4>1. CASE SwapFile(Timer)
        <5>1. link' = activeFile'
          BY <1>1, <4>1 DEF SwapFile, AgreedInv, Safe, Sound, Swapping
        <5> QED
          BY <5>1
      <4>2. CASE ~SwapLink(Timer) /\ ~SwapFile(Timer)
        <5>1. pc[Timer] \in SwitchSteps /\ UNCHANGED <<link, activeFile>>
          BY <1>1, <3>2, <4>2, SwitchKeepsLink DEF AgreedInv, Safe
        <5> QED
          BY <5>1 DEF SwitchSteps
      <4> QED
        BY <4>1, <4>2
    <3>3. ~Decline(Timer)
      BY DEF Decline, slots
    <3>4. ~Check
      <4>1. Check => pc[Timer] \notin {"idle", "swapFile"}
        BY DEF Check, TakeForCheck, ResumeRollback, RecoverUpgrade, RemoveOrphan,
               ProbationUnusable, Promote, PromoteSlot, PromoteFile, PromoteCount, CheckHealth,
               CheckHealthOk, CheckHealthCritical
      <4> QED
        BY <4>1, CheckKeepsLink
    <3> QED
      BY <2>6, <3>1, <3>2, <3>3, <3>4 DEF Step
  <2> QED
    BY <1>1, <2>1, <2>2, <2>3, <2>4, <2>5, <2>6 DEF Next
<1>3. CASE UNCHANGED <<link, activeFile, rolling>> /\ pc'[Timer] \in {"idle", pc[Timer]}
  BY <1>3 DEF RollbackPending
<1>4. CASE SwapLink(Timer)
  <2>1. /\ pc[Timer] = "swap" /\ link = activeFile /\ UNCHANGED <<activeFile, rolling>>
        /\ pc' = [pc EXCEPT ![Timer] = "swapFile"]
    BY <1>4 DEF SwapLink, Work
  <2>2. job[Timer].to \in Slots /\ rolling[job[Timer].to] # NoRollback
    BY <1>1, <2>1, TwoSlots
       DEF AgreedInv, TimerChecks, Safe, Sound, Swapping, InRollback, InUpgrade
  <2> QED
    BY <1>1, <2>1, <2>2 DEF RollbackPending
<1> QED
  BY <1>2, <1>3, <1>4

\* A step does not put a process before the lock, and moves no other.
LEMMA StepShape ==
    ASSUME Safe, NEW q \in Procs, Step(q)
    PROVE  pc'[q] # "lock" /\ \A p \in Procs \ {q} : pc'[p] = pc[p]
<1>1. pc \in [Procs -> LockedSteps \cup {"idle", "lock"}]
  BY DEF Safe, ProcessesOK
<1>2. CASE \E next \in LockedSteps \cup {"idle"} : pc' = [pc EXCEPT ![q] = next]
  BY <1>1, <1>2 DEF LockedSteps
<1>3. CASE Upgrade(q)
  <2>1. \E next \in LockedSteps \cup {"idle"} : pc' = [pc EXCEPT ![q] = next]
    BY <1>3
       DEF Upgrade, TakeForUpgrade, BeginUpgrade, Take, Prepare, Built, PreflightFails, GiveUp,
           Stash, MarkInflight, HealthOk, HealthCritical, EnterProbation, Unmark, Work, RollBack,
           WorkAs, End, Exit, LockedSteps
  <2> QED
    BY <1>2, <2>1
<1>4. CASE Switch(q)
  <2>1. \E next \in LockedSteps \cup {"idle"} : pc' = [pc EXCEPT ![q] = next]
    BY <1>4
       DEF Switch, SwapLink, SwapFile, SwapSync, ApplyBegins, ApplyEnds, ApplyFails,
           MarkRollback, DropProbation, RestoreStash, RestoreFails, Partial, PartialDone,
           DropMarker, CountInterruption, AddBlocklist, Work, RollBack, WorkAs, End, Exit,
           LockedSteps
  <2> QED
    BY <1>2, <2>1
<1>5. CASE q = Timer /\ Check
  <2>1. \E next \in LockedSteps \cup {"idle"} : pc' = [pc EXCEPT ![q] = next]
    BY <1>5
       DEF Check, TakeForCheck, Take, ResumeRollback, RecoverUpgrade, RemoveOrphan,
           ProbationUnusable, Promote, PromoteSlot, PromoteFile, PromoteCount, CheckHealth,
           CheckHealthOk, CheckHealthCritical, Work, RollBack, WorkAs, End, Exit, LockedSteps
  <2> QED
    BY <1>2, <2>1
<1>6. CASE Decline(q)
  BY <1>1, <1>6 DEF Decline, End, Exit
<1> QED
  BY <1>3, <1>4, <1>5, <1>6 DEF Step

\* With one shim, no step makes it wait over a swap cut short.
LEMMA OneNext ==
    ASSUME AgreedInv, OneInv, [Next]_vars, \A p, q \in Shims : p = q
    PROVE  OneInv'
<1>1. CASE UNCHANGED vars
  <2>1. UNCHANGED <<link, activeFile, rolling, pc>>
    BY <1>1 DEF vars, slots
  <2> QED
    BY <2>1 DEF OneInv, RollbackPending
<1>2. CASE Next
  <2>1. SUFFICES ASSUME NEW p \in Shims, pc'[p] = "lock", link' # activeFile'
                 PROVE  RollbackPending' /\ pc'[Timer] \in {"idle", "swapFile"}
    BY DEF OneInv
  <2>2. CASE pc[p] = "lock"
    BY <1>2, <2>1, <2>2, OneSwap DEF OneInv
  <2>3. CASE pc[p] # "lock"
    <3>1. /\ p \in Procs /\ p # Timer /\ pc \in [Procs -> LockedSteps \cup {"idle", "lock"}]
      BY ShimsAndTimer DEF AgreedInv, Safe, ProcessesOK
    <3>2. ASSUME NEW q \in Procs, Step(q) PROVE FALSE
      <4>1. pc'[q] # "lock" /\ (q # p => pc'[p] = pc[p])
        BY <2>1, <3>1, <3>2, StepShape DEF AgreedInv
      <4> QED
        BY <2>1, <2>3, <4>1
    <3>3. ~Fault
      BY <2>1, <2>3, <3>1 DEF Fault, PowerCut, Kill, End, Exit
    <3>4. ~Interact /\ ~Expire
      BY <2>1, <2>3 DEF Interact, Expire
    <3>5. ~(\E q \in Procs : Start(q)) /\ ~(\E v \in Released : Clear(v))
      BY <2>1 DEF Start, Clear, Load
    <3> QED
      BY <1>2, <3>2, <3>3, <3>4, <3>5 DEF Next
  <2> QED
    BY <2>2, <2>3
<1> QED
  BY <1>1, <1>2

-----------------------------------------------------------------------------
(* The refinement: what a step makes of the two venvs.                     *)

TwoVenvs == <<slot[link], slot[Other(link)], misread>>

\* What PlatformSpec is told.
LEMMA MappedVenvs ==
    Platform!avars = TwoVenvs /\ Platform!avars' = TwoVenvs'
BY DEF Platform!avars, TwoVenvs

\* Neither venv changed, and none was swapped for the other.
LEMMA VenvsFrame ==
    ASSUME UNCHANGED <<slot, link, misread>> PROVE UNCHANGED TwoVenvs
BY DEF TwoVenvs

\* A release without a marker or a probation has proven itself.
LEMMA UnmarkedProven ==
    ASSUME Safe, inflight[link] = 0, ~RollbackPending,
           probation = NoProbation \/ probation.prev = link
    PROVE  slot[link].proven \/ misread
<1>1. link \in Slots /\ Other(link) \in Slots /\ Other(link) # link
  BY TwoSlots DEF Safe, FilesOK
<1>2. probation.prev # Other(link)
  BY <1>1, Names
<1>3. rolling[Other(link)] = NoRollback
  BY <1>1 DEF RollbackPending
<1> QED
  BY <1>2, <1>3 DEF Safe, LiveSound, Covered

\* The standby is gone, or is a release that was just built.
LEMMA RebuiltMaps ==
    ASSUME link' = link, slot'[link] = slot[link],
           slot'[Other(link)] = NoVenv
           \/ \E v \in Versions : slot'[Other(link)] = [ver |-> v, proven |-> FALSE],
           misread' \in {misread, TRUE}, slot[link].proven \/ misread'
    PROVE  Platform!Rebuild
<1>1. slot[link]' = slot[link] /\ slot[Other(link)]' = slot'[Other(link)]
  BY DEF Other
<1>2. slot[Other(link)]' \in Platform!Unproven \cup {Platform!None}
  <2>1. CASE slot'[Other(link)] = NoVenv
    BY <1>1, <2>1 DEF Platform!None, NoVenv
  <2>2. ASSUME NEW v \in Versions,
               slot'[Other(link)] = [ver |-> v, proven |-> FALSE]
        PROVE  slot[Other(link)]' \in Platform!Unproven
    <3>1. [ver |-> v, proven |-> FALSE] \in [ver : Versions, proven : {FALSE}]
      OBVIOUS
    <3> QED
      BY <1>1, <2>2, <3>1 DEF Platform!Unproven
  <2> QED
    BY <2>1, <2>2
<1>3. misread' = misread \/ misread' = TRUE
  OBVIOUS
<1> QED
  BY <1>1, <1>2, <1>3 DEF Platform!Rebuild

\* An upgrade removes its standby where the live release has proven itself.
LEMMA StandbyRemoved ==
    ASSUME Safe, NEW p \in Procs, pc[p] \in {"prepare", "build", "stash", "mark"},
           MayRemove(p, job[p].to), Remove(job[p].to), UNCHANGED <<link, misread>>
    PROVE  Platform!Rebuild
<1>1. /\ Preparing(p) /\ act[p] \in Slots /\ link \in Slots
  BY DEF Safe, Sound, Informed, FilesOK
<1>2. act[p] = link
  BY <1>1, TwoSlots DEF Preparing, InUpgrade, MayRemove
<1>3. /\ job[p].to = Other(link) /\ job[p].to \in Slots /\ job[p].to # link
      /\ slot[link].proven \/ misread
  BY <1>2, PreparingFacts
<1>4. slot'[link] = slot[link] /\ slot'[Other(link)] = NoVenv
  BY <1>1, <1>3 DEF Remove, Safe, FilesOK
<1> QED
  BY <1>3, <1>4, RebuiltMaps

\* It builds it there too.
LEMMA StandbyBuilt ==
    ASSUME Safe, NEW p \in Procs, Built(p) PROVE Platform!Rebuild
<1>1. /\ pc[p] = "build" /\ UNCHANGED <<link, misread>>
      /\ slot' = [slot EXCEPT ![job[p].to] = [ver |-> job[p].ver, proven |-> FALSE]]
  BY DEF Built, Work
<1>2. act[p] = link /\ link \in Slots
  BY <1>1 DEF Safe, Sound, Preparing, FilesOK
<1>3. /\ job[p].to = Other(link) /\ job[p].to \in Slots /\ job[p].to # link
      /\ slot[link].proven \/ misread
      /\ job[p].ver \in Versions
  BY <1>1, <1>2, PreparingFacts, Names
<1>4. /\ slot'[link] = slot[link]
      /\ slot'[Other(link)] = [ver |-> job[p].ver, proven |-> FALSE]
  BY <1>1, <1>2, <1>3 DEF Safe, FilesOK
<1> QED
  BY <1>1, <1>3, <1>4, RebuiltMaps

\* An upgrade touches the standby only.
LEMMA UpgradeMaps ==
    ASSUME Safe, NEW p \in Procs, Upgrade(p) PROVE Platform!Next \/ UNCHANGED TwoVenvs
<1>1. CASE TakeForUpgrade(p)
  <2>1. UNCHANGED <<slot, link>> /\ misread' \in {misread, TRUE}
    BY <1>1 DEF TakeForUpgrade, BeginUpgrade, Take, ForgetProbation, slots, Safe, FilesOK
  <2>2. CASE misread' = misread
    BY <2>1, <2>2, VenvsFrame
  <2>3. CASE misread' = TRUE
    BY <2>1, <2>3 DEF Platform!Next, Platform!LoseSight
  <2> QED
    BY <2>1, <2>2, <2>3
<1>2. CASE Prepare(p)
  BY <1>2, StandbyRemoved, VenvsFrame DEF Prepare, Work, End, Platform!Next
<1>3. CASE PreflightFails(p) \/ GiveUp(p)
  BY <1>3, StandbyRemoved DEF PreflightFails, GiveUp, Work, End, Platform!Next
<1>4. CASE Built(p)
  BY <1>4, StandbyBuilt DEF Platform!Next
<1>5. CASE Stash(p) \/ MarkInflight(p) \/ HealthOk(p) \/ HealthCritical(p)
           \/ EnterProbation(p) \/ Unmark(p)
  BY <1>5, VenvsFrame
     DEF Stash, MarkInflight, HealthOk, HealthCritical, EnterProbation, Unmark, Work, RollBack,
         WorkAs, End, slots
<1> QED
  BY <1>1, <1>2, <1>3, <1>4, <1>5 DEF Upgrade

\* Of the two sides of a swap one has proven itself: an upgrade's old release,
\* or the one a rollback returns to.
LEMMA SwapMaps ==
    ASSUME Safe, UNCHANGED <<slot, misread>>, link' \in Slots, link' # link, slot[link'].ver # 0,
           rolling[link'] # NoRollback \/ inflight[link'] # 0
           \/ rolling[link] # NoRollback \/ inflight[link] # 0
    PROVE  Platform!Swap
<1>1. link \in Slots /\ link' = Other(link) /\ Other(link') = link
  BY TwoSlots DEF Safe, FilesOK
<1>2. slot[link].proven \/ slot[Other(link)].proven \/ misread
  BY <1>1 DEF Safe, MarkersSound
<1>3. slot[link]' = slot[Other(link)] /\ slot[Other(link)]' = slot[link]
  BY <1>1 DEF Other
<1>4. slot[Other(link)].ver # 0
  BY <1>1
<1> QED
  BY <1>2, <1>3, <1>4 DEF Platform!Swap

LEMMA SwapLinkMaps ==
    ASSUME Safe, NEW p \in Procs, SwapLink(p) PROVE Platform!Next \/ UNCHANGED TwoVenvs
<1>1. /\ pc[p] = "swap" /\ UNCHANGED <<slot, misread>>
      /\ link' = link \/ (link' = job[p].to /\ SlotWorks(job[p].to))
  BY DEF SwapLink, Work, End
<1>2. /\ job[p].to \in Slots
      /\ rolling[job[p].to] # NoRollback \/ inflight[job[p].to] # 0
  BY <1>1, TwoSlots DEF Safe, Sound, Swapping, InUpgrade, InRollback
<1>3. CASE link' = link
  BY <1>1, <1>3, VenvsFrame
<1>4. CASE link' # link
  <2>1. link' \in Slots /\ slot[link'].ver # 0
        /\ (rolling[link'] # NoRollback \/ inflight[link'] # 0)
    BY <1>1, <1>2, <1>4 DEF SlotWorks
  <2> QED
    BY <1>1, <1>4, <2>1, SwapMaps DEF Platform!Next
<1> QED
  BY <1>3, <1>4

\* A power cut only takes back a swap that is under way.
LEMMA PowerCutMaps ==
    ASSUME Safe, PowerCut PROVE Platform!Next \/ UNCHANGED TwoVenvs
<1>1. UNCHANGED <<slot, misread>> /\ link' \in {link, synced}
  BY DEF PowerCut
<1>2. CASE link' = link
  BY <1>1, <1>2, VenvsFrame
<1>3. CASE link' # link
  <2>1. link' = synced /\ synced # link /\ SlotWorks(synced) /\ synced \in Slots
    BY <1>1, <1>3 DEF Safe, LiveSound, FilesOK
  <2>2. /\ link \in Slots /\ \A t \in Slots : t = link \/ t = synced
    BY <2>1, TwoSlots DEF Safe, FilesOK
  <2>3. RollbackPending \/ inflight[link] # 0
    BY <2>1, SwapIsMarked
  <2>4. \/ rolling[synced] # NoRollback \/ rolling[link] # NoRollback \/ inflight[link] # 0
    BY <2>2, <2>3 DEF RollbackPending
  <2> QED
    BY <1>1, <1>3, <2>1, <2>4, SwapMaps DEF Platform!Next, SlotWorks
<1> QED
  BY <1>2, <1>3

\* A swap moves the link, and nothing after it does.
LEMMA SwitchMaps ==
    ASSUME Safe, NEW p \in Procs, Switch(p) PROVE Platform!Next \/ UNCHANGED TwoVenvs
<1>1. CASE SwapLink(p)
  BY <1>1, SwapLinkMaps
<1>2. CASE SwapFile(p) \/ SwapSync(p) \/ ApplyBegins(p) \/ ApplyEnds(p) \/ ApplyFails(p)
  BY <1>2, VenvsFrame
     DEF SwapFile, SwapSync, ApplyBegins, ApplyEnds, ApplyFails, Work, RollBack, WorkAs, slots
<1>3. CASE MarkRollback(p) \/ DropProbation(p) \/ RestoreStash(p) \/ RestoreFails(p)
  BY <1>3, VenvsFrame
     DEF MarkRollback, DropProbation, RestoreStash, RestoreFails, Work, End, slots
<1>4. CASE Partial(p) \/ PartialDone(p) \/ DropMarker(p) \/ CountInterruption(p)
           \/ AddBlocklist(p)
  BY <1>4, VenvsFrame
     DEF Partial, PartialDone, DropMarker, CountInterruption, AddBlocklist, Work, End, slots
<1> QED
  BY <1>1, <1>2, <1>3, <1>4 DEF Switch

\* The orphan check removes a standby only where nothing is on probation, as
\* far as it can see.
LEMMA RemoveOrphanMaps ==
    ASSUME Safe, RemoveOrphan PROVE Platform!Next \/ UNCHANGED TwoVenvs
<1> DEFINE here == act[Timer]
<1>1. /\ pc[Timer] = "probe" /\ Timer \in Procs /\ here \in Slots /\ link \in Slots
      /\ NoProbationFor(here) /\ link' = link
  BY Names DEF RemoveOrphan, Safe, Sound, Informed, FilesOK
<1>2. misread' = misread \/ misread' = TRUE
  BY DEF RemoveOrphan, ForgetProbation, Safe, FilesOK
<1>3. CASE UNCHANGED slot
  <2>1. CASE misread' = misread
    BY <1>1, <1>3, <2>1, VenvsFrame
  <2>2. CASE misread' = TRUE
    BY <1>1, <1>3, <2>2 DEF Platform!Next, Platform!LoseSight
  <2> QED
    BY <1>2, <2>1, <2>2
<1>4. CASE MayRemove(Timer, Other(here)) /\ Remove(Other(here))
  <2>1. here = link /\ Other(link) \in Slots /\ Other(link) # link
    BY <1>1, <1>4, TwoSlots DEF MayRemove
  <2>2. slot[link].proven \/ misread
    <3>1. ~RollbackPending /\ inflight[link] = 0
      BY <1>1, <2>1 DEF Safe, Sound, Checking
    <3>2. probation = NoProbation \/ probation.prev = link
      BY <1>1, <2>1 DEF NoProbationFor, StaleProbation
    <3> QED
      BY <3>1, <3>2, UnmarkedProven
  <2>3. misread => misread'
    BY DEF RemoveOrphan, ForgetProbation
  <2>4. slot'[link] = slot[link] /\ slot'[Other(link)] = NoVenv
    BY <1>1, <1>4, <2>1 DEF Remove, Safe, FilesOK
  <2>5. Platform!Rebuild
    BY <1>1, <1>2, <2>2, <2>3, <2>4, RebuiltMaps
  <2> QED
    BY <2>5 DEF Platform!Next
<1> QED
  BY <1>3, <1>4 DEF RemoveOrphan

\* A promotion removes the old venv and accepts the new one at once.
LEMMA PromoteSlotMaps ==
    ASSUME Safe, PromoteSlot PROVE Platform!Next \/ UNCHANGED TwoVenvs
<1> DEFINE s == job[Timer].prev
<1>1. pc[Timer] = "promote" /\ UNCHANGED <<link, misread>>
  BY DEF PromoteSlot, Work, End
<1>2. act[Timer] = link /\ link \in Slots /\ s = Other(link) /\ s \in Slots /\ s # link
  BY <1>1, CheckingFacts, TwoSlots
<1>3. CASE UNCHANGED slot
  BY <1>1, <1>3, VenvsFrame
<1>4. CASE slot' = [slot EXCEPT ![s] = NoVenv, ![act[Timer]].proven = TRUE]
  <2>1. /\ slot'[link] = [slot[link] EXCEPT !.proven = TRUE]
        /\ slot'[Other(link)] = NoVenv
    BY <1>2, <1>4 DEF Safe, FilesOK
  <2>2. slot[link]' = slot'[link] /\ slot[Other(link)]' = slot'[Other(link)]
    BY <1>1 DEF Other
  <2>3. Platform!Accept
    BY <1>1, <2>1, <2>2 DEF Platform!Accept, Platform!None, NoVenv
  <2> QED
    BY <2>3 DEF Platform!Next
<1> QED
  BY <1>3, <1>4 DEF PromoteSlot

\* The rest of check-probation leaves the venvs alone.
LEMMA CheckMaps ==
    ASSUME Safe, Check PROVE Platform!Next \/ UNCHANGED TwoVenvs
<1>1. CASE TakeForCheck \/ ResumeRollback \/ RecoverUpgrade
  BY <1>1, VenvsFrame
     DEF TakeForCheck, Take, ResumeRollback, RecoverUpgrade, Work, WorkAs, RollBack, End, slots
<1>2. CASE ProbationUnusable \/ Promote \/ PromoteFile \/ PromoteCount
  BY <1>2, VenvsFrame
     DEF ProbationUnusable, Promote, PromoteFile, PromoteCount, Work, WorkAs, End, slots
<1>3. CASE CheckHealth \/ CheckHealthOk \/ CheckHealthCritical
  BY <1>3, VenvsFrame
     DEF CheckHealth, CheckHealthOk, CheckHealthCritical, WorkAs, RollBack, End, slots
<1> QED
  BY <1>1, <1>2, <1>3, RemoveOrphanMaps, PromoteSlotMaps DEF Check

\* An operator's command accepts the release that a probation is about, live or
\* being rolled back.
LEMMA InteractMaps ==
    ASSUME Safe, Interact PROVE Platform!Next
<1> DEFINE s == Other(probation.prev)
<1>1. /\ probation # NoProbation /\ slot' = [slot EXCEPT ![s].proven = TRUE]
      /\ UNCHANGED <<link, misread>>
  BY DEF Interact
<1>2. /\ link \in Slots /\ Other(link) \in Slots /\ Other(link) # link
      /\ probation.prev \in Slots /\ s \in Slots /\ Other(s) = probation.prev
  BY <1>1, TwoSlots DEF Safe, FilesOK, Probations
<1>3. slot[link]' = slot'[link] /\ slot[Other(link)]' = slot'[Other(link)]
  BY <1>1 DEF Other
<1>4. CASE s = link
  <2>1. /\ slot'[link] = [slot[link] EXCEPT !.proven = TRUE]
        /\ slot'[Other(link)] = slot[Other(link)]
    BY <1>1, <1>2, <1>4 DEF Safe, FilesOK
  <2>2. Platform!Accept
    BY <1>1, <1>3, <2>1 DEF Platform!Accept
  <2> QED
    BY <2>2 DEF Platform!Next
<1>5. CASE s = Other(link)
  <2>1. /\ slot'[Other(link)] = [slot[Other(link)] EXCEPT !.proven = TRUE]
        /\ slot'[link] = slot[link]
    BY <1>1, <1>2, <1>5 DEF Safe, FilesOK
  <2>2. probation.prev = link
    BY <1>2, <1>5, TwoSlots
  <2>3. slot[link].proven \/ misread
    BY <1>1, <2>2 DEF Safe, ProbationSound, LiveSound
  <2>4. Platform!AcceptLate
    BY <1>1, <1>3, <2>1, <2>3 DEF Platform!AcceptLate
  <2> QED
    BY <2>4 DEF Platform!Next
<1> QED
  BY <1>2, <1>4, <1>5, TwoSlots

\* Every step is one of PlatformSpec, or leaves both venvs where they are.
LEMMA PlatformStep ==
    ASSUME Safe, [Next]_vars PROVE [Platform!Next]_(Platform!avars)
<1> SUFFICES Platform!Next \/ UNCHANGED TwoVenvs
  BY MappedVenvs
<1>1. ASSUME NEW p \in Procs, Step(p) PROVE Platform!Next \/ UNCHANGED TwoVenvs
  <2>1. CASE Decline(p)
    BY <2>1, VenvsFrame DEF Decline, End, slots
  <2> QED
    BY <1>1, <2>1, UpgradeMaps, SwitchMaps, CheckMaps DEF Step
<1>2. CASE \E p \in Procs : Start(p) \/ Kill(p)
  BY <1>2, VenvsFrame DEF Start, Load, Kill, End
<1>3. CASE \E v \in Released : Clear(v)
  BY <1>3, VenvsFrame DEF Clear, Load
<1>4. CASE Expire
  BY <1>4, VenvsFrame DEF Expire, slots
<1>5. CASE UNCHANGED vars
  BY <1>5, VenvsFrame DEF vars, slots
<1> QED
  BY <1>1, <1>2, <1>3, <1>4, <1>5, PowerCutMaps, InteractMaps DEF Next, Fault

-----------------------------------------------------------------------------
(* The theorems.                                                           *)

\* The types of the platform upgrade, and that upgrade.lock is held by exactly
\* the process that is past acquire_lock.
THEOREM UpgradeTypes ==
    Spec => []TypeOK
<1>1. Safe => TypeOK
  BY TypeParts DEF Safe
<1> QED
  BY <1>1, SafeHolds, PTL

\* Whatever shims run beside each other, the link, as it is and as a power cut
\* would leave it, names a venv that works: remove_slot never takes it away.
THEOREM LiveSlotWorks ==
    Spec => [](SlotWorks(link) /\ SlotWorks(synced))
<1>1. Safe => SlotWorks(link) /\ SlotWorks(synced)
  BY DEF Safe, LiveSound
<1> QED
  BY <1>1, SafeHolds, PTL

\* An unproven release that is live has a proven one to fall back to, and a file
\* that keeps the orphan cleanup and other upgrades off it.
THEOREM FallbackAlways ==
    Spec => []FallbackKept
<1>1. ASSUME Safe, ~misread, ~slot[link].proven
      PROVE  /\ TargetOk(Other(link)) /\ slot[Other(link)].proven
             /\ \/ inflight[link] # 0
                \/ rolling[Other(link)] # NoRollback
                \/ probation.prev = Other(link)
  <2>1. link \in Slots /\ Other(link) \in Slots /\ Other(Other(link)) = link
    BY <1>1, TwoSlots DEF Safe, FilesOK
  <2>2. \/ inflight[link] # 0
        \/ rolling[Other(link)] # NoRollback
        \/ probation.prev = Other(link)
    BY <1>1 DEF Safe, LiveSound, Covered
  <2>3. CASE inflight[link] # 0 \/ rolling[Other(link)] # NoRollback
    BY <1>1, <2>1, <2>2, <2>3 DEF Safe, MarkersSound
  <2>4. CASE probation.prev = Other(link)
    <3>1. probation # NoProbation
      BY <2>1, <2>4, Names
    <3>2. TargetOk(Other(link))
      BY <1>1, <2>1, <2>4, <3>1 DEF Safe, ProbationSound
    <3>3. slot[Other(link)].proven
      BY <1>1, <2>4, <3>1, <3>2 DEF Safe, ProbationSound, TargetOk
    <3> QED
      BY <2>2, <3>2, <3>3
  <2> QED
    BY <2>2, <2>3, <2>4
<1>2. Safe => FallbackKept
  BY <1>1 DEF FallbackKept
<1> QED
  BY <1>2, SafeHolds, PTL

\* What is on disk is what the release that comes back after a power cut wrote,
\* unless a marker makes check-probation put it right or a rollback reported
\* itself partial.
THEOREM CrashesConsistent ==
    Spec => []CrashConsistent
<1>1. Safe => CrashConsistent
  BY DEF Safe
<1> QED
  BY <1>1, SafeHolds, PTL

\* Where no upgrade begins over a swap cut short, load_active_slot always finds
\* the live slot: link and file only disagree where a marker says so.
THEOREM LiveInView ==
    Spec /\ [][UpgradesInView]_vars => []LiveWorks
<1>1. Init => AgreedInv
  BY InitAgrees
<1>2. AgreedInv /\ [Next]_vars /\ [UpgradesInView]_vars => AgreedInv'
  BY NextAgrees
<1>3. AgreedInv => LiveWorks
  BY AgreedLive
<1> QED
  BY <1>1, <1>2, <1>3, PTL DEF Spec

\* One shim beside the timer never begins such an upgrade.
THEOREM LiveWithOneShim ==
    ASSUME \A p, q \in Shims : p = q
    PROVE  Spec => []LiveWorks
<1>1. Init => AgreedInv /\ OneInv
  <2>1. Init => OneInv
    BY ShimsAndTimer DEF Init, OneInv
  <2> QED
    BY <2>1, InitAgrees
<1>2. AgreedInv /\ OneInv /\ [Next]_vars => AgreedInv' /\ OneInv'
  <2> SUFFICES ASSUME AgreedInv, OneInv, [Next]_vars PROVE AgreedInv' /\ OneInv'
    OBVIOUS
  <2>1. [UpgradesInView]_vars
    BY OneInView
  <2> QED
    BY <2>1, NextAgrees, OneNext
<1>3. AgreedInv => LiveWorks
  BY AgreedLive
<1> QED
  BY <1>1, <1>2, <1>3, PTL DEF Spec

\* Whatever shims run beside each other, are killed or lose power: while an
\* unproven release is live, nothing is built or removed beside it, and the
\* release that it replaced is what a rollback returns to (probation.sh,
\* upgrade.sh, rollback.sh: remove_slot, swap_to).
THEOREM ImplementsPlatformHolds ==
    Spec => ImplementsPlatform
<1>1. Init => Platform!Init
  <2> SUFFICES ASSUME Init PROVE Platform!Init
    OBVIOUS
  <2>1. /\ slot[link] = [ver |-> 1, proven |-> TRUE]
        /\ slot[Other(link)] = NoVenv /\ misread = FALSE
    BY DEF Init, Slots, Other
  <2> QED
    BY <2>1, Names DEF Platform!Init, Platform!None, NoVenv
<1> QED
  BY <1>1, SafeHolds, PlatformStep, PTL DEF Spec, ImplementsPlatform, Platform!Spec

\* What a kill or a power cut leaves can be finished: one rollback is marked at
\* most, and its slot can take over; beside an upgrade in flight there is a slot
\* that can.  So resume_rollback and recover_interrupted_upgrade never find
\* their target gone.
MarkersResumable ==
    \A s \in Slots :
        /\ inflight[s] # 0 => TargetOk(Other(s))
        /\ rolling[s] # NoRollback => TargetOk(s) /\ rolling[Other(s)] = NoRollback

\* resume_rollback and recover_interrupted_upgrade have a slot to go to, after
\* every kill and every power cut (slots.sh, rollback_target_ok).
THEOREM MarkersResumableHolds ==
    Spec => []MarkersResumable
<1>1. Safe => MarkersResumable
  BY DEF Safe, MarkersSound, MarkersResumable
<1> QED
  BY <1>1, SafeHolds, PTL
=============================================================================
