------------------------- MODULE ContainerUpdateProofs -------------------------
(***************************************************************************)
(* What is proved of the image updates for every set of services, of       *)
(* references and of shared references, and every bound: types, and, when  *)
(* no two services share a reference, that services start as decided and   *)
(* that an update which was held or rolled back is undone.                 *)
(***************************************************************************)
EXTENDS ContainerUpdate, TLAPS

-----------------------------------------------------------------------------
(* Types. *)

\* The command under the lock.
OpOK == op \in Ops /\ op.moved \subseteq op.changed \cap Follows

\* The images every service starts from.
LEMMA FirstType == First \in Images
  BY ContainerUpdateAssumption DEF First, Images

\* Nobody holds the lock.
LEMMA NobodyType == Nobody \in Ops
  BY FirstType DEF Nobody, Ops, Pcs

\* Naming an image changes one reference.
LEMMA NamesType ==
    ASSUME TypeOK, NEW s \in Services, NEW image \in Images, Names(s, image)
    PROVE  store' \in [Refs -> Images]
  BY ContainerUpdateAssumption DEF TypeOK, Names

\* A command takes the lock.
LEMMA BeginType ==
    ASSUME NEW cmd \in {"update", "dry", "resume", "restart", "deploy"}, NEW pc \in Pcs,
           NEW todo \in SUBSET Services, NEW before \in [Services -> Images],
           Begin(cmd, pc, todo, before)
    PROVE  OpOK'
  BY NobodyType DEF Begin, OpOK, Ops, Nobody

\* A command goes on, or ends.
LEMMA GotoType ==
    ASSUME TypeOK,
           \/ \E pc \in Pcs, todo \in SUBSET Services : Goto(pc, todo)
           \/ \E s \in Services : Without(s)
           \/ End \/ UNCHANGED op
    PROVE  OpOK'
<1>1. OpOK
  BY DEF TypeOK, OpOK
<1>2. CASE \E pc \in Pcs, todo \in SUBSET Services : Goto(pc, todo)
  BY <1>1, <1>2 DEF Goto, OpOK, Ops
<1>3. CASE \E s \in Services : Without(s)
  BY <1>1, <1>3 DEF Without, OpOK, Ops
<1>4. CASE End \/ UNCHANGED op
  BY <1>1, <1>4, NobodyType DEF End, OpOK, Nobody
<1>5. QED
  BY <1>2, <1>3, <1>4

\* What a faultless step, and a fault, leave of the fault count.
LEMMA FaultType ==
    ASSUME TypeOK, Fault \/ NoFault
    PROVE  faults' \in 0 .. MaxFaults
  BY ContainerUpdateAssumption DEF TypeOK, Fault, NoFault

\* What a service's reference names, and what drifted.
LEMMA NamedType ==
    ASSUME TypeOK
    PROVE  /\ \A s \in Services : Named(s) \in Images /\ op.before[s] \in Images
           /\ Changed \subseteq Services
           /\ \A changed : Drifted(changed) \subseteq Follows /\ Drifted(changed) \subseteq changed
  BY ContainerUpdateAssumption DEF TypeOK, Named, Ops, Changed, Drifted

\* The commands take the lock and write nothing.
LEMMA BeginsType ==
    ASSUME TypeOK, UpdateBegins \/ DryRunBegins \/ ResumeBegins \/ RestartBegins \/ DeployBegins
    PROVE  TypeOK'
<1>1. runs \in [Services -> Images] /\ held \in SUBSET Services
  BY ContainerUpdateAssumption DEF TypeOK
<1>2. [s \in Services |-> Named(s)] \in [Services -> Images]
  BY NamedType
<1>3. OpOK'
  <2>1. CASE UpdateBegins
    BY <1>1, <2>1, BeginType DEF UpdateBegins, Pcs
  <2>2. CASE DryRunBegins
    BY <1>1, <2>2, BeginType DEF DryRunBegins, Pcs
  <2>3. CASE ResumeBegins
    BY <1>1, <1>2, <2>3, BeginType DEF ResumeBegins, Pcs
  <2>4. CASE RestartBegins
    BY <1>1, <2>4, BeginType DEF RestartBegins, Pcs
  <2>5. CASE DeployBegins
    BY <1>1, <1>2, <2>5, BeginType DEF DeployBegins, Pcs
  <2>6. QED
    BY <2>1, <2>2, <2>3, <2>4, <2>5
<1>4. UNCHANGED <<registry, store, runs, users, held, last, paused, loose, published, faults>>
  BY DEF UpdateBegins, DryRunBegins, ResumeBegins, RestartBegins, DeployBegins, world, names,
         records, project
<1>5. cand' \in [Services -> Images \cup {NoImage}] /\ open' \in {"no", "begun", "hooked"}
  BY DEF TypeOK, UpdateBegins, DryRunBegins, ResumeBegins, RestartBegins, DeployBegins, names,
         project
<1>6. QED
  BY <1>3, <1>4, <1>5 DEF TypeOK, OpOK

\* The steps that name an image: a pull, a hold, a retag, a deploy's.
LEMMA NamingType ==
    ASSUME TypeOK, Pull \/ HoldBack \/ HoldRest \/ Retag \/ Refetch \/ TagBack \/ PromoteOne
    PROVE  TypeOK'
<1>1. registry \in [Refs -> Images] /\ op.before \in [Services -> Images] /\ held \in SUBSET Services
  BY ContainerUpdateAssumption DEF TypeOK, Ops
<1>2. \A s \in Services : registry[RefOf[s]] \in Images /\ op.before[s] \in Images
  BY <1>1, ContainerUpdateAssumption
<1>3. store' \in [Refs -> Images]
  <2>1. CASE PromoteOne
    <3>1. \A s \in Services : cand[s] # NoImage => cand[s] \in Images
      BY DEF TypeOK
    <3>2. QED
      BY <2>1, <3>1, NamesType DEF PromoteOne
  <2>2. CASE Pull \/ Refetch
    <3>1. PICK s \in op.todo : Names(s, registry[RefOf[s]])
      BY <2>2 DEF Pull, Refetch
    <3>2. s \in Services
      BY <3>1 DEF TypeOK, Ops
    <3>3. QED
      BY <1>2, <3>1, <3>2, NamesType
  <2>3. CASE HoldBack \/ HoldRest \/ Retag \/ TagBack
    <3>1. PICK s \in op.todo : Names(s, op.before[s])
      BY <2>3 DEF HoldBack, HoldRest, Retag, TagBack
    <3>2. s \in Services
      BY <3>1 DEF TypeOK, Ops
    <3>3. QED
      BY <1>2, <3>1, <3>2, NamesType
  <2>4. QED
    BY <2>1, <2>2, <2>3
<1>4. OpOK'
  <2>1. \/ \E pc \in Pcs, todo \in SUBSET Services : Goto(pc, todo)
        \/ \E s \in Services : Without(s)
        \/ End \/ UNCHANGED op
    <3>1. op.todo \subseteq Services
      BY DEF TypeOK, Ops
    <3>2. CASE Pull
      BY <3>1, <3>2 DEF Pull, Pcs
    <3>3. CASE HoldBack
      BY <3>1, <3>3 DEF HoldBack, Pcs
    <3>4. CASE HoldRest
      BY <3>1, <3>4 DEF HoldRest, Ends
    <3>5. CASE Retag
      BY <1>1, <3>1, <3>5 DEF Retag, Pcs
    <3>6. CASE Refetch
      BY <1>1, <3>1, <3>6 DEF Refetch, Pcs
    <3>7. CASE TagBack
      BY <3>1, <3>7 DEF TagBack, Pcs
    <3>8. CASE PromoteOne
      BY <3>8 DEF PromoteOne
    <3>9. QED
      BY <3>2, <3>3, <3>4, <3>5, <3>6, <3>7, <3>8
  <2>2. QED
    BY <2>1, GotoType
<1>5. last' \in Statuses /\ cand' \in [Services -> Images \cup {NoImage}]
  BY DEF TypeOK, Pull, HoldBack, HoldRest, Retag, Refetch, TagBack, PromoteOne, Ends, records,
         Statuses
<1>6. UNCHANGED <<registry, runs, users, held, paused, open, published, faults>>
  BY DEF Pull, HoldBack, HoldRest, Retag, Refetch, TagBack, PromoteOne, NoFault, world, records,
         project
<1>7. QED
  BY <1>3, <1>4, <1>5, <1>6 DEF TypeOK, OpOK

\* Detect, and the steps that only judge, record or go on.
LEMMA JudgingType ==
    ASSUME TypeOK, Detect \/ RecordDrift \/ Backup \/ Verdict \/ BackVerdict
    PROVE  TypeOK'
<1>1. OpOK
  BY DEF TypeOK, OpOK
<1>2. OpOK'
  <2>1. CASE Detect
    <3>1. Changed \subseteq Services /\ Drifted(Changed) \subseteq Changed \cap Follows
      BY NamedType
    <3>2. CASE op' = [op EXCEPT !.pc = "hold", !.todo = Drifted(Changed),
                                !.moved = Drifted(Changed), !.changed = Changed]
      BY <1>1, <3>1, <3>2 DEF OpOK, Ops, Pcs
    <3>3. CASE op' = [op EXCEPT !.pc = "backup", !.moved = {}, !.changed = Changed]
      BY <1>1, <3>1, <3>3 DEF OpOK, Ops, Pcs
    <3>4. CASE Goto("up", {}) \/ End
      BY <3>4, GotoType DEF Pcs
    <3>5. QED
      BY <2>1, <3>2, <3>3, <3>4 DEF Detect, Ends
  <2>2. CASE RecordDrift
    <3>1. Goto("up", {}) \/ Goto("holdRest", op.changed \ op.moved) \/ End
      BY <2>2 DEF RecordDrift, Ends
    <3>2. op.changed \ op.moved \in SUBSET Services
      BY <1>1 DEF OpOK, Ops
    <3>3. QED
      BY <3>1, <3>2, GotoType DEF Pcs
  <2>3. CASE Backup \/ Verdict \/ BackVerdict
    <3>1. Goto("recreate", {}) \/ Goto("retag", op.changed) \/ End
      BY <2>3 DEF Backup, Verdict, BackVerdict, RollsBack, Ends
    <3>2. op.changed \in SUBSET Services
      BY <1>1 DEF OpOK, Ops
    <3>3. QED
      BY <3>1, <3>2, GotoType DEF Pcs
  <2>4. QED
    BY <2>1, <2>2, <2>3
<1>3. last' \in Statuses
  BY DEF TypeOK, Detect, RecordDrift, Backup, Verdict, BackVerdict, RollsBack, Ends, Statuses
<1>4. held' \subseteq Follows
  BY NamedType DEF TypeOK, Detect, RecordDrift, Backup, Verdict, BackVerdict
<1>5. faults' \in 0 .. MaxFaults
  BY FaultType DEF Detect, RecordDrift, Backup, Verdict, BackVerdict
<1>6. UNCHANGED <<registry, store, runs, users, cand, paused, open, loose, published>>
  BY DEF Detect, RecordDrift, Backup, Verdict, BackVerdict, world, names, project
<1>7. QED
  BY <1>2, <1>3, <1>4, <1>5, <1>6 DEF TypeOK, OpOK

\* The containers, the records, and the install transaction.
LEMMA RunningType ==
    ASSUME TypeOK,
           \/ Recreates("recreate") \/ Recreates("back") \/ Recreates("up") \/ Recreated
           \/ Pause \/ Candidate \/ Decide \/ Promoted \/ Abandon
    PROVE  TypeOK'
<1>1. runs' \in [Services -> Images]
  BY NamedType DEF TypeOK, Recreates, Stale, Recreated, Pause, Candidate, Decide, Promoted, Abandon
<1>2. cand' \in [Services -> Images \cup {NoImage}]
  BY NamedType DEF TypeOK, Recreates, Recreated, Pause, Candidate, Decide, Promoted, Abandon,
     names
<1>3. users' \in [Services -> {"app", "root"}]
  <2>1. CASE Decide
    <3>1. \A s \in Services : DecidedFrom(s) \in Images
      BY NamedType DEF TypeOK, DecidedFrom
    <3>2. QED
      BY <2>1, <3>1 DEF Decide, Images
  <2>2. CASE ~Decide
    BY <2>2 DEF TypeOK, Recreates, Recreated, Pause, Candidate, Promoted, Abandon, records
  <2>3. QED
    BY <2>1, <2>2
<1>4. held' \subseteq Follows /\ last' \in Statuses
  BY DEF TypeOK, Recreates, Recreated, Pause, Candidate, Decide, Promoted, Abandon, records
<1>5. OpOK'
  <2>1. \/ \E pc \in Pcs, todo \in SUBSET Services : Goto(pc, todo)
        \/ End \/ UNCHANGED op
    BY DEF Recreates, Recreated, Pause, Candidate, Decide, Promoted, Abandon, Pcs
  <2>2. QED
    BY <2>1, GotoType
<1>6. paused' \in BOOLEAN /\ open' \in {"no", "begun", "hooked"}
  BY DEF TypeOK, Recreates, Recreated, Pause, Candidate, Decide, Promoted, Abandon, project
<1>7. faults' \in 0 .. MaxFaults
  BY FaultType DEF Recreates, Recreated, Pause, Candidate, Decide, Promoted, Abandon, NoFault
<1>8. UNCHANGED <<registry, store, published>>
  BY DEF Recreates, Recreated, Pause, Candidate, Decide, Promoted, Abandon, world, names
<1>9. QED
  BY <1>1, <1>2, <1>3, <1>4, <1>5, <1>6, <1>7, <1>8 DEF TypeOK, OpOK

\* Failures, kills, and the world.
LEMMA WorldType ==
    ASSUME TypeOK, StepFails \/ Kill \/ Publish \/ OtherPull
    PROVE  TypeOK'
<1>1. OpOK'
  <2>1. Goto("retag", op.changed) \/ End \/ UNCHANGED op
    BY DEF StepFails, RollsBack, Ends, Kill, Publish, OtherPull, project
  <2>2. op.changed \in SUBSET Services
    BY DEF TypeOK, Ops
  <2>3. QED
    BY <2>1, <2>2, GotoType DEF Pcs
<1>2. last' \in Statuses /\ faults' \in 0 .. MaxFaults /\ open' \in {"no", "begun", "hooked"}
  <2>1. faults' \in 0 .. MaxFaults
    BY FaultType DEF StepFails, Kill, Publish, OtherPull, NoFault
  <2>2. QED
    BY <2>1 DEF TypeOK, StepFails, RollsBack, Ends, Kill, Publish, OtherPull, records, project,
       Statuses
<1>3. registry' \in [Refs -> Images] /\ published' \in 0 .. MaxImages
  <2>1. CASE Publish
    <3>1. published' \in 0 .. MaxImages
      BY <2>1, ContainerUpdateAssumption DEF Publish, TypeOK
    <3>2. PICK r \in Refs, user \in {"app", "root"}, works \in BOOLEAN :
             registry' = [registry EXCEPT ![r] = [n |-> published', user |-> user, works |-> works]]
      BY <2>1 DEF Publish
    <3>3. [n |-> published', user |-> user, works |-> works] \in Images
      BY <3>1, <3>2 DEF Images
    <3>4. QED
      BY <3>1, <3>2, <3>3 DEF TypeOK
  <2>2. CASE ~Publish
    BY <2>2 DEF TypeOK, StepFails, Kill, OtherPull, world
  <2>3. QED
    BY <2>1, <2>2
<1>4. store' \in [Refs -> Images]
  BY ContainerUpdateAssumption DEF TypeOK, StepFails, Kill, Publish, OtherPull, names
<1>5. UNCHANGED <<runs, users, held, cand, paused>>
  BY DEF StepFails, Kill, Publish, OtherPull, records, project, names
<1>6. QED
  BY <1>1, <1>2, <1>3, <1>4, <1>5 DEF TypeOK, OpOK

\* Every step keeps the types.
LEMMA TypeStep == TypeOK /\ [Next]_vars => TypeOK'
<1> SUFFICES ASSUME TypeOK, [Next]_vars PROVE TypeOK'
  OBVIOUS
<1>1. CASE UNCHANGED vars
  BY <1>1 DEF vars, TypeOK
<1>2. QED
  BY <1>1, BeginsType, NamingType, JudgingType, RunningType, WorldType DEF Next, Step

\* At first every service runs what its reference names.
LEMMA TypeInit == Init => TypeOK
<1> SUFFICES ASSUME Init PROVE TypeOK
  OBVIOUS
<1>1. OpOK
  BY NobodyType DEF Init, OpOK, Nobody
<1>2. store \in [Refs -> Images] /\ registry \in [Refs -> Images] /\ runs \in [Services -> Images]
  BY FirstType DEF Init
<1>3. published \in 0 .. MaxImages /\ faults \in 0 .. MaxFaults
  BY ContainerUpdateAssumption DEF Init
<1>4. QED
  BY <1>1, <1>2, <1>3 DEF Init, TypeOK, OpOK, Statuses

\* The images, the records and the command under the lock keep their types.
THEOREM TypeCorrect == Spec => []TypeOK
  BY TypeInit, TypeStep, PTL DEF Spec

-----------------------------------------------------------------------------
(* What a service starts on, and what an update undoes. *)

\* No two services of the project run the same reference.
OwnReferences == \A s, t \in Services : RefOf[s] = RefOf[t] => s = t

\* A start of s is a start as decided, of an image left unexamined, or no start.
Tame(s, image) == image.user = users[s] \/ image.n \in loose \/ image = runs[s]

\* Where the tags may name what nobody has looked at yet.
Looking == {"pull", "detect", "hold", "refetch", "candidate", "promote"}

\* The invariant behind StartsAsDecided: between commands, and in each but for
\* what it is looking at, the tags are tame; and so is what it would put back.
TagsTame ==
    /\ op.pc = "refetch" => op.todo \subseteq held
    /\ \A s \in Follows :
           /\ op.pc \notin Looking => Tame(s, Named(s))
           /\ op.pc \in {"pull", "detect", "hold", "drift", "holdRest", "refetch", "candidate"} =>
                 Tame(s, op.before[s])
           /\ op.pc = "refetch" /\ s \notin held => Tame(s, Named(s))
           /\ op.pc \in {"hold", "candidate"} /\ s \notin op.todo => Tame(s, Named(s))
           /\ op.pc = "promote" => IF cand[s] = NoImage THEN Tame(s, Named(s))
                                                       ELSE cand[s].user = users[s]

\* The image as the update found it, or one left unexamined.
Undone(s, image) == image = op.before[s] \/ image.n \in loose

\* The invariant behind FailedRunIsUndone: what an update has not touched, or
\* has put back, is as it found it.
UpdateUndone ==
    op.cmd = "update" =>
    \A s \in Services :
        /\ op.pc \in {"pull", "detect", "hold", "drift", "holdRest", "backup"} => runs[s] = op.before[s]
        /\ op.pc = "hold" => s \in op.todo \/ s \in op.changed \ op.moved \/ Undone(s, Named(s))
        /\ op.pc = "drift" => s \in op.changed \ op.moved \/ Undone(s, Named(s))
        /\ op.pc \in {"holdRest", "retag"} => s \in op.todo \/ Undone(s, Named(s))
        /\ op.pc \in {"backup", "recreate", "verdict"} => s \in op.changed \/ Undone(s, Named(s))
        /\ op.pc \in {"back", "backVerdict"} => Undone(s, Named(s))
        /\ op.pc = "backVerdict" => Undone(s, runs[s])

\* Naming an image renames one service's, where each has its own reference.
LEMMA NamesOne ==
    ASSUME TypeOK, OwnReferences, NEW s \in Services, NEW image, Names(s, image)
    PROVE  Named(s)' = image /\ \A t \in Services : t # s => Named(t)' = Named(t)
  BY ContainerUpdateAssumption DEF TypeOK, OwnReferences, Names, Named

\* Where the store does not change, neither do the names.
LEMMA NamesSame ==
    ASSUME UNCHANGED store
    PROVE  \A s \in Services : Named(s)' = Named(s)
  BY DEF Named

\* Another project's pull leaves what it changes among the unexamined.
LEMMA OtherPullNames ==
    ASSUME TypeOK, OtherPull
    PROVE  /\ \A s \in Services : Named(s)' = Named(s) \/ Named(s)'.n \in loose'
           /\ loose \subseteq loose'
  BY ContainerUpdateAssumption DEF TypeOK, OtherPull, Named

\* What a command begins with.
LEMMA BeginFields ==
    ASSUME NEW cmd, NEW pc, NEW todo, NEW before, Begin(cmd, pc, todo, before)
    PROVE  op'.cmd = cmd /\ op'.pc = pc /\ op'.todo = todo /\ op'.before = before
  BY DEF Begin, Nobody

\* The commands begin with tame tags.
LEMMA BeginsInv ==
    ASSUME TypeOK, TagsTame,
           UpdateBegins \/ DryRunBegins \/ ResumeBegins \/ RestartBegins \/ DeployBegins
    PROVE  TagsTame' /\ UpdateUndone'
<1>1. op = Nobody /\ UNCHANGED <<store, loose, users, runs, held>>
  BY DEF UpdateBegins, DryRunBegins, ResumeBegins, RestartBegins, DeployBegins, Begin, names,
         records
<1>2. \A s \in Follows : Tame(s, Named(s)) /\ s \in Services
  BY <1>1, ContainerUpdateAssumption DEF TagsTame, Nobody, Looking
<1>3. \A s \in Services : Named(s)' = Named(s)
  BY <1>1, NamesSame
<1>4. \A s \in Follows : Tame(s, Named(s))' /\ Tame(s, runs[s])'
  BY <1>1, <1>2, <1>3 DEF Tame
<1>5. CASE UpdateBegins
  BY <1>4, <1>1, <1>5, <1>2 DEF UpdateBegins, Begin, Nobody, TagsTame, UpdateUndone, Looking, Tame
<1>6. CASE DryRunBegins
  BY <1>4, <1>1, <1>6, <1>2 DEF DryRunBegins, Begin, Nobody, TagsTame, UpdateUndone, Looking, Tame
<1>7. CASE ResumeBegins
  <2>1. /\ op'.cmd = "resume" /\ op'.pc \in {"pull", "up"}
        /\ op'.pc = "pull" => op'.before = [s \in Services |-> Named(s)]
    BY <1>7, BeginFields DEF ResumeBegins
  <2>2. op'.pc = "pull" => \A s \in Services : op'.before[s] = Named(s)
    BY <2>1
  <2>3. op'.pc = "pull" => \A s \in Follows : Tame(s, op.before[s])'
    BY <1>4, <1>3, <1>2, <2>2
  <2>4. QED
    BY <1>4, <2>1, <2>3 DEF TagsTame, UpdateUndone, Looking
<1>8. CASE RestartBegins
  BY <1>4, <1>1, <1>8, <1>2 DEF RestartBegins, Begin, Nobody, TagsTame, UpdateUndone, Looking
<1>9. CASE DeployBegins
  <2>1. /\ op'.cmd = "deploy" /\ op'.pc \in {"decide", "refetch"}
        /\ op'.pc = "refetch" => op'.before = [s \in Services |-> Named(s)] /\ op'.todo = held
    BY <1>9, BeginFields DEF DeployBegins
  <2>2. op'.pc = "refetch" => \A s \in Services : op'.before[s] = Named(s)
    BY <2>1
  <2>3. op'.pc = "refetch" => \A s \in Follows : Tame(s, op.before[s])'
    BY <1>4, <1>3, <1>2, <2>2
  <2>4. QED
    BY <1>1, <1>4, <2>1, <2>3 DEF TagsTame, UpdateUndone, Looking
<1>10. QED
  BY <1>5, <1>6, <1>7, <1>8, <1>9

\* Going on keeps what the command compares with.
LEMMA GotoFields ==
    ASSUME TypeOK
    PROVE  /\ \A pc, todo : Goto(pc, todo) =>
                /\ op'.pc = pc /\ op'.todo = todo /\ op'.cmd = op.cmd /\ op'.before = op.before
                /\ op'.changed = op.changed /\ op'.moved = op.moved
           /\ \A s : Without(s) =>
                /\ op'.pc = op.pc /\ op'.todo = op.todo \ {s} /\ op'.cmd = op.cmd
                /\ op'.before = op.before /\ op'.changed = op.changed /\ op'.moved = op.moved
           /\ End => op'.pc = "idle" /\ op'.cmd = "idle"
<1>1. op \in Ops
  BY DEF TypeOK
<1>2. ASSUME NEW pc, NEW todo, Goto(pc, todo)
      PROVE  /\ op'.pc = pc /\ op'.todo = todo /\ op'.cmd = op.cmd /\ op'.before = op.before
             /\ op'.changed = op.changed /\ op'.moved = op.moved
  BY <1>1, <1>2 DEF Goto, Ops
<1>3. ASSUME NEW s, Without(s)
      PROVE  /\ op'.pc = op.pc /\ op'.todo = op.todo \ {s} /\ op'.cmd = op.cmd
             /\ op'.before = op.before /\ op'.changed = op.changed /\ op'.moved = op.moved
  BY <1>1, <1>3 DEF Without, Ops
<1>4. End => op'.pc = "idle" /\ op'.cmd = "idle"
  BY DEF End, Nobody
<1>5. QED
  BY <1>2, <1>3, <1>4

\* A pull, and a deploy's.
LEMMA PullInv ==
    ASSUME TypeOK, OwnReferences, TagsTame, UpdateUndone, Pull \/ Refetch
    PROVE  TagsTame' /\ UpdateUndone'
<1>1. UNCHANGED <<loose, users, runs, held, cand>>
  BY DEF Pull, Refetch, names, records
<1>2. PICK s \in op.todo :
          /\ Names(s, registry[RefOf[s]])
          /\ \/ At("pull") /\ Goto("detect", {})
             \/ At("refetch") /\ Goto("candidate", held)
             \/ Without(s)
  <2>1. CASE Pull
    BY <2>1 DEF Pull
  <2>2. CASE Refetch
    BY <2>2 DEF Refetch
  <2>3. QED
    BY <2>1, <2>2
<1>3. op.pc \in {"pull", "refetch"} /\ (op.pc = "refetch" <=> Refetch) /\ (op.pc = "pull" <=> Pull)
  BY DEF Pull, Refetch, At
<1>4. s \in Services /\ \A t \in Services : t # s => Named(t)' = Named(t)
  BY <1>2, NamesOne DEF TypeOK, Ops
<1>5. /\ op'.before = op.before /\ op'.cmd = op.cmd
      /\ \/ op'.pc = op.pc
         \/ op.pc = "pull" /\ op'.pc = "detect"
         \/ op.pc = "refetch" /\ op'.pc = "candidate" /\ op'.todo = held
  BY <1>2, GotoFields DEF At
<1>6. op.pc = "refetch" => op.todo \subseteq held
  BY DEF TagsTame
<1>7. TagsTame'
  <2>1. op'.pc = "refetch" => op'.todo \subseteq held
    BY <1>2, <1>5, <1>6, GotoFields
  <2>2. \A t \in Follows : t \in Services /\ (op.pc = "refetch" /\ t \notin held => t # s)
    BY <1>6, ContainerUpdateAssumption
  <2>3. QED
    BY <1>1, <1>3, <1>4, <1>5, <2>1, <2>2 DEF TagsTame, Tame, Looking
<1>8. UpdateUndone'
  BY <1>1, <1>3, <1>5 DEF UpdateUndone
<1>9. QED
  BY <1>7, <1>8

\* A tag goes back: what drifted, what came with it, what failed, what a deploy
\* pulled again.
LEMMA PutBackInv ==
    ASSUME TypeOK, OwnReferences, TagsTame, UpdateUndone, HoldBack \/ HoldRest \/ Retag \/ TagBack
    PROVE  TagsTame' /\ UpdateUndone'
<1>1. UNCHANGED <<users, runs, held, cand>> /\ loose \subseteq loose'
  BY DEF HoldBack, HoldRest, Retag, TagBack, records
<1>2. PICK s \in op.todo :
          /\ Names(s, op.before[s])
          /\ \/ HoldBack /\ op.todo = {s} /\ Goto("drift", {})
             \/ HoldRest /\ op.todo = {s} /\ End
             \/ Retag /\ op.todo = {s} /\ Goto("back", {})
             \/ TagBack /\ op.todo = {s} /\ Goto("decide", {})
             \/ Without(s)
          /\ Retag => op.before[s].user = users[s] \/ op.before[s].n \in loose'
  <2>1. CASE HoldBack
    BY <2>1 DEF HoldBack, Retag, At
  <2>2. CASE HoldRest
    BY <2>2 DEF HoldRest, Retag, At, Ends
  <2>3. CASE Retag
    <3>1. PICK s \in op.todo :
              /\ Names(s, op.before[s])
              /\ IF op.todo = {s} THEN Goto("back", {}) ELSE Without(s)
              /\ loose' = IF op.before[s].user = users[s] THEN loose
                                                         ELSE loose \cup {op.before[s].n}
      BY <2>3 DEF Retag
    <3>2. op.before[s].user = users[s] \/ op.before[s].n \in loose'
      BY <3>1
    <3>3. QED
      BY <2>3, <3>1, <3>2
  <2>4. CASE TagBack
    BY <2>4 DEF TagBack, Retag, At
  <2>5. QED
    BY <2>1, <2>2, <2>3, <2>4
<1>3. /\ HoldBack => op.pc = "hold" /\ loose' = loose
      /\ HoldRest => op.pc = "holdRest" /\ loose' = loose
      /\ Retag => op.pc = "retag"
      /\ TagBack => op.pc = "candidate" /\ loose' = loose
  BY DEF HoldBack, HoldRest, Retag, TagBack, At
<1>4. s \in Services /\ Named(s)' = op.before[s] /\ \A t \in Services : t # s => Named(t)' = Named(t)
  BY <1>2, NamesOne DEF TypeOK, Ops
<1>5. \/ /\ op'.pc = op.pc /\ op'.before = op.before /\ op'.todo = op.todo \ {s}
         /\ op'.cmd = op.cmd /\ op'.changed = op.changed /\ op'.moved = op.moved
      \/ /\ op.todo = {s} /\ op'.before = op.before
         /\ op'.cmd = op.cmd /\ op'.changed = op.changed /\ op'.moved = op.moved
         /\ \/ op.pc = "hold" /\ op'.pc = "drift"
            \/ op.pc = "retag" /\ op'.pc = "back"
            \/ op.pc = "candidate" /\ op'.pc = "decide"
      \/ op.todo = {s} /\ op.pc = "holdRest" /\ op'.pc = "idle" /\ op'.cmd = "idle"
  BY <1>2, <1>3, GotoFields
<1>6. \A t \in Follows : Tame(t, op.before[t]) => (t \in Services /\ (t = s => Tame(t, Named(t))'))
  BY <1>1, <1>4, ContainerUpdateAssumption DEF Tame
<1>7. \A t \in Follows : t # s /\ Tame(t, Named(t)) => Tame(t, Named(t))'
  BY <1>1, <1>4, ContainerUpdateAssumption DEF Tame
<1>8. op.pc = "retag" /\ s \in Follows => Tame(s, Named(s))'
  BY <1>1, <1>2, <1>3, <1>4 DEF Tame
<1>9. \A t \in Follows : Tame(t, op.before[t]) /\ op'.before = op.before => Tame(t, op.before[t])'
  BY <1>1 DEF Tame
<1>10. TagsTame'
  BY <1>2, <1>3, <1>5, <1>6, <1>7, <1>8, <1>9 DEF TagsTame, Looking
<1>11. UpdateUndone'
  BY <1>1, <1>2, <1>3, <1>4, <1>5 DEF UpdateUndone, Undone
<1>12. QED
  BY <1>10, <1>11

\* Where nothing a start depends on changes, tame stays tame.
LEMMA TameSame ==
    ASSUME UNCHANGED <<store, users, runs>>, loose \subseteq loose'
    PROVE  \A s \in Services : /\ Named(s)' = Named(s)
                               /\ \A image : Tame(s, image) => Tame(s, image)'
  BY NamesSame DEF Tame

\* A deploy's candidates, its decision and its promotion.
LEMMA DecideInv ==
    ASSUME TypeOK, OwnReferences, TagsTame, UpdateUndone,
           Candidate \/ Decide \/ PromoteOne \/ Promoted
    PROVE  TagsTame' /\ UpdateUndone'
<1>1. UNCHANGED <<loose, runs>> /\ \A s \in Follows : s \in Services
  BY ContainerUpdateAssumption DEF Candidate, Decide, PromoteOne, Promoted, names
<1>2. CASE Candidate
  <2>1. op.pc = "candidate" /\ UNCHANGED <<store, users, runs, op>>
    BY <1>2 DEF Candidate, At, records
  <2>2. QED
    BY <1>1, <2>1, TameSame DEF TagsTame, UpdateUndone, Looking
<1>3. CASE Decide
  <2>1. op.pc = "decide" /\ op'.pc = "promote" /\ op'.cmd = op.cmd
    BY <1>3, GotoFields DEF Decide, At
  <2>2. UNCHANGED <<store, cand>> /\ users' = [s \in Services |-> DecidedFrom(s).user]
    BY <1>3 DEF Decide, names
  <2>3. \A s \in Services : users'[s] = IF cand[s] # NoImage THEN cand[s].user ELSE Named(s).user
    BY <2>2 DEF DecidedFrom
  <2>4. \A s \in Follows : cand[s] = NoImage => Tame(s, Named(s))'
    BY <1>1, <2>2, <2>3, NamesSame DEF Tame
  <2>5. QED
    BY <1>1, <2>1, <2>2, <2>3, <2>4 DEF TagsTame, UpdateUndone, Looking
<1>4. CASE PromoteOne
  <2>1. PICK s \in Services : /\ cand[s] # NoImage /\ Names(s, cand[s])
                             /\ cand' = [cand EXCEPT ![s] = NoImage]
    BY <1>4 DEF PromoteOne
  <2>2. op.pc = "promote" /\ UNCHANGED <<op, users>>
    BY <1>4 DEF PromoteOne, At, records
  <2>3. Named(s)' = cand[s] /\ \A t \in Services : t # s => Named(t)' = Named(t)
    BY <2>1, NamesOne
  <2>4. \A t \in Services : t # s => cand'[t] = cand[t]
    BY <2>1 DEF TypeOK
  <2>5. cand'[s] = NoImage
    BY <2>1 DEF TypeOK
  <2>6. s \in Follows => Tame(s, Named(s))'
    BY <1>1, <2>1, <2>2, <2>3 DEF Tame, TagsTame
  <2>7. \A t \in Follows : t # s /\ Tame(t, Named(t)) => Tame(t, Named(t))'
    BY <1>1, <2>2, <2>3 DEF Tame
  <2>8. QED
    BY <1>1, <2>2, <2>4, <2>5, <2>6, <2>7 DEF TagsTame, UpdateUndone, Looking
<1>5. CASE Promoted
  <2>1. op.pc = "promote" /\ op'.pc = "up" /\ op'.cmd = op.cmd
    BY <1>5, GotoFields DEF Promoted, At
  <2>2. UNCHANGED <<store, users>> /\ \A s \in Services : cand[s] = NoImage
    BY <1>5 DEF Promoted, names
  <2>3. QED
    BY <1>1, <2>1, <2>2, TameSame DEF TagsTame, UpdateUndone, Looking
<1>6. QED
  BY <1>2, <1>3, <1>4, <1>5

\* What is looked at is put back, or is tame; the update knows what it changed.
LEMMA DetectInv ==
    ASSUME TypeOK, TagsTame, UpdateUndone, Detect
    PROVE  TagsTame' /\ UpdateUndone'
<1>1. op.pc = "detect" /\ UNCHANGED <<store, users, runs, loose, held>>
  BY DEF Detect, At, names
<1>2. \A s \in Services : Named(s)' = Named(s) /\ (s \in Changed <=> Named(s) # op.before[s])
  BY <1>1, NamesSame DEF Changed
<1>3. \A s \in Follows :
         /\ s \in Services
         /\ Tame(s, op.before[s])
         /\ s \notin Drifted(Changed) => Tame(s, Named(s))
  <2>1. SUFFICES ASSUME NEW s \in Follows
                 PROVE  /\ s \in Services
                        /\ Tame(s, op.before[s])
                        /\ s \notin Drifted(Changed) => Tame(s, Named(s))
    OBVIOUS
  <2>2. s \in Services /\ Tame(s, op.before[s])
    BY <1>1, ContainerUpdateAssumption DEF TagsTame
  <2>3. CASE s \in Changed
    BY <2>2, <2>3 DEF Drifted, Tame
  <2>4. CASE s \notin Changed
    BY <1>2, <2>2, <2>4
  <2>5. QED
    BY <2>2, <2>3, <2>4
<1>4. \A s \in Services : \A image : Tame(s, image) => Tame(s, image)'
  BY <1>1 DEF Tame
<1>5. op.cmd = "update" => \A s \in Services : runs[s] = op.before[s]
  BY <1>1 DEF UpdateUndone
<1>6. op \in Ops
  BY DEF TypeOK
<1>7. CASE Drifted(Changed) # {}
  <2>1. op' = [op EXCEPT !.pc = "hold", !.todo = Drifted(Changed), !.moved = Drifted(Changed),
                         !.changed = Changed]
    BY <1>7 DEF Detect
  <2>2. /\ op'.pc = "hold" /\ op'.todo = Drifted(Changed) /\ op'.moved = Drifted(Changed)
        /\ op'.changed = Changed /\ op'.before = op.before /\ op'.cmd = op.cmd
    BY <1>6, <2>1 DEF Ops
  <2>3. TagsTame'
    BY <1>2, <1>3, <1>4, <2>2 DEF TagsTame, Looking
  <2>4. UpdateUndone'
    BY <1>1, <1>2, <1>5, <2>2 DEF UpdateUndone, Undone
  <2>5. QED
    BY <2>3, <2>4
<1>8. CASE Drifted(Changed) = {}
  <2>1. \A s \in Follows : Tame(s, Named(s))'
    BY <1>2, <1>3, <1>4, <1>8
  <2>2. CASE op.cmd = "update" /\ op' = [op EXCEPT !.pc = "backup", !.moved = {}, !.changed = Changed]
    <3>1. /\ op'.pc = "backup" /\ op'.changed = Changed /\ op'.before = op.before
          /\ op'.cmd = op.cmd
      BY <1>6, <2>2 DEF Ops
    <3>2. QED
      BY <1>1, <1>2, <1>5, <2>1, <3>1 DEF TagsTame, UpdateUndone, Undone, Looking
  <2>3. CASE op.cmd = "resume" /\ Goto("up", {})
    <3>1. op'.pc = "up" /\ op'.cmd = "resume"
      BY <2>3, GotoFields
    <3>2. QED
      BY <2>1, <3>1 DEF TagsTame, UpdateUndone, Looking
  <2>4. CASE End
    BY <2>1, <2>4, GotoFields DEF TagsTame, UpdateUndone, Looking
  <2>5. QED
    BY <1>8, <2>2, <2>3, <2>4 DEF Detect, Ends
<1>9. QED
  BY <1>7, <1>8

\* What drifted is recorded; the update goes on, or ends.
LEMMA JudgeInv ==
    ASSUME TypeOK, TagsTame, UpdateUndone, RecordDrift \/ Backup \/ Verdict \/ BackVerdict
    PROVE  TagsTame' /\ UpdateUndone'
<1>1. UNCHANGED <<store, users, runs, loose>>
  BY DEF RecordDrift, Backup, Verdict, BackVerdict, names
<1>2. \A s \in Follows : s \in Services
  BY ContainerUpdateAssumption
<1>3. op.pc \in {"drift", "backup", "verdict", "backVerdict"}
  BY DEF RecordDrift, Backup, Verdict, BackVerdict, At
<1>4. \/ End
      \/ op.pc = "drift" /\ (Goto("up", {}) \/ Goto("holdRest", op.changed \ op.moved))
      \/ op.pc = "backup" /\ Goto("recreate", {})
      \/ op.pc = "verdict" /\ Goto("retag", op.changed)
  BY DEF RecordDrift, Backup, Verdict, BackVerdict, RollsBack, Ends, At
<1>5. \/ op'.pc = "idle" /\ op'.cmd = "idle"
      \/ /\ op'.cmd = op.cmd /\ op'.before = op.before /\ op'.changed = op.changed
         /\ op'.moved = op.moved
         /\ \/ op.pc = "drift" /\ op'.pc = "up"
            \/ op.pc = "drift" /\ op'.pc = "holdRest" /\ op'.todo = op.changed \ op.moved
            \/ op.pc = "backup" /\ op'.pc = "recreate"
            \/ op.pc = "verdict" /\ op'.pc = "retag" /\ op'.todo = op.changed
  BY <1>4, GotoFields
<1>6. TagsTame'
  BY <1>1, <1>2, <1>3, <1>5, TameSame DEF TagsTame, Looking
<1>7. UpdateUndone'
  BY <1>1, <1>3, <1>5, NamesSame DEF UpdateUndone, Undone
<1>8. QED
  BY <1>6, <1>7

\* `up`, which starts what the tags name, and what follows it.
LEMMA RecreateInv ==
    ASSUME TypeOK, TagsTame, UpdateUndone,
           \/ Recreates("recreate") \/ Recreates("back") \/ Recreates("up") \/ Recreated
           \/ Pause \/ Abandon
    PROVE  TagsTame' /\ UpdateUndone'
<1>1. UNCHANGED <<store, users, loose, held>> /\ \A s \in Follows : s \in Services
  BY ContainerUpdateAssumption
     DEF Recreates, Recreated, Pause, Abandon, names, records
<1>2. ASSUME NEW pc \in {"recreate", "back", "up"}, Recreates(pc)
      PROVE  TagsTame' /\ UpdateUndone'
  <2>1. PICK s \in Services : runs' = [runs EXCEPT ![s] = Named(s)]
    BY <1>2 DEF Recreates, Stale
  <2>2. op.pc = pc /\ UNCHANGED op
    BY <1>2 DEF Recreates, At
  <2>3. \A t \in Services : runs'[t] = runs[t] \/ runs'[t] = Named(t)
    BY <2>1 DEF TypeOK
  <2>4. \A t \in Follows : Tame(t, Named(t))'
    BY <1>1, <2>2, <2>3, NamesSame DEF TagsTame, Tame, Looking
  <2>5. QED
    BY <1>1, <2>2, <2>4, NamesSame DEF TagsTame, UpdateUndone, Undone, Looking
<1>3. CASE Recreated
  <2>1. UNCHANGED runs /\ \A s \in Services : runs[s] = Named(s)
    BY <1>3 DEF Recreated, Stale
  <2>2. \/ op'.pc = "idle" /\ op'.cmd = "idle" /\ op.pc = "up"
        \/ /\ op'.cmd = op.cmd /\ op'.before = op.before /\ op'.changed = op.changed
           /\ \/ op.pc = "recreate" /\ op'.pc = "verdict"
              \/ op.pc = "back" /\ op'.pc = "backVerdict"
    BY <1>3, GotoFields DEF Recreated, At
  <2>3. QED
    BY <1>1, <2>1, <2>2, TameSame, NamesSame DEF TagsTame, UpdateUndone, Undone, Looking
<1>4. CASE Pause \/ Abandon
  <2>1. op = Nobody /\ UNCHANGED <<op, runs>>
    BY <1>4 DEF Pause, Abandon
  <2>2. QED
    BY <1>1, <2>1, TameSame DEF Nobody, TagsTame, UpdateUndone, Looking
<1>5. QED
  BY <1>2, <1>3, <1>4

\* A kill or a failed step leaves what it was looking at among the unexamined.
LEMMA FailInv ==
    ASSUME TypeOK, TagsTame, UpdateUndone, StepFails \/ Kill
    PROVE  TagsTame' /\ UpdateUndone'
<1>1. UNCHANGED <<store, users, runs>> /\ loose' = Left /\ \A s \in Follows : s \in Services
  BY ContainerUpdateAssumption DEF StepFails, Kill, records
<1>2. loose \subseteq loose'
  BY <1>1 DEF Left
<1>3. \/ op'.pc = "idle" /\ op'.cmd = "idle"
      \/ /\ op.pc = "recreate" /\ op'.pc = "retag" /\ op'.todo = op.changed
         /\ op'.cmd = op.cmd /\ op'.before = op.before
  BY GotoFields DEF StepFails, Kill, RollsBack, Ends, At
<1>4. \A s \in Follows : Tame(s, Named(s))'
  <2>1. SUFFICES ASSUME NEW s \in Follows PROVE Tame(s, Named(s))'
    OBVIOUS
  <2>2. Named(s)' = Named(s) /\ s \in Services
    BY <1>1, NamesSame
  <2>3. CASE op.pc \in Looking
    <3>1. loose' = loose \cup {Named(t).n : t \in Stale}
      BY <1>1, <2>3 DEF Left, Looking
    <3>2. CASE s \in Stale
      BY <2>2, <3>1, <3>2 DEF Tame
    <3>3. CASE s \notin Stale
      BY <1>1, <2>2, <3>3 DEF Tame, Stale
    <3>4. QED
      BY <3>2, <3>3
  <2>4. CASE op.pc \notin Looking
    BY <1>1, <1>2, <2>2, <2>4 DEF Tame, TagsTame
  <2>5. QED
    BY <2>3, <2>4
<1>5. TagsTame'
  BY <1>3, <1>4 DEF TagsTame
<1>6. UpdateUndone'
  BY <1>1, <1>2, <1>3, NamesSame DEF UpdateUndone, Undone
<1>7. QED
  BY <1>5, <1>6

\* The registry changes nothing; another project's pull only what is unexamined.
LEMMA WorldInv ==
    ASSUME TypeOK, TagsTame, UpdateUndone, Publish \/ OtherPull
    PROVE  TagsTame' /\ UpdateUndone'
<1>1. UNCHANGED <<users, runs, op, held, cand>> /\ \A s \in Follows : s \in Services
  BY ContainerUpdateAssumption DEF Publish, OtherPull, records, names
<1>2. /\ \A s \in Services : Named(s)' = Named(s) \/ Named(s)'.n \in loose'
      /\ loose \subseteq loose'
  BY NamesSame, OtherPullNames DEF Publish, names
<1>3. \A s \in Services : \A image : Tame(s, image) => Tame(s, image)'
  BY <1>1, <1>2 DEF Tame
<1>4. \A s \in Services : Tame(s, Named(s)) => Tame(s, Named(s))'
  BY <1>1, <1>2, <1>3 DEF Tame
<1>5. TagsTame'
  <2>1. ASSUME NEW s \in Follows, cand[s] = NoImage, Tame(s, Named(s)) PROVE Tame(s, Named(s))'
    BY <1>1, <1>4, <2>1
  <2>2. QED
    BY <1>1, <1>3, <1>4, <2>1 DEF TagsTame
<1>6. UpdateUndone'
  BY <1>1, <1>2 DEF UpdateUndone, Undone
<1>7. QED
  BY <1>5, <1>6

\* At first every service runs what its reference names.
LEMMA InitInv == Init => TagsTame /\ UpdateUndone
<1> SUFFICES ASSUME Init PROVE TagsTame /\ UpdateUndone
  OBVIOUS
<1>1. op.pc = "idle" /\ op.cmd = "idle"
  BY DEF Init, Nobody
<1>2. \A s \in Follows : Tame(s, Named(s))
  BY ContainerUpdateAssumption DEF Init, Tame, Named
<1>3. QED
  BY <1>1, <1>2 DEF TagsTame, UpdateUndone

\* Every step keeps the tags tame and the update undone.
LEMMA InvStep ==
    ASSUME OwnReferences
    PROVE  TypeOK /\ TagsTame /\ UpdateUndone /\ [Next]_vars => (TagsTame /\ UpdateUndone)'
<1> SUFFICES ASSUME TypeOK, TagsTame, UpdateUndone, [Next]_vars PROVE TagsTame' /\ UpdateUndone'
  OBVIOUS
<1>1. CASE UNCHANGED vars
  BY <1>1, TameSame, ContainerUpdateAssumption
     DEF vars, TagsTame, UpdateUndone, Undone, Named, Tame
<1>2. QED
  BY <1>1, BeginsInv, PullInv, PutBackInv, DecideInv, DetectInv, JudgeInv, RecreateInv, FailInv,
     WorldInv DEF Next, Step

\* Where each service has its own reference: a service that runs as its image's
\* user only ever starts as the user a deploy decided, or again on the image it
\* ran, except on images that a kill, a failed step or another project's pull
\* left named (user_drift.guard_pull, _pull_again, promote_candidates).
THEOREM StartsAsDecidedHolds == OwnReferences => (Spec => StartsAsDecided)
<1> SUFFICES ASSUME OwnReferences PROVE Spec => StartsAsDecided
  OBVIOUS
<1> DEFINE Inv == TypeOK /\ TagsTame /\ UpdateUndone
<1>1. Init => Inv
  BY TypeInit, InitInv
<1>2. Inv /\ [Next]_vars => Inv'
  BY TypeStep, InvStep
<1>3. Inv /\ [Next]_vars =>
         [\A s \in Follows : runs'[s] # runs[s] =>
             runs'[s].user = users[s] \/ runs'[s].n \in loose]_vars
  <2> SUFFICES ASSUME Inv, Next, NEW s \in Follows, runs'[s] # runs[s]
               PROVE  runs'[s].user = users[s] \/ runs'[s].n \in loose
    BY DEF vars
  <2>1. PICK pc \in {"recreate", "back", "up"} : Recreates(pc)
    BY DEF Next, Step, UpdateBegins, DryRunBegins, ResumeBegins, RestartBegins, Pause,
       DeployBegins, Abandon, Pull, Detect, HoldBack, RecordDrift, HoldRest, Backup, Recreated,
       Verdict, Retag, BackVerdict, Refetch, Candidate, TagBack, Decide, PromoteOne, Promoted,
       StepFails, Kill, Publish, OtherPull, records
  <2>2. Tame(s, Named(s))
    BY <2>1 DEF Recreates, At, TagsTame, Looking
  <2>3. runs'[s] = Named(s)
    BY <2>1 DEF Recreates, TypeOK
  <2>4. QED
    BY <2>2, <2>3 DEF Tame
<1>4. QED
  BY <1>1, <1>2, <1>3, PTL DEF Spec, StartsAsDecided

\* Where each service has its own reference: an update that was held back or
\* rolled back leaves every service, and every tag the next restart would start
\* from, as it found the containers (_update_locked, _maybe_rollback).
THEOREM FailedRunIsUndoneHolds == OwnReferences => (Spec => FailedRunIsUndone)
<1> SUFFICES ASSUME OwnReferences PROVE Spec => FailedRunIsUndone
  OBVIOUS
<1> DEFINE Inv == TypeOK /\ TagsTame /\ UpdateUndone
<1>1. Init => Inv
  BY TypeInit, InitInv
<1>2. Inv /\ [Next]_vars => Inv'
  BY TypeStep, InvStep
<1>3. Inv /\ [Next]_vars =>
         [last' # last /\ last' \in {"user_changed", "rolled_back"} =>
             \A s \in Services : \A image \in {runs'[s], Named(s)'} :
                 image = op.before[s] \/ image.n \in loose']_vars
  <2> SUFFICES ASSUME Inv, Next, last' # last, last' \in {"user_changed", "rolled_back"},
                      NEW s \in Services
               PROVE  \A image \in {runs'[s], Named(s)'} : image = op.before[s] \/ image.n \in loose'
    BY DEF vars
  <2>1. op.cmd = "update" /\ (RecordDrift \/ HoldRest \/ BackVerdict)
    BY DEF Next, Step, UpdateBegins, DryRunBegins, ResumeBegins, RestartBegins, Pause,
       DeployBegins, Abandon, Pull, Detect, HoldBack, RecordDrift, HoldRest, Backup, Recreates,
       Recreated, Verdict, Retag, BackVerdict, Refetch, Candidate, TagBack, Decide, PromoteOne,
       Promoted, StepFails, Kill, Publish, OtherPull, RollsBack, Ends, records
  <2>2. CASE RecordDrift
    <3>1. op.pc = "drift" /\ op.changed = op.moved /\ UNCHANGED <<store, runs, loose>>
      BY <2>1, <2>2 DEF RecordDrift, At, names
    <3>2. QED
      BY <2>1, <3>1, NamesSame DEF UpdateUndone, Undone
  <2>3. CASE HoldRest
    <3>1. op.pc = "holdRest" /\ UNCHANGED <<runs, loose>>
      BY <2>3 DEF HoldRest, At
    <3>2. PICK t \in Services : Names(t, op.before[t]) /\ op.todo = {t}
      BY <2>3 DEF HoldRest, TypeOK, Ops
    <3>3. Named(t)' = op.before[t] /\ \A r \in Services : r # t => Named(r)' = Named(r)
      BY <3>2, NamesOne
    <3>4. QED
      BY <2>1, <3>1, <3>2, <3>3 DEF UpdateUndone, Undone
  <2>4. CASE BackVerdict
    <3>1. op.pc = "backVerdict" /\ UNCHANGED <<store, runs, loose>>
      BY <2>4 DEF BackVerdict, At, names
    <3>2. QED
      BY <2>1, <3>1, NamesSame DEF UpdateUndone, Undone
  <2>5. QED
    BY <2>1, <2>2, <2>3, <2>4
<1>4. QED
  BY <1>1, <1>2, <1>3, PTL DEF Spec, FailedRunIsUndone
=============================================================================
