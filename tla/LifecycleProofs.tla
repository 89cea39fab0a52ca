--------------------------- MODULE LifecycleProofs ---------------------------
(***************************************************************************)
(* Proofs about Lifecycle: its types, that a pinned container's policy is  *)
(* never forgotten, and that a finished hold's containers stay down; and   *)
(* about the health tick of HealthAlerts, which runs under the same lock:  *)
(* its types, and that what is recorded as told was told.                  *)
(*                                                                         *)
(* A hold's promises are made by one step and used by a later one, with    *)
(* kills, failures and daemon restarts in between, so the invariant speaks *)
(* of the steps a command still owes: a policy that is to be pinned and no *)
(* longer to be saved is saved; a record that is to be cleared and no      *)
(* longer to be given back or handed over is not needed.                   *)
(***************************************************************************)
EXTENDS Lifecycle, HealthRecord, SequenceTheorems, TLAPS

----------------------------------------------------------------------------
\* The invariant.

Holds == {"pause", "quar"}
Cmds == {"idle", "pause", "resume", "scan", "lift", "fix", "deploy", "copy", "tick", "recover",
         "restart", "failed"}
AllSteps == MayFail \cup {"page", "complete", "handOver", "clear", "mark", "unmark",
                          "stopped", "started", "judge", "close"}
Other(r) == IF r = "pause" THEN "quar" ELSE "pause"

OpType == /\ op \in [cmd : Cmds, todo : Seq(AllSteps)]
          /\ (op.cmd = "idle") = (op.todo = <<>>)

HoldType ==
    hold \in [Holds -> [on : BOOLEAN, complete : BOOLEAN, saved : AllPolicies \cup {"none"}]]

\* Among the steps s there is an x, and no step of G before it.
Owes(s, x, G) ==
    \E i \in 1 .. Len(s) : s[i] = x /\ \A j \in 1 .. (i - 1) : s[j] \notin G

OwesPin(s) == Owes(s, "pin", {"save"})
OwesClear(s) == Owes(s, "clear", {"release", "restore", "handOver"})
OwesClearAlone(s) == Owes(s, "clear", {"handOver"})
OwesHandOver(s) == Owes(s, "handOver", {})
Pins(s) == \E i \in 1 .. Len(s) : s[i] \in {"save", "pin", "complete"}
CanFail(s) == \E i \in 1 .. Len(s) : s[i] \in MayFail

\* The commands a step belongs to.
Fits(cmd, x) ==
    /\ x \in {"save", "pin", "complete"} => cmd \in {"pause", "scan", "failed"}
    /\ x = "clear" => cmd \in {"resume", "lift", "fix"}
    /\ x = "handOver" => cmd = "lift"
    /\ x = "up" => cmd \in {"resume", "lift", "fix", "deploy", "recover", "restart"}
    /\ x = "start" => cmd \in {"copy", "tick", "recover"}

\* A command's steps are its own, and none fails once a record is cleared.
Ordered(cmd, s) ==
    /\ \A i \in 1 .. Len(s) : Fits(cmd, s[i])
    /\ \A i, j \in 1 .. Len(s) : i < j /\ s[i] = "clear" => s[j] \notin MayFail

\* A record with a policy to give back, and one that knows only the "no" the
\* other hold had set.  A release may name "no" itself: then neither a pinned
\* container nor a saved "no" says anything.
Plain == "no" \notin Policies
Real(r) == hold[r].on /\ hold[r].saved \notin {"none", "no"}
Lost(r) == Plain /\ hold[r].saved = "no"
Pinned == Plain /\ box.run # "gone" /\ box.policy = "no"

\* What starts containers without lifting a hold runs with none.
Steady == op.cmd \in {"deploy", "recover", "restart"} => ~Held

\* The record a step is about stands.
Recorded ==
    /\ Pins(op.todo) => hold[Mine].on
    /\ op.cmd = "fix" /\ CanFail(op.todo) => hold.quar.on
    /\ OwesHandOver(op.todo) => hold.pause.on

\* A record that knows only "no" stands beside one that knows better.
Saved ==
    \A r \in Holds : /\ hold[r].saved # "none" => hold[r].on
                     /\ Lost(r) => Real(Other(r))
Kept == Pinned => \E r \in Holds : Real(r)

\* What is to be pinned is saved; what is to be cleared is not needed, and
\* leaves no record that relied on it.
MayPin == OwesPin(op.todo) => box.run = "gone" \/ hold[Mine].saved # "none"
MayClear == OwesClear(op.todo) => (Pinned => Real(Other(Mine)))
Alone == OwesClearAlone(op.todo) => ~Lost(Other(Mine))

Inv == /\ Ordered(op.cmd, op.todo) /\ Steady /\ Recorded /\ Saved /\ Kept
       /\ MayPin /\ MayClear /\ Alone

\* A command goes on to its next step: what it owes, it owed, or its step
\* was to come before.
GoesOn ==
    /\ OpType' /\ Ordered(op'.cmd, op'.todo)
    /\ op'.todo # <<>> => op'.cmd = op.cmd
    /\ OwesPin(op'.todo) => OwesPin(op.todo) \/ Head(op.todo) = "save"
    /\ OwesClear(op'.todo) =>
           OwesClear(op.todo) \/ Head(op.todo) \in {"release", "restore", "handOver"}
    /\ OwesClearAlone(op'.todo) => OwesClearAlone(op.todo) \/ Head(op.todo) = "handOver"
    /\ OwesHandOver(op'.todo) => OwesHandOver(op.todo)
    /\ Pins(op'.todo) => Pins(op.todo)
    /\ CanFail(op'.todo) => CanFail(op.todo) /\ Head(op.todo) # "clear"

----------------------------------------------------------------------------
\* The sequences of steps.

\* What is left of a command's steps after its first: nothing new is owed,
\* except what that first step was to come before.
LEMMA TailOwes ==
    ASSUME NEW T, NEW s \in Seq(T), s # <<>>, NEW x, NEW G, Owes(Tail(s), x, G)
    PROVE  Owes(s, x, G) \/ Head(s) \in G
<1> DEFINE t == Tail(s)
<1>1. /\ Len(t) = Len(s) - 1 /\ Len(s) \in Nat /\ Len(s) >= 1
      /\ \A i \in 1 .. Len(t) : t[i] = s[i + 1]
  BY HeadTailProperties, LenProperties, EmptySeq
<1>2. Head(s) = s[1]
  BY HeadTailProperties
<1>3. PICK i \in 1 .. Len(t) : t[i] = x /\ \A j \in 1 .. (i - 1) : t[j] \notin G
  BY DEF Owes
<1>4. SUFFICES ASSUME Head(s) \notin G PROVE Owes(s, x, G)
  OBVIOUS
<1>5. i + 1 \in 1 .. Len(s) /\ s[i + 1] = x
  BY <1>1, <1>3
<1>6. ASSUME NEW j \in 1 .. ((i + 1) - 1) PROVE s[j] \notin G
  <2>1. CASE j = 1
    BY <2>1, <1>2, <1>4
  <2>2. CASE j # 1
    <3>1. j - 1 \in 1 .. (i - 1) /\ j - 1 \in 1 .. Len(t)
      BY <2>2, <1>1
    <3>2. t[j - 1] = s[(j - 1) + 1] /\ (j - 1) + 1 = j
      BY <3>1, <1>1
    <3>3. t[j - 1] \notin G
      BY <3>1, <1>3
    <3> QED
      BY <3>2, <3>3
  <2> QED
    BY <2>1, <2>2
<1> QED
  BY <1>5, <1>6 DEF Owes

\* What is left keeps to its command and its order, and holds no new step.
LEMMA TailKeeps ==
    ASSUME NEW T, NEW s \in Seq(T), s # <<>>, NEW cmd, Ordered(cmd, s)
    PROVE  /\ Ordered(cmd, Tail(s))
           /\ Pins(Tail(s)) => Pins(s)
           /\ CanFail(Tail(s)) => CanFail(s) /\ Head(s) # "clear"
<1> DEFINE t == Tail(s)
<1>1. /\ Len(t) = Len(s) - 1 /\ Len(s) \in Nat /\ Len(s) >= 1
      /\ \A i \in 1 .. Len(t) : t[i] = s[i + 1]
  BY HeadTailProperties, LenProperties, EmptySeq
<1>2. Head(s) = s[1]
  BY HeadTailProperties
<1>3. \A i \in 1 .. Len(t) : i + 1 \in 1 .. Len(s) /\ t[i] = s[i + 1]
  BY <1>1
<1>4. Ordered(cmd, t)
  <2>1. ASSUME NEW i \in 1 .. Len(t) PROVE Fits(cmd, t[i])
    BY <1>3 DEF Ordered
  <2>2. ASSUME NEW i \in 1 .. Len(t), NEW j \in 1 .. Len(t), i < j, t[i] = "clear"
        PROVE  t[j] \notin MayFail
    <3>1. i + 1 \in 1 .. Len(s) /\ j + 1 \in 1 .. Len(s) /\ i + 1 < j + 1
      BY <1>1, <2>2
    <3> QED
      BY <3>1, <2>2, <1>3 DEF Ordered
  <2> QED
    BY <2>1, <2>2 DEF Ordered
<1>5. Pins(t) => Pins(s)
  BY <1>3 DEF Pins
<1>6. ASSUME CanFail(t) PROVE CanFail(s) /\ Head(s) # "clear"
  <2>1. PICK i \in 1 .. Len(t) : t[i] \in MayFail
    BY <1>6 DEF CanFail
  <2>2. i + 1 \in 1 .. Len(s) /\ s[i + 1] \in MayFail /\ 1 \in 1 .. Len(s) /\ 1 < i + 1
    BY <2>1, <1>3, <1>1
  <2> QED
    BY <2>2, <1>2 DEF CanFail, Ordered
<1> QED
  BY <1>4, <1>5, <1>6

\* The step a command is at.
LEMMA HeadOwes ==
    ASSUME NEW T, NEW s \in Seq(T), s # <<>>
    PROVE  /\ 1 \in 1 .. Len(s) /\ s[1] = Head(s) /\ Head(s) \in T
           /\ \A x, G : Head(s) = x => Owes(s, x, G)
<1>1. Len(s) \in Nat /\ Len(s) >= 1 /\ s[1] = Head(s) /\ Head(s) \in T
  BY HeadTailProperties, LenProperties, EmptySeq
<1> QED
  BY <1>1 DEF Owes

\* A command's steps as it begins: they are its own, in order, each policy
\* is saved before it is changed and each record spared before it is cleared.
Whole(cmd, s) == /\ s \in Seq(AllSteps) /\ s # <<>> /\ Ordered(cmd, s)
                 /\ ~OwesPin(s) /\ ~OwesClear(s)

LEMMA NothingOwed ==
    /\ ~OwesPin(<<>>) /\ ~OwesClear(<<>>) /\ ~OwesClearAlone(<<>>) /\ ~OwesHandOver(<<>>)
    /\ ~Pins(<<>>) /\ ~CanFail(<<>>) /\ \A cmd : Ordered(cmd, <<>>)
BY DEF OwesPin, OwesClear, OwesClearAlone, OwesHandOver, Owes, Pins, CanFail, Ordered

LEMMA WholePause ==
    Whole("pause", <<"page", "reload", "stop", "unmark", "save", "pin", "complete">>)
BY DEF Whole, AllSteps, MayFail, Ordered, Fits, OwesPin, OwesClear, Owes

LEMMA WholeDown == \A cmd \in {"scan", "failed"} : Whole(cmd, Down)
BY DEF Whole, AllSteps, MayFail, Ordered, Fits, OwesPin, OwesClear, Owes, Down

LEMMA WholeFailed ==
    Whole("failed", <<"started">> \o Down \o <<"close">>)
BY DEF Whole, AllSteps, MayFail, Ordered, Fits, OwesPin, OwesClear, Owes, Down

LEMMA WholeResume ==
    /\ Whole("resume", <<"release", "up", "site", "reload", "clear", "started">>)
    /\ ~Pins(<<"release", "up", "site", "reload", "clear", "started">>)
BY DEF Whole, AllSteps, MayFail, Ordered, Fits, OwesPin, OwesClear, Owes, Pins

LEMMA WholeLift ==
    /\ Whole("lift", <<"handOver", "clear">>)
    /\ ~Pins(<<"handOver", "clear">>) /\ ~OwesClearAlone(<<"handOver", "clear">>)
    /\ Whole("lift", <<"site", "reload", "release", "up", "clear">>)
    /\ ~Pins(<<"site", "reload", "release", "up", "clear">>)
    /\ ~OwesHandOver(<<"site", "reload", "release", "up", "clear">>)
BY DEF Whole, AllSteps, MayFail, Ordered, Fits, OwesPin, OwesClear, OwesClearAlone, OwesHandOver,
       Owes, Pins

LEMMA WholeFix ==
    LET s == <<"site", "up", "reload", "smoke", "reload", "restore", "up", "clear", "started",
               "close">>
    IN  Whole("fix", s) /\ ~Pins(s)
BY DEF Whole, AllSteps, MayFail, Ordered, Fits, OwesPin, OwesClear, Owes, Pins

LEMMA WholeDeploy ==
    Whole("deploy", <<"site", "up", "reload", "smoke", "started", "close">>)
BY DEF Whole, AllSteps, MayFail, Ordered, Fits, OwesPin, OwesClear, Owes

LEMMA WholeCopy == Whole("copy", <<"mark", "stop", "copy">> \o StartAgain)
BY DEF Whole, AllSteps, MayFail, Ordered, Fits, OwesPin, OwesClear, Owes, StartAgain

LEMMA WholeStartAgain == \A cmd \in {"copy", "tick", "recover"} : Whole(cmd, StartAgain)
BY DEF Whole, AllSteps, MayFail, Ordered, Fits, OwesPin, OwesClear, Owes, StartAgain

LEMMA WholeTick == Whole("tick", <<"down", "stopped">>)
BY DEF Whole, AllSteps, MayFail, Ordered, Fits, OwesPin, OwesClear, Owes

LEMMA WholeJudged ==
    /\ Whole("recover", <<"up", "site", "reload", "judge", "started">>)
    /\ Whole("recover", StartAgain \o <<"up", "site", "reload", "judge", "started">>)
BY DEF Whole, AllSteps, MayFail, Ordered, Fits, OwesPin, OwesClear, Owes, StartAgain

LEMMA WholeRestart == Whole("restart", <<"up">>)
BY DEF Whole, AllSteps, MayFail, Ordered, Fits, OwesPin, OwesClear, Owes

LEMMA WholeEnd ==
    /\ Whole("failed", <<"started">> \o <<>> \o <<"close">>)
    /\ Whole("failed", <<"close">>)
    /\ ~Pins(<<"started">> \o <<>> \o <<"close">>) /\ ~Pins(<<"close">>)
BY DEF Whole, AllSteps, MayFail, Ordered, Fits, OwesPin, OwesClear, Owes, Pins

----------------------------------------------------------------------------
\* A command's steps.

LEMMA OpTyped == TypeOK => OpType
BY DEF TypeOK, OpType, Cmds, AllSteps

\* Which steps a command cannot have.
LEMMA Foreign ==
    ASSUME NEW cmd, NEW s, Ordered(cmd, s)
    PROVE  /\ cmd \notin {"pause", "scan", "failed"} => ~Pins(s) /\ ~OwesPin(s)
           /\ cmd \notin {"resume", "lift", "fix"} => ~OwesClear(s) /\ ~OwesClearAlone(s)
           /\ cmd # "lift" => ~OwesHandOver(s)
BY DEF Ordered, Fits, Pins, OwesPin, OwesClear, OwesClearAlone, OwesHandOver, Owes

\* A command in progress is at one of its steps.
LEMMA Busy ==
    ASSUME OpType, ~Idle
    PROVE  op.todo \in Seq(AllSteps) /\ op.todo # <<>> /\ op.cmd # "idle"
<1>1. op = [cmd |-> op.cmd, todo |-> op.todo]
  BY DEF OpType
<1>2. op.cmd = "idle" => op.todo = <<>>
  BY DEF OpType
<1>3. op.cmd # "idle"
  BY <1>1, <1>2 DEF Idle, Nobody
<1> QED
  BY <1>3 DEF OpType

LEMMA TailOf ==
    ASSUME NEW T, NEW s \in Seq(T), s # <<>>, Len(s) # 1
    PROVE  Tail(s) \in Seq(T) /\ Tail(s) # <<>>
<1>1. Tail(s) \in Seq(T) /\ Len(Tail(s)) = Len(s) - 1 /\ Len(s) \in Nat
  BY HeadTailProperties, LenProperties
<1>2. Len(Tail(s)) # 0
  BY <1>1
<1> QED
  BY <1>1, <1>2, EmptySeq

\* One step less to do.
LEMMA OneDone ==
    ASSUME OpType, ~Idle, Ordered(op.cmd, op.todo), Done
    PROVE  GoesOn
<1>1. op.todo \in Seq(AllSteps) /\ op.todo # <<>> /\ op.cmd # "idle" /\ op.cmd \in Cmds
  BY Busy DEF OpType
<1>2. CASE Len(op.todo) = 1
  <2>1. op' = Nobody
    BY <1>2 DEF Done
  <2>2. op'.cmd = "idle" /\ op'.todo = <<>> /\ op' \in [cmd : Cmds, todo : Seq(AllSteps)]
    BY <2>1 DEF Nobody, Cmds
  <2> QED
    BY <2>2, NothingOwed DEF GoesOn, OpType
<1>3. CASE Len(op.todo) # 1
  <2>1. op' = [op EXCEPT !.todo = Tail(op.todo)]
    BY <1>3 DEF Done
  <2>2. op'.cmd = op.cmd /\ op'.todo = Tail(op.todo)
    BY <2>1 DEF OpType
  <2>3. Tail(op.todo) \in Seq(AllSteps) /\ Tail(op.todo) # <<>>
    BY <1>1, <1>3, TailOf
  <2>4. op' \in [cmd : Cmds, todo : Seq(AllSteps)]
    BY <2>1, <2>3 DEF OpType
  <2>5. OpType'
    BY <2>2, <2>3, <2>4, <1>1 DEF OpType
  <2>6. \A x, G : Owes(Tail(op.todo), x, G) => Owes(op.todo, x, G) \/ Head(op.todo) \in G
    BY <1>1, TailOwes
  <2>7. /\ OwesPin(op'.todo) => OwesPin(op.todo) \/ Head(op.todo) = "save"
        /\ OwesClear(op'.todo) =>
               OwesClear(op.todo) \/ Head(op.todo) \in {"release", "restore", "handOver"}
        /\ OwesClearAlone(op'.todo) => OwesClearAlone(op.todo) \/ Head(op.todo) = "handOver"
        /\ OwesHandOver(op'.todo) => OwesHandOver(op.todo)
    BY <2>2, <2>6 DEF OwesPin, OwesClear, OwesClearAlone, OwesHandOver
  <2>8. /\ Ordered(op.cmd, Tail(op.todo))
        /\ Pins(Tail(op.todo)) => Pins(op.todo)
        /\ CanFail(Tail(op.todo)) => CanFail(op.todo) /\ Head(op.todo) # "clear"
    BY <1>1, TailKeeps
  <2> QED
    BY <2>2, <2>5, <2>7, <2>8 DEF GoesOn
<1> QED
  BY <1>2, <1>3

\* What the step a command is at says of the command.
LEMMA AtStep ==
    ASSUME OpType, Ordered(op.cmd, op.todo), NEW x, At(x)
    PROVE  /\ Head(op.todo) = x /\ Fits(op.cmd, x)
           /\ \A G : Owes(op.todo, x, G)
           /\ x \in {"save", "pin", "complete"} => Pins(op.todo)
           /\ x \in MayFail => CanFail(op.todo)
<1>1. op.todo \in Seq(AllSteps) /\ op.todo # <<>> /\ Head(op.todo) = x
  BY Busy DEF At
<1>2. /\ 1 \in 1 .. Len(op.todo) /\ op.todo[1] = x
      /\ \A G : Owes(op.todo, x, G)
  BY <1>1, HeadOwes
<1> QED
  BY <1>1, <1>2 DEF Ordered, Pins, CanFail

----------------------------------------------------------------------------
\* The ways a step leaves the invariant.

\* Nobody is left to do anything.
LEMMA Ended ==
    ASSUME Inv, op' = Nobody, hold' = hold, Pinned' => Pinned
    PROVE  OpType' /\ Inv'
<1>1. op'.cmd = "idle" /\ op'.todo = <<>> /\ op' \in [cmd : Cmds, todo : Seq(AllSteps)]
  BY DEF Nobody, Cmds
<1>2. OpType' /\ Ordered(op.cmd, op.todo)' /\ Steady' /\ Recorded' /\ MayPin' /\ MayClear' /\ Alone'
  BY <1>1, NothingOwed DEF OpType, Steady, Recorded, MayPin, MayClear, Alone
<1>3. Saved' /\ Kept'
  BY DEF Inv, Saved, Kept, Real, Lost
<1> QED
  BY <1>2, <1>3 DEF Inv

\* A command begins, or goes on with other steps.
LEMMA Begun ==
    ASSUME NEW cmd \in Cmds \ {"idle"}, NEW s, op' = [cmd |-> cmd, todo |-> s], Whole(cmd, s),
           Steady', Recorded', Alone', Saved', Kept'
    PROVE  OpType' /\ Inv'
<1>1. op'.cmd = cmd /\ op'.todo = s /\ s \in Seq(AllSteps) /\ s # <<>>
  BY DEF Whole
<1>2. OpType'
  BY <1>1 DEF OpType
<1>3. Ordered(op.cmd, op.todo)' /\ MayPin' /\ MayClear'
  BY <1>1 DEF Whole, MayPin, MayClear
<1> QED
  BY <1>2, <1>3 DEF Inv

\* A step that touches no record and pins nothing.
LEMMA Quiet ==
    ASSUME Inv, GoesOn, hold' = hold, Pinned' => Pinned,
           Head(op.todo) \notin {"save", "pin", "release", "restore", "handOver", "clear"},
           box.run = "gone" => box'.run = "gone" \/ op.cmd \notin {"pause", "scan", "failed"}
    PROVE  Inv'
<1>1. op'.todo # <<>> => Mine' = Mine /\ op'.cmd = op.cmd
  BY DEF GoesOn, Mine
<1>2. \A r : (Real(r)' <=> Real(r)) /\ (Lost(r)' <=> Lost(r))
  BY DEF Real, Lost
<1>3. CASE op'.todo = <<>>
  <2>1. op'.cmd = "idle"
    BY <1>3 DEF GoesOn, OpType
  <2>2. Ordered(op.cmd, op.todo)' /\ Steady' /\ Recorded' /\ MayPin' /\ MayClear' /\ Alone'
    BY <1>3, <2>1, NothingOwed DEF Steady, Recorded, MayPin, MayClear, Alone
  <2> QED
    BY <2>2, <1>2 DEF Inv, Saved, Kept
<1>4. CASE op'.todo # <<>>
  <2>1. Steady' /\ Recorded'
    BY <1>1, <1>4 DEF Inv, Steady, Recorded, GoesOn, Held
  <2>2. Ordered(op.cmd, op.todo)' /\ Saved' /\ Kept'
    BY <1>2 DEF Inv, Saved, Kept, GoesOn
  <2>3. MayPin'
    <3>1. ASSUME OwesPin(op'.todo) PROVE op.cmd \in {"pause", "scan", "failed"}
      BY <3>1, <1>1, <1>4, Foreign DEF GoesOn
    <3> QED
      BY <3>1, <1>1, <1>4 DEF Inv, MayPin, GoesOn
  <2>4. MayClear'
    BY <1>1, <1>2, <1>4 DEF Inv, MayClear, GoesOn
  <2>5. Alone'
    BY <1>1, <1>4 DEF Inv, Alone, GoesOn, Lost, Other
  <2> QED
    BY <2>1, <2>2, <2>3, <2>4, <2>5 DEF Inv
<1> QED
  BY <1>3, <1>4

----------------------------------------------------------------------------
\* The commands begin.

\* A hold that was off is recorded: nothing is saved yet, and no record
\* relied on it.
LEMMA NewHold ==
    ASSUME TypeOK, Inv, NEW r \in Holds, ~hold[r].on, Record(r, [Unheld EXCEPT !.on = TRUE]),
           box' = box
    PROVE  /\ hold' \in [Holds -> [on : BOOLEAN, complete : BOOLEAN,
                                   saved : AllPolicies \cup {"none"}]]
           /\ hold'[r].on /\ Saved' /\ Kept'
<1>1. hold' = [hold EXCEPT ![r] = [on |-> TRUE, complete |-> FALSE, saved |-> "none"]]
  <2>1. ASSUME NEW u, u = [Unheld EXCEPT !.on = TRUE]
        PROVE  u = [on |-> TRUE, complete |-> FALSE, saved |-> "none"]
    BY <2>1 DEF Unheld
  <2>2. [Unheld EXCEPT !.on = TRUE] = [on |-> TRUE, complete |-> FALSE, saved |-> "none"]
    BY <2>1
  <2> QED
    BY <2>2 DEF Record
<1>2. hold \in [Holds -> [on : BOOLEAN, complete : BOOLEAN, saved : AllPolicies \cup {"none"}]]
  BY DEF TypeOK, Holds
<1>3. hold'[r] = [on |-> TRUE, complete |-> FALSE, saved |-> "none"]
  BY <1>1, <1>2
<1>4. \A q \in Holds : q # r => hold'[q] = hold[q]
  BY <1>1, <1>2
<1>5. ~Real(r)
  BY DEF Real
<1>6. \A q \in Holds : q # r => ~Lost(q)
  BY <1>5 DEF Inv, Saved, Other, Holds
<1>7. Saved'
  BY <1>3, <1>4, <1>6 DEF Inv, Saved, Lost
<1>8. Kept'
  BY <1>3, <1>4, <1>5 DEF Inv, Kept, Real, Pinned
<1>9. hold' \in [Holds -> [on : BOOLEAN, complete : BOOLEAN, saved : AllPolicies \cup {"none"}]]
  BY <1>1, <1>2
<1> QED
  BY <1>3, <1>7, <1>8, <1>9

\* A command that begins, or turns to other steps, and touches no record and no container.
LEMMA PlainBegun ==
    ASSUME Inv, NEW cmd \in Cmds \ {"idle"}, NEW s, op' = [cmd |-> cmd, todo |-> s],
           Whole(cmd, s), hold' = hold, box' = box,
           cmd \in {"deploy", "recover", "restart"} => ~Held,
           Pins(s) => hold.quar.on /\ cmd \notin {"pause", "resume"},
           cmd = "fix" => hold.quar.on, OwesHandOver(s) => hold.pause.on,
           OwesClearAlone(s) =>
               ~Lost(IF cmd = "resume" THEN "quar" ELSE "pause")
    PROVE  OpType' /\ Inv'
<1>1. op'.cmd = cmd /\ op'.todo = s
  OBVIOUS
<1>2. Steady'
  BY <1>1 DEF Steady, Held
<1>3. Recorded'
  BY <1>1 DEF Recorded, Mine
<1>4. Saved' /\ Kept'
  BY DEF Inv, Saved, Kept, Real, Pinned, Lost
<1>5. cmd = "pause" => ~OwesClearAlone(s)
  BY Foreign DEF Whole
<1>6. Alone'
  BY <1>1, <1>5 DEF Alone, Mine, Other, Lost
<1> QED
  BY <1>1, <1>2, <1>3, <1>4, <1>6, Begun

LEMMA PauseKeeps == ASSUME TypeOK, Inv, Pause PROVE TypeOK' /\ Inv'
<1> DEFINE s == <<"page", "reload", "stop", "unmark", "save", "pin", "complete">>
<1>1. op' = [cmd |-> "pause", todo |-> s] /\ op'.cmd = "pause" /\ op'.todo = s /\ box' = box
  BY DEF Pause, Begin
<1>2. /\ hold' \in [Holds -> [on : BOOLEAN, complete : BOOLEAN, saved : AllPolicies \cup {"none"}]]
      /\ hold'["pause"].on /\ Saved' /\ Kept'
  <2>1. CASE hold.pause.on
    BY <2>1, <1>1 DEF Pause, TypeOK, Inv, Saved, Kept, Real, Pinned, Lost, Holds
  <2>2. CASE ~hold.pause.on
    BY <2>2, <1>1, NewHold DEF Pause, Holds
  <2> QED
    BY <2>1, <2>2
<1>3. Whole("pause", s)
  BY WholePause
<1>4. ~OwesHandOver(s) /\ ~OwesClearAlone(s)
  BY <1>3, Foreign DEF Whole
<1>5. Steady' /\ Recorded' /\ Alone'
  BY <1>1, <1>2, <1>4 DEF Steady, Recorded, Alone, Mine
<1>6. OpType' /\ Inv'
  BY <1>1, <1>2, <1>3, <1>5, Begun DEF Cmds
<1>7. TypeOK'
  BY <1>6, <1>2, <1>1 DEF TypeOK, OpType, Cmds, AllSteps, Holds, Pause, release, web
<1> QED
  BY <1>6, <1>7

LEMMA ScanKeeps == ASSUME TypeOK, Inv, Scan PROVE TypeOK' /\ Inv'
<1>1. op' = [cmd |-> "scan", todo |-> Down] /\ op'.cmd = "scan" /\ op'.todo = Down /\ box' = box
  BY DEF Scan, Begin
<1>2. /\ hold' \in [Holds -> [on : BOOLEAN, complete : BOOLEAN, saved : AllPolicies \cup {"none"}]]
      /\ hold'["quar"].on /\ Saved' /\ Kept'
  <2>1. CASE hold.quar.on
    BY <2>1, <1>1 DEF Scan, TypeOK, Inv, Saved, Kept, Real, Pinned, Lost, Holds
  <2>2. CASE ~hold.quar.on
    BY <2>2, <1>1, NewHold DEF Scan, Holds
  <2> QED
    BY <2>1, <2>2
<1>3. Whole("scan", Down)
  BY WholeDown
<1>4. ~OwesHandOver(Down) /\ ~OwesClearAlone(Down)
  BY <1>3, Foreign DEF Whole
<1>5. Steady' /\ Recorded' /\ Alone'
  BY <1>1, <1>2, <1>4 DEF Steady, Recorded, Alone, Mine
<1>6. OpType' /\ Inv'
  BY <1>1, <1>2, <1>3, <1>5, Begun DEF Cmds
<1>7. TypeOK'
  BY <1>6, <1>2, <1>1 DEF TypeOK, OpType, Cmds, AllSteps, Holds, Scan, release, web
<1> QED
  BY <1>6, <1>7

\* What a command that begins leaves typed.
LEMMA PlainTyped ==
    ASSUME TypeOK, OpType', UNCHANGED <<hold, box, web, marker, stop, faults>>,
           rel' \in Policies, clear' \in BOOLEAN, open' \in BOOLEAN
    PROVE  TypeOK'
BY DEF TypeOK, OpType, Cmds, AllSteps, web, AllPolicies

LEMMA ResumeKeeps == ASSUME TypeOK, Inv, Resume PROVE TypeOK' /\ Inv'
<1> DEFINE s == <<"release", "up", "site", "reload", "clear", "started">>
<1>1. Begin("resume", s) /\ hold' = hold /\ box' = box /\ ~hold.quar.on
  BY DEF Resume
<1>2. Whole("resume", s) /\ ~Pins(s)
  BY WholeResume
<1>3. ~OwesHandOver(s)
  BY <1>2, Foreign DEF Whole
<1>4. ~Lost("quar")
  BY <1>1 DEF Inv, Saved, Lost, Holds
<1>5. OpType' /\ Inv'
  <2> HIDE DEF s
  <2> QED
    BY <1>1, <1>2, <1>3, <1>4, PlainBegun DEF Cmds, Begin
<1>6. TypeOK'
  BY <1>5, PlainTyped DEF Resume, release, TypeOK
<1> QED
  BY <1>5, <1>6

LEMMA LiftKeeps == ASSUME TypeOK, Inv, SecurityResume PROVE TypeOK' /\ Inv'
<1>1. hold' = hold /\ box' = box /\ hold.quar.on
  BY DEF SecurityResume
<1>2. OpType' /\ Inv'
  <2>1. CASE hold.pause.on /\ Begin("lift", <<"handOver", "clear">>)
    <3> DEFINE s == <<"handOver", "clear">>
    <3>1. Whole("lift", s) /\ ~Pins(s) /\ ~OwesClearAlone(s) /\ Begin("lift", s)
      BY <2>1, WholeLift
    <3> HIDE DEF s
    <3> QED
      BY <1>1, <2>1, <3>1, PlainBegun DEF Cmds, Begin
  <2>2. CASE ~hold.pause.on /\ Begin("lift", <<"site", "reload", "release", "up", "clear">>)
    <3> DEFINE s == <<"site", "reload", "release", "up", "clear">>
    <3>1. Whole("lift", s) /\ ~Pins(s) /\ ~OwesHandOver(s) /\ Begin("lift", s)
      BY <2>2, WholeLift
    <3>2. ~Lost("pause")
      BY <2>2 DEF Inv, Saved, Lost, Holds
    <3> HIDE DEF s
    <3> QED
      BY <1>1, <3>1, <3>2, PlainBegun DEF Cmds, Begin
  <2> QED
    BY <2>1, <2>2 DEF SecurityResume
<1>3. TypeOK'
  BY <1>2, PlainTyped DEF SecurityResume, release, TypeOK
<1> QED
  BY <1>2, <1>3

LEMMA DeployKeeps == ASSUME TypeOK, Inv, Deploy PROVE TypeOK' /\ Inv'
<1>1. hold' = hold /\ box' = box /\ ~hold.pause.on
  BY DEF Deploy
<1>2. ~Lost("pause")
  BY <1>1 DEF Inv, Saved, Lost, Holds
<1>3. OpType' /\ Inv'
  <2>1. CASE hold.quar.on
    <3> DEFINE s == <<"site", "up", "reload", "smoke", "reload", "restore", "up", "clear",
                      "started", "close">>
    <3>1. Whole("fix", s) /\ ~Pins(s)
      BY WholeFix
    <3>2. ~OwesHandOver(s)
      BY <3>1, Foreign DEF Whole
    <3>3. Begin("fix", s)
      BY <2>1 DEF Deploy
    <3> HIDE DEF s
    <3> QED
      BY <1>1, <1>2, <2>1, <3>1, <3>2, <3>3, PlainBegun DEF Cmds, Begin
  <2>2. CASE ~hold.quar.on
    <3> DEFINE s == <<"site", "up", "reload", "smoke", "started", "close">>
    <3>1. Whole("deploy", s)
      BY WholeDeploy
    <3>2. ~OwesHandOver(s) /\ ~Pins(s) /\ ~OwesClearAlone(s)
      BY <3>1, Foreign DEF Whole
    <3>3. Begin("deploy", s)
      BY <2>2 DEF Deploy
    <3> HIDE DEF s
    <3> QED
      BY <1>1, <2>2, <3>1, <3>2, <3>3, PlainBegun DEF Cmds, Begin, Held
  <2> QED
    BY <2>1, <2>2
<1>4. TypeOK'
  BY <1>3, PlainTyped DEF Deploy, TypeOK
<1> QED
  BY <1>3, <1>4

\* A command that has none of the steps the records are about.
LEMMA SimpleBegun ==
    ASSUME TypeOK, Inv, NEW cmd \in {"copy", "tick", "recover", "restart"}, NEW s, Begin(cmd, s),
           Whole(cmd, s), cmd \in {"recover", "restart"} => ~Held,
           UNCHANGED <<hold, box, release, web, marker, stop, faults>>
    PROVE  TypeOK' /\ Inv'
<1>1. ~Pins(s) /\ ~OwesHandOver(s) /\ ~OwesClearAlone(s)
  BY Foreign DEF Whole
<1>2. OpType' /\ Inv'
  BY <1>1, PlainBegun DEF Cmds, Begin
<1>3. TypeOK'
  BY <1>2, PlainTyped DEF release, TypeOK
<1> QED
  BY <1>2, <1>3

LEMMA CopyKeeps == ASSUME TypeOK, Inv, Copy PROVE TypeOK' /\ Inv'
<1> DEFINE s == <<"mark", "stop", "copy">> \o StartAgain
<1>1. Begin("copy", s) /\ Whole("copy", s)
  BY WholeCopy DEF Copy
<1> HIDE DEF s
<1> QED
  BY <1>1, SimpleBegun DEF Copy

LEMMA TickStartsAgainKeeps == ASSUME TypeOK, Inv, TickStartsAgain PROVE TypeOK' /\ Inv'
BY WholeStartAgain, SimpleBegun DEF TickStartsAgain

LEMMA TickCriticalKeeps == ASSUME TypeOK, Inv, TickCritical PROVE TypeOK' /\ Inv'
<1> DEFINE s == <<"down", "stopped">>
<1>1. Begin("tick", s) /\ Whole("tick", s)
  BY WholeTick DEF TickCritical
<1> HIDE DEF s
<1> QED
  BY <1>1, SimpleBegun DEF TickCritical

LEMMA RecoverKeeps == ASSUME TypeOK, Inv, Recover PROVE TypeOK' /\ Inv'
<1> DEFINE judged == <<"up", "site", "reload", "judge", "started">>
           s == (IF marker THEN StartAgain ELSE <<>>) \o
                (IF stop = "none" THEN <<>> ELSE judged)
<1>1. Begin("recover", s)
  BY DEF Recover
<1>2. Whole("recover", s)
  <2>1. CASE marker /\ stop = "none"
    <3>1. s = StartAgain
      BY <2>1 DEF StartAgain
    <3> QED
      BY <3>1, WholeStartAgain
  <2>2. CASE marker /\ stop # "none"
    BY <2>2, WholeJudged
  <2>3. CASE ~marker
    <3>1. s = judged
      BY <2>3 DEF Recover
    <3> QED
      BY <3>1, WholeJudged
  <2> QED
    BY <2>1, <2>2, <2>3
<1> HIDE DEF s
<1> QED
  BY <1>1, <1>2, SimpleBegun DEF Recover

LEMMA RestartKeeps == ASSUME TypeOK, Inv, Restart PROVE TypeOK' /\ Inv'
<1> DEFINE s == <<"up">>
<1>1. Begin("restart", s) /\ Whole("restart", s)
  BY WholeRestart DEF Restart
<1> HIDE DEF s
<1> QED
  BY <1>1, SimpleBegun DEF Restart

----------------------------------------------------------------------------
\* The steps.

\* A step under way is one step less to do.
LEMMA StepGoesOn ==
    ASSUME TypeOK, Inv, NEW x, At(x), Done
    PROVE  /\ GoesOn /\ Head(op.todo) = x /\ Fits(op.cmd, x)
           /\ \A G : Owes(op.todo, x, G)
           /\ x \in {"save", "pin", "complete"} => Pins(op.todo)
           /\ x \in MayFail => CanFail(op.todo)
<1>1. OpType /\ Ordered(op.cmd, op.todo)
  BY OpTyped DEF Inv
<1>2. GoesOn
  BY <1>1, OneDone DEF At
<1> QED
  BY <1>1, <1>2, AtStep

\* A step that leaves the records and the containers as they are.
LEMMA Untouched ==
    ASSUME TypeOK, Inv, NEW x, At(x), Done, hold' = hold, box' = box,
           x \notin {"save", "pin", "release", "restore", "handOver", "clear"}
    PROVE  OpType' /\ Inv'
<1>1. GoesOn /\ Head(op.todo) = x
  BY StepGoesOn
<1>2. Pinned' => Pinned
  BY DEF Pinned
<1> QED
  BY <1>1, <1>2, Quiet DEF GoesOn

LEMMA WritesSiteKeeps == ASSUME TypeOK, Inv, WritesSite PROVE TypeOK' /\ Inv'
<1>1. PICK x \in {"page", "site"} : At(x) /\ site' = (IF x = "page" THEN "page" ELSE "project")
  BY DEF WritesSite
<1>2. OpType' /\ Inv'
  BY <1>1, Untouched DEF WritesSite
<1>3. TypeOK'
  BY <1>1, <1>2 DEF TypeOK, OpType, Cmds, AllSteps, WritesSite, release
<1> QED
  BY <1>2, <1>3

LEMMA ReloadKeeps == ASSUME TypeOK, Inv, Reload \/ ReloadMissed PROVE TypeOK' /\ Inv'
<1>1. OpType' /\ Inv'
  BY Untouched DEF Reload, ReloadMissed
<1>2. faults' \in 0 .. MaxFaults
  BY FaultsAssumption DEF Reload, ReloadMissed, TypeOK
<1>3. TypeOK'
  BY <1>1, <1>2 DEF TypeOK, OpType, Cmds, AllSteps, Reload, ReloadMissed, release, web
<1> QED
  BY <1>1, <1>3

LEMMA MarksKeeps == ASSUME TypeOK, Inv, Marks PROVE TypeOK' /\ Inv'
<1>1. OpType' /\ Inv'
  BY Untouched DEF Marks
<1>2. TypeOK'
  BY <1>1 DEF TypeOK, OpType, Cmds, AllSteps, Marks, release, web
<1> QED
  BY <1>1, <1>2

LEMMA MonitorStopKeeps == ASSUME TypeOK, Inv, MonitorStop PROVE TypeOK' /\ Inv'
<1>1. OpType' /\ Inv'
  BY Untouched DEF MonitorStop
<1>2. TypeOK'
  BY <1>1 DEF TypeOK, OpType, Cmds, AllSteps, MonitorStop, release, web
<1> QED
  BY <1>1, <1>2

LEMMA CloseKeeps == ASSUME TypeOK, Inv, Close PROVE TypeOK' /\ Inv'
<1>1. OpType' /\ Inv'
  BY Untouched DEF Close
<1>2. TypeOK'
  BY <1>1 DEF TypeOK, OpType, Cmds, AllSteps, Close, web
<1> QED
  BY <1>1, <1>2

LEMMA PassesKeeps == ASSUME TypeOK, Inv, Passes PROVE TypeOK' /\ Inv'
<1>1. OpType' /\ Inv'
  BY Untouched DEF Passes
<1>2. TypeOK'
  BY <1>1 DEF TypeOK, OpType, Cmds, AllSteps, Passes, release, web
<1> QED
  BY <1>1, <1>2

LEMMA StopsKeeps == ASSUME TypeOK, Inv, Stops PROVE TypeOK' /\ Inv'
<1>1. /\ box' \in [run : {"up", "stopped", "gone"}, policy : AllPolicies, made : Policies]
      /\ Pinned' => Pinned
      /\ box.run = "gone" => box'.run = "gone"
  BY DEF Stops, TypeOK, Pinned, Up
<1>2. PICK x \in {"stop", "down"} : At(x)
  BY DEF Stops
<1>3. GoesOn /\ Head(op.todo) = x
  BY <1>2, StepGoesOn DEF Stops
<1>4. OpType' /\ Inv'
  BY <1>1, <1>3, Quiet DEF Stops, GoesOn
<1>5. TypeOK'
  BY <1>1, <1>4 DEF TypeOK, OpType, Cmds, AllSteps, Stops, release, web
<1> QED
  BY <1>4, <1>5

\* compose up makes the containers with the release's policy, never "no".
LEMMA ComposeUpKeeps ==
    ASSUME TypeOK, Inv, ComposeUp PROVE TypeOK' /\ Inv'
<1>1. /\ box' \in [run : {"up", "stopped", "gone"}, policy : AllPolicies, made : Policies]
      /\ Pinned' => Pinned
  BY DEF ComposeUp, TypeOK, Pinned, Plain, Made, AllPolicies
<1>2. GoesOn /\ Head(op.todo) = "up" /\ op.cmd \notin {"pause", "scan", "failed"}
  BY StepGoesOn DEF ComposeUp, Fits
<1>3. OpType' /\ Inv'
  BY <1>1, <1>2, Quiet DEF ComposeUp, GoesOn
<1>4. TypeOK'
  BY <1>1, <1>3 DEF TypeOK, OpType, Cmds, AllSteps, ComposeUp, release, web
<1> QED
  BY <1>3, <1>4

LEMMA StartsAgainKeeps ==
    ASSUME TypeOK, Inv, StartsAgain PROVE TypeOK' /\ Inv'
<1>1. /\ box' \in [run : {"up", "stopped", "gone"}, policy : AllPolicies, made : Policies]
      /\ Pinned' => Pinned
  BY DEF StartsAgain, TypeOK, Pinned, Plain, Made, AllPolicies
<1>2. OpType' /\ Inv'
  <2>1. CASE Held
    BY <2>1, <1>1, Ended DEF StartsAgain
  <2>2. CASE ~Held
    <3>1. GoesOn /\ Head(op.todo) = "start" /\ op.cmd \notin {"pause", "scan", "failed"}
      BY <2>2, StepGoesOn DEF StartsAgain, Fits
    <3> QED
      BY <1>1, <3>1, Quiet DEF StartsAgain, GoesOn
  <2> QED
    BY <2>1, <2>2
<1>3. TypeOK'
  BY <1>1, <1>2 DEF TypeOK, OpType, Cmds, AllSteps, StartsAgain, release, web
<1> QED
  BY <1>2, <1>3

----------------------------------------------------------------------------
\* The steps that change the records and the policies.

\* What a step leaves typed.
LEMMA StepTyped ==
    ASSUME TypeOK, OpType', HoldType',
           box' \in [run : {"up", "stopped", "gone"}, policy : AllPolicies, made : Policies],
           UNCHANGED <<release, web, marker, stop, faults>>
    PROVE  TypeOK'
BY DEF TypeOK, OpType, Cmds, AllSteps, Holds, HoldType, release, web

\* A record changed, the other kept.
LEMMA OneRecord ==
    ASSUME TypeOK, NEW r \in Holds, NEW new, Record(r, new)
    PROVE  /\ hold'[r] = new /\ \A q \in Holds : q # r => hold'[q] = hold[q]
           /\ (new \in [on : BOOLEAN, complete : BOOLEAN, saved : AllPolicies \cup {"none"}]
                 => HoldType')
<1>1. HoldType
  BY DEF TypeOK, HoldType, Holds
<1> QED
  BY <1>1 DEF HoldType, Record

\* A step of a command that takes the project down.
LEMMA DownStep ==
    ASSUME TypeOK, Inv, NEW x \in {"save", "pin", "complete"}, At(x), Done
    PROVE  /\ GoesOn /\ Head(op.todo) = x /\ hold[Mine].on /\ Mine \in Holds
           /\ op'.todo # <<>> => Mine' = Mine
           /\ ~OwesClear(op'.todo) /\ ~OwesClearAlone(op'.todo) /\ ~OwesHandOver(op'.todo)
           /\ Ordered(op.cmd, op.todo)' /\ Steady'
           /\ op'.cmd = "fix" => ~CanFail(op'.todo)
<1>1. /\ GoesOn /\ Head(op.todo) = x /\ op.cmd \in {"pause", "scan", "failed"}
      /\ Pins(op.todo)
  BY StepGoesOn DEF Fits
<1>2. hold[Mine].on /\ Mine \in Holds
  BY <1>1 DEF Inv, Recorded, Mine, Holds
<1>3. op'.todo # <<>> => Mine' = Mine /\ op'.cmd = op.cmd
  BY <1>1 DEF GoesOn, Mine
<1>4. op'.todo = <<>> => op'.cmd = "idle"
  BY <1>1 DEF GoesOn, OpType
<1>5. op'.cmd \in {"idle", "pause", "scan", "failed"}
  BY <1>1, <1>3, <1>4
<1>6. ~OwesClear(op'.todo) /\ ~OwesClearAlone(op'.todo) /\ ~OwesHandOver(op'.todo)
  BY <1>1, <1>5, Foreign DEF GoesOn
<1> QED
  BY <1>1, <1>2, <1>3, <1>5, <1>6 DEF GoesOn, Steady

LEMMA SavePoliciesKeeps == ASSUME TypeOK, Inv, SavePolicies PROVE TypeOK' /\ Inv'
<1>1. At("save") /\ Done /\ box' = box
  BY DEF SavePolicies
<1>2. /\ GoesOn /\ Head(op.todo) = "save" /\ hold[Mine].on /\ Mine \in Holds
      /\ op'.todo # <<>> => Mine' = Mine
      /\ ~OwesClear(op'.todo) /\ ~OwesClearAlone(op'.todo) /\ ~OwesHandOver(op'.todo)
      /\ Ordered(op.cmd, op.todo)' /\ Steady'
      /\ op'.cmd = "fix" => ~CanFail(op'.todo)
  BY <1>1, DownStep
<1>3. /\ HoldType' /\ Saved' /\ Kept' /\ hold'[Mine].on
      /\ box'.run = "gone" \/ hold'[Mine].saved # "none"
  <2>1. CASE box.run = "gone" \/ hold[Mine].saved # "none"
    <3>1. hold' = hold
      BY <2>1 DEF SavePolicies
    <3> QED
      BY <2>1, <3>1, <1>1, <1>2 DEF TypeOK, HoldType, Holds, Inv, Saved, Kept, Real, Pinned, Lost
  <2>2. CASE ~(box.run = "gone" \/ hold[Mine].saved # "none")
    <3> DEFINE new == [hold[Mine] EXCEPT !.saved = box.policy]
    <3>1. Record(Mine, new) /\ hold[Mine].saved = "none" /\ box.run # "gone"
      BY <2>2 DEF SavePolicies
    <3>2. hold[Mine] \in [on : BOOLEAN, complete : BOOLEAN, saved : AllPolicies \cup {"none"}]
      BY <1>2 DEF TypeOK, Holds
    <3>3. box.policy \in AllPolicies /\ box.policy # "none"
      BY PoliciesAssumption DEF TypeOK, AllPolicies
    <3>4. /\ new.on /\ new.saved = box.policy
          /\ new \in [on : BOOLEAN, complete : BOOLEAN, saved : AllPolicies \cup {"none"}]
      BY <3>2, <3>3, <1>2
    <3> HIDE DEF new
    <3>5. /\ hold'[Mine] = new /\ \A q \in Holds : q # Mine => hold'[q] = hold[q]
          /\ HoldType'
      BY <3>1, <3>4, <1>2, OneRecord
    <3>6. ~Real(Mine) /\ \A q \in Holds : q # Mine => Other(q) = Mine /\ Other(Mine) = q
      BY <3>1, <1>2 DEF Real, Other, Holds
    <3>7. Plain /\ box.policy = "no" => \E q \in Holds : q # Mine /\ Real(q)
      BY <3>1, <3>6 DEF Inv, Kept, Pinned
    <3>8. Saved'
      <4>1. ASSUME NEW q \in Holds, q # Mine PROVE ~Lost(q)'
        BY <4>1, <3>5, <3>6 DEF Inv, Saved, Lost
      <4>2. ASSUME Plain, hold'[Mine].saved = "no" PROVE \E q \in Holds : q # Mine /\ Real(q)'
        <5>1. PICK q \in Holds : q # Mine /\ Real(q)
          BY <4>2, <3>4, <3>5, <3>7
        <5>2. hold'[q] = hold[q]
          BY <5>1, <3>5
        <5>3. Real(q)'
          BY <5>1, <5>2 DEF Real
        <5> QED
          BY <5>1, <5>3
      <4>3. ASSUME NEW q \in Holds, hold'[q].saved # "none" PROVE hold'[q].on
        BY <4>3, <3>4, <3>5 DEF Inv, Saved
      <4>4. ASSUME NEW q \in Holds, Lost(q)' PROVE Real(Other(q))'
        <5>1. q = Mine
          BY <4>1, <4>4
        <5>2. PICK p \in Holds : p # Mine /\ Real(p)'
          BY <4>2, <4>4, <5>1 DEF Lost
        <5>3. Other(q) = p
          BY <5>1, <5>2, <3>6
        <5> QED
          BY <5>2, <5>3
      <4> QED
        BY <4>3, <4>4 DEF Saved
    <3>9. Kept'
      BY <3>5, <3>6, <1>1 DEF Inv, Kept, Pinned, Real
    <3> QED
      BY <3>3, <3>4, <3>5, <3>8, <3>9
  <2> QED
    BY <2>1, <2>2
<1>4. Recorded'
  BY <1>2, <1>3, NothingOwed DEF Recorded
<1>5. MayPin' /\ MayClear' /\ Alone'
  BY <1>2, <1>3, NothingOwed DEF MayPin, MayClear, Alone
<1>6. OpType' /\ Inv'
  BY <1>2, <1>3, <1>4, <1>5 DEF Inv, GoesOn
<1>7. TypeOK'
  BY <1>3, <1>6, <1>1, StepTyped DEF SavePolicies, TypeOK
<1> QED
  BY <1>6, <1>7

LEMMA CompleteKeeps == ASSUME TypeOK, Inv, Complete PROVE TypeOK' /\ Inv'
<1> DEFINE new == [hold[Mine] EXCEPT !.complete = TRUE]
<1>1. At("complete") /\ Done /\ box' = box /\ Record(Mine, new)
  BY DEF Complete
<1>2. /\ GoesOn /\ Head(op.todo) = "complete" /\ hold[Mine].on /\ Mine \in Holds
      /\ op'.todo # <<>> => Mine' = Mine
      /\ ~OwesClear(op'.todo) /\ ~OwesClearAlone(op'.todo) /\ ~OwesHandOver(op'.todo)
      /\ Ordered(op.cmd, op.todo)' /\ Steady'
      /\ op'.cmd = "fix" => ~CanFail(op'.todo)
  BY <1>1, DownStep
<1>3. hold[Mine] \in [on : BOOLEAN, complete : BOOLEAN, saved : AllPolicies \cup {"none"}]
  BY <1>2 DEF TypeOK, Holds
<1>4. /\ new.on = hold[Mine].on /\ new.saved = hold[Mine].saved
      /\ new \in [on : BOOLEAN, complete : BOOLEAN, saved : AllPolicies \cup {"none"}]
  BY <1>3
<1> HIDE DEF new
<1>5. /\ hold'[Mine] = new /\ \A q \in Holds : q # Mine => hold'[q] = hold[q]
      /\ HoldType'
  BY <1>1, <1>2, <1>4, OneRecord
<1>6. \A q \in Holds : hold'[q].on = hold[q].on /\ hold'[q].saved = hold[q].saved
  BY <1>4, <1>5
<1>7. \A q \in Holds : /\ (Real(q)' <=> Real(q)) /\ (Lost(q)' <=> Lost(q))
                         /\ Other(q) \in Holds
  BY <1>6 DEF Real, Lost, Other, Holds
<1>8. Saved' /\ Kept'
  BY <1>6, <1>7, <1>1 DEF Inv, Saved, Kept, Pinned
<1>9. Recorded'
  BY <1>2, <1>6, NothingOwed DEF Recorded
<1>10. MayPin' /\ MayClear' /\ Alone'
  BY <1>1, <1>2, <1>6, NothingOwed DEF MayPin, MayClear, Alone, GoesOn, Inv
<1>11. OpType' /\ Inv'
  BY <1>2, <1>8, <1>9, <1>10 DEF Inv, GoesOn
<1>12. TypeOK'
  BY <1>5, <1>11, <1>1, StepTyped DEF Complete, TypeOK
<1> QED
  BY <1>11, <1>12

\* The policies are set to "no" only with a real one kept, given back from
\* the record, or made the release's.
LEMMA SetPoliciesKeeps ==
    ASSUME TypeOK, Inv, SetPolicies PROVE TypeOK' /\ Inv'
<1>1. Done /\ hold' = hold
  BY DEF SetPolicies
<1>2. /\ Mine \in Holds /\ Other(Mine) \in Holds
      /\ \A q \in Holds : q # Mine => q = Other(Mine)
      /\ \A q : (Real(q)' <=> Real(q)) /\ (Lost(q)' <=> Lost(q))
  BY <1>1 DEF Mine, Other, Holds, Real, Lost
<1>3. rel \in Policies /\ rel # "none" /\ rel \in AllPolicies
  BY PoliciesAssumption DEF TypeOK, AllPolicies
<1>4. hold[Mine].saved \in AllPolicies \cup {"none"}
  BY <1>2 DEF TypeOK, Holds
<1>5. /\ hold[Mine].saved # "none" => hold[Mine].on
      /\ Lost(Mine) => Real(Other(Mine))
  BY <1>2 DEF Inv, Saved
<1>6. Saved' /\ HoldType'
  BY <1>1, <1>2 DEF Inv, Saved, TypeOK, HoldType, Holds, Other
<1>7. SUFFICES /\ box' \in [run : {"up", "stopped", "gone"}, policy : AllPolicies, made : Policies]
               /\ OpType' /\ Inv'
  <2>1. TypeOK'
    BY <1>6, <1>7, StepTyped DEF SetPolicies
  <2> QED
    BY <2>1, <1>7
<1>8. ASSUME NEW to \in AllPolicies \cup {"none"}, Policy(to)
      PROVE  /\ box' \in [run : {"up", "stopped", "gone"}, policy : AllPolicies, made : Policies]
             /\ box'.run = box.run
             /\ box'.policy = IF box.run = "gone" \/ to = "none" THEN box.policy ELSE to
  BY <1>8 DEF Policy, TypeOK
<1>9. ASSUME At("pin"), Policy("no")
      PROVE  /\ box' \in [run : {"up", "stopped", "gone"}, policy : AllPolicies, made : Policies]
             /\ OpType' /\ Inv'
  <2>1. /\ box' \in [run : {"up", "stopped", "gone"}, policy : AllPolicies, made : Policies]
        /\ box'.run = box.run
    BY <1>8, <1>9 DEF AllPolicies
  <2>2. /\ GoesOn /\ hold[Mine].on
        /\ op'.todo # <<>> => Mine' = Mine
        /\ ~OwesClear(op'.todo) /\ ~OwesClearAlone(op'.todo) /\ ~OwesHandOver(op'.todo)
        /\ Ordered(op.cmd, op.todo)' /\ Steady'
        /\ op'.cmd = "fix" => ~CanFail(op'.todo)
    BY <1>1, <1>9, DownStep
  <2>3. OwesPin(op.todo)
    BY <1>1, <1>9, StepGoesOn DEF OwesPin
  <2>4. box.run = "gone" \/ hold[Mine].saved # "none"
    BY <2>3 DEF Inv, MayPin
  <2>5. Plain /\ box.run # "gone" => \E q \in Holds : Real(q)
    <3>1. CASE Lost(Mine)
      BY <3>1, <1>2, <1>5
    <3>2. CASE ~Lost(Mine)
      BY <3>2, <2>2, <2>4, <1>2 DEF Real, Lost
    <3> QED
      BY <3>1, <3>2
  <2>6. Kept'
    BY <2>1, <2>5, <1>2 DEF Kept, Pinned
  <2>7. Recorded'
    BY <2>2, <1>1, NothingOwed DEF Recorded
  <2>8. MayPin' /\ MayClear' /\ Alone'
    BY <2>1, <2>2, <2>4, <1>1, NothingOwed DEF MayPin, MayClear, Alone, Lost
  <2> QED
    BY <2>1, <2>2, <2>6, <2>7, <2>8, <1>6 DEF Inv, GoesOn
<1>10. ASSUME NEW x \in {"release", "restore"}, At(x),
              NEW to \in AllPolicies \cup {"none"}, Policy(to),
              Pinned' => Real(Other(Mine))
       PROVE  /\ box' \in [run : {"up", "stopped", "gone"}, policy : AllPolicies, made : Policies]
              /\ OpType' /\ Inv'
  <2>1. /\ box' \in [run : {"up", "stopped", "gone"}, policy : AllPolicies, made : Policies]
        /\ box'.run = box.run
    BY <1>8, <1>10
  <2>2. GoesOn /\ Head(op.todo) = x
    BY <1>1, <1>10, StepGoesOn
  <2>3. op'.todo # <<>> => Mine' = Mine /\ op'.cmd = op.cmd
    BY <2>2 DEF GoesOn, Mine
  <2>4. op'.todo = <<>> => op'.cmd = "idle"
    BY <2>2 DEF GoesOn, OpType
  <2>5. Kept'
    BY <1>2, <1>10 DEF Kept
  <2>6. MayClear'
    <3>1. CASE op'.todo = <<>>
      BY <3>1, NothingOwed DEF MayClear
    <3>2. CASE op'.todo # <<>>
      <4>1. Other(Mine)' = Other(Mine)
        BY <3>2, <2>3 DEF Other
      <4>2. Pinned' => Real(Other(Mine))'
        BY <4>1, <1>2, <1>10
      <4> QED
        BY <4>2 DEF MayClear
    <3> QED
      BY <3>1, <3>2
  <2>7. MayPin' /\ Alone'
    BY <2>1, <2>2, <2>3, <1>1, NothingOwed DEF GoesOn, Inv, MayPin, Alone, Lost, Other
  <2>8. Recorded' /\ Steady'
    BY <2>2, <2>3, <2>4, <1>1, NothingOwed DEF GoesOn, Inv, Recorded, Steady, Held
  <2> QED
    BY <2>1, <2>2, <2>5, <2>6, <2>7, <2>8, <1>6 DEF Inv, GoesOn
<1>11. ASSUME At("release"), Policy(hold[Mine].saved) PROVE Pinned' => Real(Other(Mine))
  <2>1. /\ box'.run = box.run
        /\ box'.policy = IF box.run = "gone" \/ hold[Mine].saved = "none" THEN box.policy
                                                                         ELSE hold[Mine].saved
    BY <1>4, <1>8, <1>11
  <2>2. ASSUME Pinned' PROVE Real(Other(Mine))
    <3>1. CASE hold[Mine].saved = "none"
      <4>1. Pinned
        BY <2>1, <2>2, <3>1 DEF Pinned
      <4>2. ~Real(Mine)
        BY <3>1 DEF Real
      <4> QED
        BY <4>1, <4>2, <1>2 DEF Inv, Kept
    <3>2. CASE hold[Mine].saved # "none"
      BY <2>1, <2>2, <3>2, <1>5 DEF Pinned, Lost
    <3> QED
      BY <3>1, <3>2
  <2> QED
    BY <2>2
<1>12. ASSUME At("restore"), Policy(rel) PROVE ~Pinned'
  BY <1>3, <1>8, <1>12 DEF Pinned, Plain
<1>13. CASE At("pin") /\ Policy("no")
  BY <1>9, <1>13
<1>14. CASE At("release") /\ Policy(hold[Mine].saved)
  BY <1>4, <1>10, <1>11, <1>14
<1>15. CASE At("restore") /\ Policy(rel)
  BY <1>3, <1>10, <1>12, <1>15
<1> QED
  BY <1>13, <1>14, <1>15 DEF SetPolicies

\* A lift under a pause hands the pause a real policy before the
\* quarantine's record goes.
LEMMA HandOverKeeps == ASSUME TypeOK, Inv, HandOver PROVE TypeOK' /\ Inv'
<1> DEFINE given == IF hold.pause.saved \in {"none", "no"} /\ hold.quar.saved # "none"
                    THEN hold.quar.saved ELSE hold.pause.saved
           new == [hold.pause EXCEPT !.saved = given]
<1>1. At("handOver") /\ Done /\ box' = box /\ Record("pause", new)
  BY DEF HandOver
<1>2. GoesOn /\ Head(op.todo) = "handOver" /\ op.cmd = "lift" /\ OwesHandOver(op.todo)
  BY <1>1, StepGoesOn DEF Fits, OwesHandOver
<1>3. hold.pause.on /\ Mine = "quar" /\ Other(Mine) = "pause"
  BY <1>2 DEF Inv, Recorded, Mine, Other
<1>4. /\ hold.pause \in [on : BOOLEAN, complete : BOOLEAN, saved : AllPolicies \cup {"none"}]
      /\ hold.quar.saved \in AllPolicies \cup {"none"}
  BY DEF TypeOK
<1>5. /\ new.on /\ new.saved = given
      /\ new \in [on : BOOLEAN, complete : BOOLEAN, saved : AllPolicies \cup {"none"}]
  BY <1>3, <1>4
<1>6. /\ hold.quar.saved # "none" => hold.quar.on
      /\ Lost("quar") => Real("pause")
      /\ Lost("pause") => Real("quar")
  BY DEF Inv, Saved, Holds, Other
<1>7. /\ Plain => given # "no"
      /\ Real("quar") \/ Real("pause") => given \notin {"none", "no"}
  BY <1>6 DEF Real, Lost
<1> HIDE DEF given, new
<1>8. hold'.pause = new /\ hold'.quar = hold.quar /\ HoldType'
  BY <1>1, <1>5, OneRecord DEF Holds
<1>9. /\ Real("quar") => Real("pause")'
      /\ Real("pause") => Real("pause")'
      /\ hold'.pause.on /\ (Plain => hold'.pause.saved # "no")
  BY <1>5, <1>7, <1>8 DEF Real
<1>10. Saved' /\ Kept'
  BY <1>1, <1>6, <1>8, <1>9 DEF Inv, Saved, Kept, Holds, Pinned, Lost, Other
<1>11. op'.todo # <<>> => Mine' = Mine /\ Other(Mine)' = "pause" /\ op'.cmd = "lift"
  BY <1>2, <1>3 DEF GoesOn, Mine, Other
<1>12. op'.todo = <<>> => op'.cmd = "idle"
  BY <1>2 DEF GoesOn, OpType
<1>13. ~Pins(op'.todo) /\ ~OwesPin(op'.todo)
  BY <1>2, <1>11, <1>12, Foreign DEF GoesOn
<1>14. Recorded' /\ Steady' /\ MayPin'
  BY <1>9, <1>11, <1>12, <1>13 DEF Recorded, Steady, MayPin
<1>15. Alone'
  BY <1>9, <1>11, NothingOwed DEF Alone, Lost
<1>16. MayClear'
  <2>1. Pinned' => Real("pause")'
    BY <1>1, <1>9 DEF Inv, Kept, Pinned, Holds
  <2> QED
    BY <2>1, <1>11, NothingOwed DEF MayClear
<1>17. OpType' /\ Inv'
  BY <1>2, <1>10, <1>14, <1>15, <1>16 DEF Inv, GoesOn
<1>18. TypeOK'
  BY <1>1, <1>8, <1>17, StepTyped DEF HandOver, TypeOK
<1> QED
  BY <1>17, <1>18

\* A record goes: nothing is pinned that the other record does not keep.
LEMMA ClearRecordKeeps == ASSUME TypeOK, Inv, ClearRecord PROVE TypeOK' /\ Inv'
<1>1. At("clear") /\ Done /\ box' = box /\ Record(Mine, Unheld)
  BY DEF ClearRecord
<1>2. /\ GoesOn /\ Head(op.todo) = "clear" /\ op.cmd \in {"resume", "lift", "fix"}
      /\ OwesClear(op.todo) /\ OwesClearAlone(op.todo)
  BY <1>1, StepGoesOn DEF Fits, OwesClear, OwesClearAlone
<1>3. /\ Mine \in Holds /\ Other(Mine) \in Holds /\ Other(Mine) # Mine
      /\ \A q \in Holds : q # Mine => q = Other(Mine) /\ Other(q) = Mine
  BY DEF Mine, Other, Holds
<1>4. /\ Pinned => Real(Other(Mine))
      /\ ~Lost(Other(Mine))
  BY <1>2 DEF Inv, MayClear, Alone
<1>5. Unheld \in [on : BOOLEAN, complete : BOOLEAN, saved : AllPolicies \cup {"none"}]
  BY DEF Unheld
<1>6. /\ hold'[Mine] = Unheld /\ hold'[Other(Mine)] = hold[Other(Mine)] /\ HoldType'
  BY <1>1, <1>3, <1>5, OneRecord
<1> DEFINE o == Other(Mine)
<1>7. o \in Holds
  BY <1>3
<1>8. Saved'
  <2>1. ASSUME NEW q \in Holds
        PROVE  ~Lost(q)' /\ (hold'[q].saved # "none" => hold'[q].on)
    <3>1. CASE q = Mine
      BY <3>1, <1>6 DEF Unheld, Lost
    <3>2. CASE q # Mine
      BY <3>2, <1>3, <1>4, <1>6 DEF Inv, Saved, Lost
    <3> QED
      BY <3>1, <3>2
  <2> QED
    BY <2>1 DEF Saved
<1>9. Kept'
  <2>1. ASSUME Pinned' PROVE hold'[o].on /\ hold'[o].saved \notin {"none", "no"}
    BY <2>1, <1>1, <1>4, <1>6 DEF Pinned, Real
  <2>2. \A q \in Holds : Real(q)' <=> hold'[q].on /\ hold'[q].saved \notin {"none", "no"}
    BY DEF Real
  <2> HIDE DEF o
  <2> QED
    BY <2>1, <2>2, <1>7 DEF Kept
<1>10. op'.todo # <<>> => Mine' = Mine /\ op'.cmd = op.cmd
  BY <1>2 DEF GoesOn, Mine
<1>11. op'.todo = <<>> => op'.cmd = "idle"
  BY <1>2 DEF GoesOn, OpType
<1>12. ~Pins(op'.todo) /\ ~OwesPin(op'.todo) /\ ~CanFail(op'.todo)
  BY <1>2, <1>10, <1>11, Foreign DEF GoesOn
<1>13. OwesHandOver(op'.todo) => hold'.pause.on
  <2>1. ASSUME OwesHandOver(op'.todo) PROVE op.cmd = "lift" /\ OwesHandOver(op.todo)
    BY <2>1, <1>2, Foreign DEF GoesOn, Inv
  <2>2. ASSUME op.cmd = "lift" PROVE hold'.pause = hold.pause
    BY <2>2, <1>6 DEF Mine, Other
  <2> QED
    BY <2>1, <2>2 DEF Inv, Recorded
<1>14. Recorded' /\ Steady' /\ MayPin'
  BY <1>2, <1>10, <1>11, <1>12, <1>13 DEF Recorded, Steady, MayPin
<1>15. Alone' /\ MayClear'
  <2>1. CASE op'.todo = <<>>
    BY <2>1, NothingOwed DEF Alone, MayClear
  <2>2. CASE op'.todo # <<>>
    <3>1. Other(Mine)' = Other(Mine)
      BY <2>2, <1>10 DEF Other
    <3>2. ~Lost(Other(Mine))'
      BY <3>1, <1>4, <1>6 DEF Lost
    <3>3. Pinned' => Real(Other(Mine))'
      BY <3>1, <1>1, <1>4, <1>6 DEF Pinned, Real
    <3> QED
      BY <3>2, <3>3 DEF Alone, MayClear
  <2> QED
    BY <2>1, <2>2
<1>16. OpType' /\ Inv'
  BY <1>2, <1>8, <1>9, <1>14, <1>15 DEF Inv, GoesOn
<1>17. TypeOK'
  BY <1>1, <1>6, <1>16, StepTyped DEF ClearRecord, TypeOK
<1> QED
  BY <1>16, <1>17

----------------------------------------------------------------------------
\* What goes wrong, and what comes between.

\* A failed fix takes the project down again, and a failed copy starts it.
LEMMA StepFailsKeeps == ASSUME TypeOK, Inv, StepFails PROVE TypeOK' /\ Inv'
<1>1. ~Idle /\ Head(op.todo) \in MayFail /\ op' = AfterFailure /\ hold' = hold /\ box' = box
  BY DEF StepFails
<1>2. OpType /\ CanFail(op.todo)
  <2>1. OpType /\ op.todo \in Seq(AllSteps) /\ op.todo # <<>>
    BY <1>1, OpTyped, Busy
  <2>2. 1 \in 1 .. Len(op.todo) /\ op.todo[1] = Head(op.todo)
    BY <2>1, HeadOwes
  <2> QED
    BY <1>1, <2>1, <2>2 DEF CanFail
<1>3. ASSUME NEW cmd \in {"failed", "copy"}, NEW s, op' = [cmd |-> cmd, todo |-> s],
             Whole(cmd, s), Pins(s) => hold.quar.on
      PROVE  OpType' /\ Inv'
  <2>1. ~OwesHandOver(s) /\ ~OwesClearAlone(s)
    BY <1>3, Foreign DEF Whole
  <2> QED
    BY <1>1, <1>3, <2>1, PlainBegun DEF Cmds
<1>4. ASSUME op' = Nobody PROVE OpType' /\ Inv'
  BY <1>1, <1>4, Ended DEF Pinned
<1>5. OpType' /\ Inv'
  <2>1. CASE op.cmd = "fix"
    <3>1. hold.quar.on
      BY <2>1, <1>2 DEF Inv, Recorded
    <3>2. Whole("failed", Down) /\ Whole("failed", <<"started">> \o Down \o <<"close">>)
      BY WholeDown, WholeFailed
    <3>3. op' = Left("failed", Down) \/ op' = Left("failed", <<"started">> \o Down \o <<"close">>)
      BY <2>1, <1>1 DEF AfterFailure
    <3>4. \A s : Whole("failed", s) => Left("failed", s) = [cmd |-> "failed", todo |-> s]
      BY DEF Left, Whole
    <3> QED
      BY <1>3, <3>1, <3>2, <3>3, <3>4
  <2>2. CASE op.cmd = "deploy"
    <3> DEFINE s == <<"started">> \o <<>> \o <<"close">>
    <3>1. Whole("failed", s) /\ ~Pins(s)
      BY WholeEnd
    <3>2. op' = Left("failed", <<>>) \/ op' = Left("failed", s)
      BY <2>2, <1>1 DEF AfterFailure
    <3>3. Left("failed", s) = [cmd |-> "failed", todo |-> s] /\ Left("failed", <<>>) = Nobody
      BY <3>1 DEF Left, Whole
    <3> HIDE DEF s
    <3> QED
      BY <1>3, <1>4, <3>1, <3>2, <3>3
  <2>3. CASE op.cmd = "failed"
    <3>1. Whole("failed", <<"close">>) /\ ~Pins(<<"close">>)
      BY WholeEnd
    <3>2. op' = Left("failed", <<>>) \/ op' = Left("failed", <<"close">>)
      BY <2>3, <1>1 DEF AfterFailure
    <3>3. /\ Left("failed", <<"close">>) = [cmd |-> "failed", todo |-> <<"close">>]
          /\ Left("failed", <<>>) = Nobody
      BY DEF Left
    <3> QED
      BY <1>3, <1>4, <3>1, <3>2, <3>3
  <2>4. CASE op.cmd = "copy" /\ Head(op.todo) # "start"
    <3>1. op' = [op EXCEPT !.todo = StartAgain]
      BY <2>4, <1>1 DEF AfterFailure
    <3>2. op' = [cmd |-> "copy", todo |-> StartAgain]
      BY <2>4, <3>1, <1>2 DEF OpType
    <3>3. Whole("copy", StartAgain)
      BY WholeStartAgain
    <3>4. ~Pins(StartAgain)
      BY <3>3, Foreign DEF Whole
    <3> QED
      BY <1>3, <3>2, <3>3, <3>4
  <2>5. CASE /\ op.cmd \notin {"fix", "deploy", "failed"}
             /\ ~(op.cmd = "copy" /\ Head(op.todo) # "start")
    BY <2>5, <1>1, <1>4 DEF AfterFailure
  <2> QED
    BY <2>1, <2>2, <2>3, <2>4, <2>5
<1>6. faults' \in 0 .. MaxFaults
  BY FaultsAssumption DEF StepFails, TypeOK
<1>7. TypeOK'
  BY <1>5, <1>6 DEF TypeOK, OpType, Cmds, AllSteps, StepFails, release, web
<1> QED
  BY <1>5, <1>7

LEMMA KillKeeps == ASSUME TypeOK, Inv, Kill PROVE TypeOK' /\ Inv'
<1>1. OpType' /\ Inv'
  BY Ended DEF Kill, Pinned
<1>2. faults' \in 0 .. MaxFaults
  BY FaultsAssumption DEF Kill, TypeOK
<1>3. TypeOK'
  BY <1>1, <1>2 DEF TypeOK, OpType, Cmds, AllSteps, Kill, release, web
<1> QED
  BY <1>1, <1>3

\* Nothing that the invariant names changes, but whether a container runs.
LEMMA SameOp ==
    ASSUME TypeOK, Inv, op' = op, hold' = hold, Pinned' => Pinned,
           box.run = "gone" => box'.run = "gone"
    PROVE  OpType' /\ Inv'
<1>1. OpType'
  BY OpTyped DEF OpType
<1>2. Mine' = Mine /\ \A r : (Real(r)' <=> Real(r)) /\ (Lost(r)' <=> Lost(r))
  BY DEF Mine, Real, Lost
<1>3. MayClear'
  BY <1>2 DEF Inv, MayClear, Other, Real
<1>4. Inv'
  BY <1>2, <1>3 DEF Inv, Steady, Held, Recorded, Saved, Kept, MayPin, Alone, Lost, Other
<1> QED
  BY <1>1, <1>4

LEMMA DaemonRestartsKeeps == ASSUME TypeOK, Inv, DaemonRestarts PROVE TypeOK' /\ Inv'
<1>1. /\ box' \in [run : {"up", "stopped", "gone"}, policy : AllPolicies, made : Policies]
      /\ Pinned' => Pinned
      /\ box.run = "gone" => box'.run = "gone"
  BY DEF DaemonRestarts, TypeOK, Pinned
<1>2. OpType' /\ Inv'
  BY <1>1, SameOp DEF DaemonRestarts
<1>3. faults' \in 0 .. MaxFaults
  BY FaultsAssumption DEF DaemonRestarts, TypeOK
<1>4. TypeOK'
  BY <1>1, <1>2, <1>3 DEF TypeOK, OpType, Cmds, AllSteps, DaemonRestarts, release, web
<1> QED
  BY <1>2, <1>4

LEMMA TickOKKeeps == ASSUME TypeOK, Inv, TickOK \/ Verdict PROVE TypeOK' /\ Inv'
<1>1. OpType' /\ Inv'
  BY SameOp DEF TickOK, Verdict, Pinned
<1>2. TypeOK'
  BY <1>1 DEF TypeOK, OpType, Cmds, AllSteps, TickOK, Verdict, release, web
<1> QED
  BY <1>1, <1>2

LEMMA StutterKeeps == ASSUME TypeOK, Inv, UNCHANGED vars PROVE TypeOK' /\ Inv'
<1>1. OpType' /\ Inv'
  BY SameOp DEF vars, Pinned, release, web
<1>2. TypeOK'
  BY <1>1 DEF TypeOK, OpType, Cmds, AllSteps, vars, release, web
<1> QED
  BY <1>1, <1>2

----------------------------------------------------------------------------
\* The invariant and the theorems.

LEMMA InitHolds == Init => TypeOK /\ Inv
<1> SUFFICES ASSUME Init PROVE TypeOK /\ Inv
  OBVIOUS
<1>1. op.cmd = "idle" /\ op.todo = <<>>
  BY DEF Init, Nobody
<1>2. \A r \in Holds : hold[r] = Unheld
  BY DEF Init, Holds
<1>3. ~Pinned
  BY DEF Init, Pinned, Plain
<1>4. TypeOK
  <2>1. op \in [cmd : Cmds, todo : Seq(AllSteps)] /\ (op.cmd = "idle") = (op.todo = <<>>)
    BY <1>1, EmptySeq DEF Init, Nobody, Cmds
  <2>2. hold \in [{"pause", "quar"} -> [on : BOOLEAN, complete : BOOLEAN,
                                       saved : AllPolicies \cup {"none"}]]
    <3>1. Unheld \in [on : BOOLEAN, complete : BOOLEAN, saved : AllPolicies \cup {"none"}]
      BY DEF Unheld
    <3>2. ASSUME NEW S, NEW u \in S PROVE [pause |-> u, quar |-> u] \in [{"pause", "quar"} -> S]
      OBVIOUS
    <3> QED
      BY <3>1, <3>2 DEF Init
  <2>3. box \in [run : {"up", "stopped", "gone"}, policy : AllPolicies, made : Policies]
    BY DEF Init, AllPolicies
  <2>4. faults \in 0 .. MaxFaults
    BY FaultsAssumption DEF Init
  <2> QED
    BY <2>1, <2>2, <2>3, <2>4 DEF Init, TypeOK, Cmds, AllSteps
<1>5. Inv
  BY <1>1, <1>2, <1>3, NothingOwed
     DEF Inv, Steady, Recorded, Saved, Kept, MayPin, MayClear, Alone, Unheld, Lost
<1> QED
  BY <1>4, <1>5

LEMMA NextKeeps == TypeOK /\ Inv /\ [Next]_vars => TypeOK' /\ Inv'
<1> SUFFICES ASSUME TypeOK, Inv, [Next]_vars PROVE TypeOK' /\ Inv'
  OBVIOUS
<1>1. CASE Pause \/ Resume \/ Scan \/ SecurityResume \/ Deploy
  BY <1>1, PauseKeeps, ResumeKeeps, ScanKeeps, LiftKeeps, DeployKeeps
<1>2. CASE Copy \/ TickStartsAgain \/ TickOK \/ TickCritical \/ Recover \/ Restart \/ Verdict
  BY <1>2, CopyKeeps, TickStartsAgainKeeps, TickOKKeeps, TickCriticalKeeps, RecoverKeeps,
     RestartKeeps
<1>3. CASE Step
  <2>1. CASE WritesSite \/ Reload \/ ReloadMissed \/ Stops \/ SavePolicies \/ SetPolicies
    BY <2>1, WritesSiteKeeps, ReloadKeeps, StopsKeeps, SavePoliciesKeeps, SetPoliciesKeeps
  <2>2. CASE Complete \/ HandOver \/ ClearRecord \/ ComposeUp \/ StartsAgain \/ Marks
    BY <2>2, CompleteKeeps, HandOverKeeps, ClearRecordKeeps, ComposeUpKeeps, StartsAgainKeeps,
       MarksKeeps
  <2>3. CASE MonitorStop \/ Close \/ Passes \/ StepFails
    BY <2>3, MonitorStopKeeps, CloseKeeps, PassesKeeps, StepFailsKeeps
  <2> QED
    BY <1>3, <2>1, <2>2, <2>3 DEF Step
<1>4. CASE Kill \/ DaemonRestarts
  BY <1>4, KillKeeps, DaemonRestartsKeeps
<1>5. CASE UNCHANGED vars
  BY <1>5, StutterKeeps
<1> QED
  BY <1>1, <1>2, <1>3, <1>4, <1>5 DEF Next

\* Types, and the order the holds' steps owe each other: what is saved before
\* it is changed, handed over or given back before a record goes, from any
\* step and through any kill or failure.
LEMMA Invariance == Spec => [](TypeOK /\ Inv)
<1>1. Init => TypeOK /\ Inv
  BY InitHolds
<1>2. TypeOK /\ Inv /\ [Next]_vars => (TypeOK /\ Inv)'
  BY NextKeeps
<1> QED
  BY <1>1, <1>2, PTL DEF Spec

\* Every variable has its type: a command in progress is one of those the
\* code has, at one of its steps. (lifecycle.py, the commands under the lock)
THEOREM LifecycleTypes == Spec => []TypeOK
BY Invariance, PTL

\* Where no release names the policy "no" itself, a container the holds
\* pinned always has a standing record with a real policy to give back.
\* (restart_hold.py hold and originals, pause_cmd.hand_over_restart_policies)
THEOREM PoliciesKeptHolds ==
    ASSUME "no" \notin Policies PROVE Spec => []PoliciesKept
<1>1. TypeOK /\ Inv => PoliciesKept
  BY DEF Inv, Kept, Pinned, Plain, Real, Holds, PoliciesKept
<1> QED
  BY <1>1, Invariance, PTL

\* A finished hold's stopped containers are started by nothing but the
\* commands that end the hold, whatever runs, fails, is killed or restarts.
\* (lifecycle.is_blocked under the lock, restart_hold.py)
THEOREM HeldStaysDownHolds == Spec => HeldStaysDown
<1>1. ASSUME TypeOK, Inv, [Next]_vars
      PROVE  [HeldDown /\ Up' => op.cmd \in {"resume", "lift", "fix"}]_vars
  <2> SUFFICES ASSUME Next, HeldDown, Up' PROVE op.cmd \in {"resume", "lift", "fix"}
    BY <1>1
  <2>1. Held /\ box.run = "stopped" /\ box.policy = "no" /\ box'.run = "up"
    BY DEF HeldDown, Held, Up
  <2>2. box' # box
    BY <2>1
  <2>3. ComposeUp \/ StartsAgain \/ Stops \/ SetPolicies \/ DaemonRestarts
    BY <2>2 DEF Next, Step, Pause, Resume, Scan, SecurityResume, Deploy, Copy, TickStartsAgain,
       TickOK, TickCritical, Recover, Restart, Verdict, WritesSite, Reload, ReloadMissed,
       SavePolicies, Complete, HandOver, ClearRecord, Marks, MonitorStop, Close, Passes,
       StepFails, Kill
  <2>4. CASE ComposeUp
    <3>1. op.cmd \in {"resume", "lift", "fix", "deploy", "recover", "restart"}
      BY <2>4, <1>1, StepGoesOn DEF ComposeUp, Fits
    <3> QED
      BY <3>1, <2>1, <1>1 DEF Inv, Steady
  <2>5. CASE StartsAgain
    BY <2>5, <2>1, <2>2 DEF StartsAgain
  <2>6. CASE Stops
    BY <2>6, <2>1, <1>1 DEF Stops, TypeOK, Up
  <2>7. CASE SetPolicies
    BY <2>7, <2>1, <1>1 DEF SetPolicies, Policy, TypeOK
  <2>8. CASE DaemonRestarts
    BY <2>8, <2>1, <1>1 DEF DaemonRestarts, TypeOK
  <2> QED
    BY <2>3, <2>4, <2>5, <2>6, <2>7, <2>8
<1> QED
  BY <1>1, Invariance, PTL DEF Spec, HeldStaysDown

-----------------------------------------------------------------------------
(* The alerts.                                                             *)
(* The health tick of HealthAlerts runs beside these commands under the    *)
(* same lock, and sees their holds as one bit, held.  It is instantiated   *)
(* here, its faults counted by the one counter; what HealthAlerts assumes  *)
(* of its constants is a hypothesis of what is proved of it.               *)

CONSTANTS Kills, MaxChanges
VARIABLES app, up, held, restarted, grace, changes

H == INSTANCE HealthAlerts

\* One more failure, up to the threshold, is a count that the state can hold.
LEMMA OneMoreType ==
    ASSUME H!HealthAlertsAssumption, H!TypeOK PROVE H!OneMore \in 0 .. Threshold
BY DEF H!HealthAlertsAssumption, H!OneMore, H!TypeOK, H!Healths

\* What a tick records is a health state whenever what it starts from is.
LEMMA AlertedType ==
    ASSUME NEW new \in H!Healths, NEW reason \in H!Reasons, NEW sent \in BOOLEAN,
           NEW kind \in {"none", "warning", "critical", "recovered"}
    PROVE  H!Alerted(new, kind, reason, sent) \in H!Healths
<1>1. H!NoReason \in H!Reasons
  BY DEF H!NoReason, H!Reason, H!Reasons
<1> QED
  BY <1>1 DEF H!Alerted, H!Healths

\* So is the record itself, killed or not.
LEMMA RecordType ==
    ASSUME H!TypeOK, NEW new \in H!Healths, NEW reason \in H!Reasons, NEW outcome \in H!Outcomes,
           NEW kind \in {"none", "warning", "critical", "recovered"},
           H!Record(new, kind, reason, outcome)
    PROVE  health' \in H!Healths /\ notice' \in H!Notices
<1>1. H!Alerted(new, kind, reason, outcome = "sent") \in H!Healths
  BY AlertedType
<1>2. health' \in H!Healths
  BY <1>1 DEF H!Record, H!TypeOK
<1>3. notice' \in H!Notices
  BY DEF H!Record, H!TypeOK, H!Notices
<1> QED
  BY <1>2, <1>3

\* A tick's reasons are reasons.
LEMMA TextsAreReasons ==
    ASSUME NEW text \in Messages \cup {H!Silence, H!Infra}, NEW down \in BOOLEAN
    PROVE  [text |-> text, down |-> down] \in H!Reasons
BY DEF H!Reasons

\* Every branch of a tick keeps the types of what it writes.
LEMMA TickType ==
    ASSUME H!HealthAlertsAssumption, H!TypeOK, H!Tick
    PROVE  health' \in H!Healths /\ notice' \in H!Notices
           /\ up' \in BOOLEAN /\ restarted' \in BOOLEAN /\ faults' \in 0 .. MaxFaults
<1>1. PICK text \in Messages \cup {H!Silence, H!Infra}, stopped \in BOOLEAN,
           outcome \in H!Outcomes :
        /\ H!Fault(text # H!Text \/ ~stopped \/ outcome # "sent")
        /\ \/ H!StopStands /\ H!StillStopped(outcome)
           \/ ~H!StopStands /\ H!Level = H!Ok /\ H!RecordOk(outcome)
           \/ ~H!StopStands /\ H!Level = H!Warning /\ H!RecordWarning(text, outcome)
           \/ ~H!StopStands /\ H!Level = H!Critical /\ H!RecordCritical(text, stopped, outcome)
  BY DEF H!Tick
<1>2. faults' \in 0 .. MaxFaults
  BY <1>1 DEF H!HealthAlertsAssumption, H!Fault, H!TypeOK
<1>3. health \in H!Healths /\ health.reason \in H!Reasons /\ H!OneMore \in 0 .. Threshold
  BY OneMoreType DEF H!TypeOK, H!Healths
<1>4. H!NoReason \in H!Reasons /\ H!Reason(text) \in H!Reasons
  BY DEF H!NoReason, H!Reason, H!Reasons
<1>5. CASE H!StillStopped(outcome)
  <2>1. H!Record(health, IF health.alerted THEN "none" ELSE "critical", health.reason, outcome)
    BY <1>5 DEF H!StillStopped
  <2>2. health' \in H!Healths /\ notice' \in H!Notices
    BY <2>1, <1>3, RecordType
  <2> QED
    BY <1>5, <1>2, <2>2 DEF H!StillStopped, H!TypeOK
<1>6. CASE H!RecordOk(outcome)
  <2> DEFINE new == [health EXCEPT !.status = "ok", !.failures = 0, !.reason = H!NoReason,
                             !.alertedReason = IF health.alerted THEN @ ELSE H!NoReason]
             kind == IF health.alerted THEN "recovered" ELSE "none"
  <2>1. new \in H!Healths
    <3>1. 0 \in 0 .. Threshold /\ health.alertedReason \in H!Reasons
      BY <1>3 DEF H!HealthAlertsAssumption, H!Healths
    <3> QED
      BY <1>3, <1>4, <3>1 DEF H!Healths
  <2>2. H!Record(new, kind, H!NoReason, outcome)
    BY <1>6 DEF H!RecordOk
  <2>3. kind \in {"none", "warning", "critical", "recovered"}
    OBVIOUS
  <2> HIDE DEF new, kind
  <2>4. health' \in H!Healths /\ notice' \in H!Notices
    BY <2>1, <2>2, <2>3, <1>4, RecordType
  <2> QED
    BY <1>6, <1>2, <2>4 DEF H!RecordOk, H!TypeOK
<1>7. CASE H!RecordWarning(text, outcome)
  <2> DEFINE new == [health EXCEPT !.status = "failing", !.failures = H!OneMore,
                                   !.reason = H!Reason(text)]
             kind == IF H!OneMore < Threshold \/ H!Told(H!Reason(text)) THEN "none" ELSE "warning"
  <2>1. new \in H!Healths
    BY <1>3, <1>4 DEF H!Healths
  <2>2. \/ H!Record(health, "none", H!NoReason, outcome)
        \/ H!Record(new, kind, H!Reason(text), outcome)
    BY <1>7 DEF H!RecordWarning
  <2>3. kind \in {"none", "warning", "critical", "recovered"}
    OBVIOUS
  <2> HIDE DEF new, kind
  <2>4. health' \in H!Healths /\ notice' \in H!Notices
    BY <2>1, <2>2, <2>3, <1>3, <1>4, RecordType
  <2> QED
    BY <1>7, <1>2, <2>4 DEF H!RecordWarning, H!TypeOK
<1>8. CASE H!RecordCritical(text, stopped, outcome)
  <2> DEFINE reason == [text |-> text, down |-> ~stopped]
             new == [health EXCEPT !.status = IF stopped THEN "critical_stopped" ELSE "failing",
                                   !.failures = H!OneMore, !.reason = reason]
             kind == IF H!Told(reason) THEN "none" ELSE "critical"
  <2>1. reason \in H!Reasons
    BY TextsAreReasons
  <2>2. new \in H!Healths
    BY <1>3, <2>1 DEF H!Healths
  <2>3. /\ H!Record(new, kind, reason, outcome)
        /\ up' = (up /\ ~stopped)
        /\ restarted' = (restarted /\ (~stopped \/ outcome = "killed"))
    BY <1>8 DEF H!RecordCritical
  <2>4. kind \in {"none", "warning", "critical", "recovered"}
    OBVIOUS
  <2>5. up' \in BOOLEAN /\ restarted' \in BOOLEAN
    BY <2>3
  <2> HIDE DEF new, kind, reason
  <2>6. health' \in H!Healths /\ notice' \in H!Notices
    BY <2>1, <2>2, <2>3, <2>4, RecordType
  <2> QED
    BY <1>2, <2>5, <2>6
<1> QED
  BY <1>1, <1>5, <1>6, <1>7, <1>8

\* The initial state has the types.
LEMMA AlertTypesInit ==
    ASSUME H!HealthAlertsAssumption PROVE H!Init => H!TypeOK
<1> SUFFICES ASSUME H!Init PROVE H!TypeOK
  OBVIOUS
<1>1. H!NoReason \in H!Reasons
  BY DEF H!NoReason, H!Reason, H!Reasons
<1>2. 0 \in 0 .. Threshold /\ 0 \in 0 .. MaxChanges /\ 0 \in 0 .. MaxFaults
  BY DEF H!HealthAlertsAssumption
<1>3. health \in H!Healths /\ notice \in H!Notices
  BY <1>1, <1>2 DEF H!Init, H!Healths, H!Notices
<1> QED
  BY <1>2, <1>3 DEF H!Init, H!TypeOK, H!Apps

\* Every step keeps the types.
LEMMA AlertTypesStep ==
    ASSUME H!HealthAlertsAssumption PROVE H!TypeOK /\ [H!Next]_H!vars => H!TypeOK'
<1> SUFFICES ASSUME H!TypeOK, [H!Next]_H!vars PROVE H!TypeOK'
  OBVIOUS
<1>1. CASE H!Tick
  BY <1>1, TickType DEF H!Tick, H!TypeOK
<1>2. CASE H!TickCut
  <2>1. up' \in BOOLEAN
    BY <1>2 DEF H!TickCut
  <2>2. faults' \in 0 .. MaxFaults
    BY <1>2 DEF H!HealthAlertsAssumption, H!TickCut, H!Fault, H!TypeOK
  <2> QED
    BY <1>2, <2>1, <2>2 DEF H!TickCut, H!TypeOK
<1>3. CASE H!AppChanges
  BY <1>3 DEF H!HealthAlertsAssumption, H!AppChanges, H!Change, H!TypeOK
<1>4. CASE H!Start
  <2>1. up' \in BOOLEAN /\ held' \in BOOLEAN /\ restarted' \in BOOLEAN /\ grace' \in BOOLEAN
    BY <1>4 DEF H!Start
  <2>2. changes' \in 0 .. MaxChanges
    BY <1>4 DEF H!HealthAlertsAssumption, H!Start, H!Change, H!TypeOK
  <2> QED
    BY <1>4, <2>1, <2>2 DEF H!Start, H!TypeOK
<1>5. CASE H!Hold
  <2>1. up' \in BOOLEAN /\ held' \in BOOLEAN
    BY <1>5 DEF H!Hold
  <2>2. changes' \in 0 .. MaxChanges
    BY <1>5 DEF H!HealthAlertsAssumption, H!Hold, H!Change, H!TypeOK
  <2> QED
    BY <1>5, <2>1, <2>2 DEF H!Hold, H!TypeOK
<1>6. CASE H!Recover
  <2>1. H!NoReason \in H!Reasons
    BY DEF H!NoReason, H!Reason, H!Reasons
  <2>2. health \in H!Healths /\ 0 \in 0 .. Threshold
    BY DEF H!HealthAlertsAssumption, H!TypeOK
  <2> DEFINE anew == [health EXCEPT !.status = "ok", !.failures = 0, !.alerted = FALSE,
                                    !.alertedReason = H!NoReason, !.reason = H!NoReason]
  <2>3. anew \in H!Healths
    BY <2>1, <2>2 DEF H!Healths
  <2>4. health' \in H!Healths
    BY <1>6, <2>2, <2>3 DEF H!Recover
  <2>5. up' \in BOOLEAN /\ restarted' \in BOOLEAN /\ grace' \in BOOLEAN
    BY <1>6 DEF H!Recover
  <2>6. changes' \in 0 .. MaxChanges
    BY <1>6 DEF H!HealthAlertsAssumption, H!Recover, H!Change, H!TypeOK
  <2> QED
    BY <1>6, <2>4, <2>5, <2>6 DEF H!Recover, H!TypeOK
<1>7. CASE H!GraceEnds
  BY <1>7 DEF H!GraceEnds, H!TypeOK
<1>8. CASE UNCHANGED H!vars
  BY <1>8 DEF H!vars, H!TypeOK
<1> QED
  BY <1>1, <1>2, <1>3, <1>4, <1>5, <1>6, <1>7, <1>8 DEF H!Next

\* The health record, the alert state in it and the notices keep their types
\* for every set of messages, every threshold and every bound
\* (commands/health_state.py).
THEOREM AlertTypes ==
    ASSUME H!HealthAlertsAssumption PROVE H!Spec => []H!TypeOK
BY AlertTypesInit, AlertTypesStep, PTL DEF H!Spec

\* A record keeps what is recorded as told true, if the state it starts from
\* keeps the last record's alert, or clears it.
LEMMA RecordTold ==
    ASSUME Kills \subseteq {"down"}, H!AlertedIsTold, health \in H!Healths,
           NEW new \in H!Healths, NEW reason \in H!Reasons, NEW outcome \in H!Outcomes,
           NEW kind \in {"none", "warning", "critical", "recovered"},
           new.alerted = health.alerted,
           new.alerted => new.alertedReason = health.alertedReason,
           kind = "recovered" => health.alerted,
           H!Record(new, kind, reason, outcome)
    PROVE  H!AlertedIsTold'
<1>1. outcome # "killed"
  BY DEF H!Record
<1>2. CASE kind = "none" \/ outcome = "unsent"
  <2>1. notice' = notice
    BY <1>2 DEF H!Record
  <2>2. health'.alerted => health.alerted /\ health'.alertedReason = health.alertedReason
    BY <1>1, <1>2 DEF H!Record, H!Alerted, H!Healths, H!Outcomes
  <2> QED
    BY <2>1, <2>2 DEF H!AlertedIsTold
<1>3. CASE kind # "none" /\ outcome = "sent"
  <2>1. notice' = [kind |-> kind, reason |-> reason]
    BY <1>3 DEF H!Record
  <2>2. health'.alerted => kind \in {"warning", "critical"} /\ health'.alertedReason = reason
    BY <1>3 DEF H!Record, H!Alerted, H!Healths
  <2> QED
    BY <2>1, <2>2 DEF H!AlertedIsTold
<1> QED
  BY <1>1, <1>2, <1>3 DEF H!Outcomes

\* Every branch of a tick records from what was recorded, and RECOVERED is
\* only sent where an alert is.
LEMMA TickTold ==
    ASSUME H!HealthAlertsAssumption, Kills \subseteq {"down"}, H!TypeOK, H!AlertedIsTold, H!Tick
    PROVE  H!AlertedIsTold'
<1>1. PICK text \in Messages \cup {H!Silence, H!Infra}, stopped \in BOOLEAN,
           outcome \in H!Outcomes :
        \/ H!StillStopped(outcome)
        \/ H!RecordOk(outcome)
        \/ H!RecordWarning(text, outcome)
        \/ H!RecordCritical(text, stopped, outcome)
  BY DEF H!Tick
<1>2. /\ health \in H!Healths /\ health.reason \in H!Reasons /\ health.alertedReason \in H!Reasons
      /\ health.alerted \in BOOLEAN /\ H!OneMore \in 0 .. Threshold
      /\ 0 \in 0 .. Threshold
  BY OneMoreType DEF H!HealthAlertsAssumption, H!TypeOK, H!Healths
<1>3. H!NoReason \in H!Reasons /\ H!Reason(text) \in H!Reasons
  BY DEF H!NoReason, H!Reason, H!Reasons
<1>4. CASE H!StillStopped(outcome)
  <2>1. H!Record(health, IF health.alerted THEN "none" ELSE "critical", health.reason, outcome)
    BY <1>4 DEF H!StillStopped
  <2> QED
    BY <2>1, <1>2, RecordTold
<1>5. CASE H!RecordOk(outcome)
  <2> DEFINE new == [health EXCEPT !.status = "ok", !.failures = 0, !.reason = H!NoReason,
                             !.alertedReason = IF health.alerted THEN @ ELSE H!NoReason]
             kind == IF health.alerted THEN "recovered" ELSE "none"
  <2>1. /\ new \in H!Healths /\ new.alerted = health.alerted
        /\ new.alerted => new.alertedReason = health.alertedReason
    BY <1>2, <1>3 DEF H!Healths
  <2>2. H!Record(new, kind, H!NoReason, outcome)
    BY <1>5 DEF H!RecordOk
  <2>3. /\ kind \in {"none", "warning", "critical", "recovered"}
        /\ kind = "recovered" => health.alerted
    OBVIOUS
  <2> HIDE DEF new, kind
  <2> QED
    BY <2>1, <2>2, <2>3, <1>2, <1>3, RecordTold
<1>6. CASE H!RecordWarning(text, outcome)
  <2> DEFINE new == [health EXCEPT !.status = "failing", !.failures = H!OneMore,
                                   !.reason = H!Reason(text)]
             kind == IF H!OneMore < Threshold \/ H!Told(H!Reason(text)) THEN "none" ELSE "warning"
  <2>1. /\ new \in H!Healths /\ new.alerted = health.alerted
        /\ new.alertedReason = health.alertedReason
    BY <1>2, <1>3 DEF H!Healths
  <2>2. \/ H!Record(health, "none", H!NoReason, outcome)
        \/ H!Record(new, kind, H!Reason(text), outcome)
    BY <1>6 DEF H!RecordWarning
  <2>3. kind \in {"none", "warning"}
    OBVIOUS
  <2> HIDE DEF new, kind
  <2>4. CASE H!Record(health, "none", H!NoReason, outcome)
    BY <2>4, <1>2, <1>3, RecordTold
  <2>5. CASE H!Record(new, kind, H!Reason(text), outcome)
    BY <2>1, <2>3, <2>5, <1>2, <1>3, RecordTold
  <2> QED
    BY <2>2, <2>4, <2>5
<1>7. CASE H!RecordCritical(text, stopped, outcome)
  <2> DEFINE reason == [text |-> text, down |-> ~stopped]
             new == [health EXCEPT !.status = IF stopped THEN "critical_stopped" ELSE "failing",
                                   !.failures = H!OneMore, !.reason = reason]
             kind == IF H!Told(reason) THEN "none" ELSE "critical"
  <2>1. reason \in H!Reasons
    BY TextsAreReasons
  <2>2. /\ new \in H!Healths /\ new.alerted = health.alerted
        /\ new.alertedReason = health.alertedReason
    BY <1>2, <2>1 DEF H!Healths
  <2>3. H!Record(new, kind, reason, outcome)
    BY <1>7 DEF H!RecordCritical
  <2>4. kind \in {"none", "critical"}
    OBVIOUS
  <2> HIDE DEF new, kind, reason
  <2> QED
    BY <2>1, <2>2, <2>3, <2>4, <1>2, RecordTold
<1> QED
  BY <1>1, <1>4, <1>5, <1>6, <1>7

\* Where no tick is killed between a message and its record, what is recorded
\* as told is the last message the operator got: an alert with that reason
\* (commands/health_state.py, update_health_state).
THEOREM AlertedIsToldHolds ==
    ASSUME H!HealthAlertsAssumption, Kills \subseteq {"down"} PROVE H!Spec => []AlertedIsTold
<1>1. H!Init => H!AlertedIsTold
  BY DEF H!Init, H!AlertedIsTold
<1>2. H!TypeOK /\ H!AlertedIsTold /\ [H!Next]_H!vars => H!AlertedIsTold'
  <2> SUFFICES ASSUME H!TypeOK, H!AlertedIsTold, [H!Next]_H!vars PROVE H!AlertedIsTold'
    OBVIOUS
  <2>1. CASE H!Tick
    BY <2>1, TickTold
  <2>2. CASE H!TickCut \/ H!AppChanges \/ H!Start \/ H!Hold \/ H!GraceEnds
    BY <2>2 DEF H!TickCut, H!AppChanges, H!Start, H!Hold, H!GraceEnds, H!AlertedIsTold
  <2>3. CASE H!Recover
    <3>1. notice' = notice
      BY <2>3 DEF H!Recover
    <3>2. health'.alerted => health' = health
      BY <2>3 DEF H!Recover, H!TypeOK, H!Healths
    <3> QED
      BY <3>1, <3>2 DEF H!AlertedIsTold
  <2>4. CASE UNCHANGED H!vars
    BY <2>4 DEF H!vars, H!AlertedIsTold
  <2> QED
    BY <2>1, <2>2, <2>3, <2>4 DEF H!Next
<1>3. H!AlertedIsTold => AlertedIsTold
  BY DEF H!AlertedIsTold, AlertedIsTold
<1> QED
  BY <1>1, <1>2, <1>3, AlertTypes, PTL DEF H!Spec
==============================================================================
