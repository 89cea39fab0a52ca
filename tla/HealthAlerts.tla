----------------------------- MODULE HealthAlerts ------------------------------
(***************************************************************************)
(* The health tick of one project (commands/check.py: check-all) and the   *)
(* alerts it owes its operator (commands/health_state.py), against an app  *)
(* that fails, changes its reason and recovers, a Pushover that does not   *)
(* answer, a tick that is killed, and the commands that start the project  *)
(* again.  A tick holds the project's lock from its first read to its      *)
(* write, so it is one step, unless it is killed.  Whether it alerts,      *)
(* stops or recovers is decided on what the last tick recorded.            *)
(***************************************************************************)
EXTENDS HealthRecord

CONSTANTS Kills,       \* where a tick may be killed: of "down", "alert", "recovered"
          MaxChanges,  \* changes of the app, and commands
          MaxFaults    \* alerts not delivered, failed stops, kills, smokes that disagree

ASSUME HealthAlertsAssumption ==
    /\ Infra \notin Messages /\ Silence \notin Messages
    /\ Threshold \in Nat \ {0}
    /\ Kills \subseteq {"down", "alert", "recovered"}
    /\ MaxChanges \in Nat /\ MaxFaults \in Nat

VARIABLES app,        \* what the smoke script finds: its level and its message
          up,         \* do the project's containers run?
          held,       \* paused, quarantined, an install open, stopped for a copy
          restarted,  \* last_started_at is newer than the stop's stopped_at
          grace,      \* last_started_at is less than a minute ago
          changes, faults

vars == <<app, up, held, health, restarted, grace, notice, changes, faults>>

Ok == 0
Warning == 1
Critical == 2

Fault(failed) == IF failed THEN faults < MaxFaults /\ faults' = faults + 1 ELSE UNCHANGED faults
Change == changes < MaxChanges /\ changes' = changes + 1

\* A monitor stop that no later start has superseded.
StopStands == health.status = "critical_stopped" /\ ~restarted

(***************************************************************************)
(* What a tick makes of the alert state.  A message is delivered, or not,  *)
(* or delivered by a tick that is killed before it writes.                 *)
(***************************************************************************)

Outcomes == {"sent", "unsent", "killed"}

\* Mutant: an alert is recorded as sent when it was tried.
Alerted_Tried(new, kind, reason, sent) ==
    CASE kind \in {"warning", "critical"} -> [new EXCEPT !.alerted = TRUE, !.alertedReason = reason]
      [] kind = "recovered" -> [new EXCEPT !.alerted = FALSE, !.alertedReason = NoReason]
      [] OTHER -> new

\* Only what Pushover accepted is recorded; an undelivered critical alert
\* also takes the last one back.
Alerted(new, kind, reason, sent) ==
    CASE kind \in {"warning", "critical"} /\ sent ->
           [new EXCEPT !.alerted = TRUE, !.alertedReason = reason]
      [] kind = "critical" /\ ~sent -> [new EXCEPT !.alerted = FALSE]
      [] kind = "recovered" /\ sent -> [new EXCEPT !.alerted = FALSE, !.alertedReason = NoReason]
      [] OTHER -> new

Record(new, kind, reason, outcome) ==
    /\ outcome = "killed" => (IF kind = "recovered" THEN "recovered" ELSE "alert") \in Kills
    /\ kind = "none" => outcome = "sent"
    /\ notice' = IF kind = "none" \/ outcome = "unsent" THEN notice
                 ELSE [kind |-> kind, reason |-> reason]
    /\ health' = IF outcome = "killed" THEN health
                 ELSE Alerted(new, kind, reason, outcome = "sent")

\* Mutant: one alert per failure, whatever its reason.
Told_Any(reason) == health.alerted

Told(reason) == health.alerted /\ health.alertedReason = reason

OneMore == IF health.failures < Threshold THEN health.failures + 1 ELSE Threshold

(***************************************************************************)
(* The tick, under the project's lock.                                     *)
(***************************************************************************)

\* A project the monitor stopped is left alone, but for an alert still owed.
StillStopped(outcome) ==
    /\ Record(health, IF health.alerted THEN "none" ELSE "critical", health.reason, outcome)
    /\ UNCHANGED <<up, restarted>>

RecordOk(outcome) ==
    /\ Record([health EXCEPT !.status = "ok", !.failures = 0, !.reason = NoReason,
                             !.alertedReason = IF health.alerted THEN @ ELSE NoReason],
              IF health.alerted THEN "recovered" ELSE "none", NoReason, outcome)
    /\ UNCHANGED <<up, restarted>>

\* Masked for a minute after a start; alerted once the threshold is reached,
\* and again if the reason changes.
RecordWarning(text, outcome) ==
    /\ IF grace THEN Record(health, "none", NoReason, outcome)
       ELSE Record([health EXCEPT !.status = "failing", !.failures = OneMore,
                                  !.reason = Reason(text)],
                   IF OneMore < Threshold \/ Told(Reason(text)) THEN "none" ELSE "warning",
                   Reason(text), outcome)
    /\ UNCHANGED <<up, restarted>>

\* The containers are taken down, then the operator is alerted; where they
\* cannot be, the next tick tries again.
RecordCritical(text, stopped, outcome) ==
    LET reason == [text |-> text, down |-> ~stopped]
    IN /\ Record([health EXCEPT !.status = IF stopped THEN "critical_stopped" ELSE "failing",
                                !.failures = OneMore, !.reason = reason],
                 IF Told(reason) THEN "none" ELSE "critical", reason, outcome)
       /\ up' = (up /\ ~stopped)
       /\ restarted' = (restarted /\ (~stopped \/ outcome = "killed"))

\* The smoke runs twice, for the result and for the message: an app that
\* changes in between gives the message of the second.  It cannot run in
\* containers that are gone.
Level == IF up THEN app.level ELSE Warning
Text == IF up THEN app.text ELSE Infra

Tick ==
    /\ ~held
    /\ \E text \in Messages \cup {Silence, Infra}, stopped \in BOOLEAN, outcome \in Outcomes :
         /\ Fault(text # Text \/ ~stopped \/ outcome # "sent")
         /\ \/ StopStands /\ StillStopped(outcome)
            \/ ~StopStands /\ Level = Ok /\ RecordOk(outcome)
            \/ ~StopStands /\ Level = Warning /\ RecordWarning(text, outcome)
            \/ ~StopStands /\ Level = Critical /\ RecordCritical(text, stopped, outcome)
    /\ UNCHANGED <<app, held, grace, changes>>

\* A tick killed after it took the containers down.
TickCut ==
    /\ "down" \in Kills
    /\ ~held /\ ~StopStands /\ Level = Critical
    /\ Fault(TRUE)
    /\ up' = FALSE
    /\ UNCHANGED <<app, held, health, restarted, grace, notice, changes>>

(***************************************************************************)
(* The app and the commands.                                               *)
(***************************************************************************)

\* A smoke that cannot be run says nothing of the app: a warning.
Apps == {[level |-> Ok, text |-> Silence], [level |-> Warning, text |-> Infra]}
            \cup [level : {Warning, Critical}, text : Messages]

AppChanges ==
    /\ Change
    /\ \E new \in Apps : new # app /\ app' = new
    /\ UNCHANGED <<up, held, health, restarted, grace, notice, faults>>

\* A deploy, a rollback or a resume: last_started_at is now.
Start ==
    /\ Change
    /\ up' = TRUE /\ held' = FALSE
    /\ restarted' = TRUE /\ grace' = TRUE
    /\ UNCHANGED <<app, health, notice, faults>>

\* A pause, a quarantine: the tick leaves the project alone until it starts.
Hold ==
    /\ Change
    /\ ~held /\ held' = TRUE /\ up' = FALSE
    /\ UNCHANGED <<app, health, restarted, grace, notice, faults>>

\* recover starts what the monitor stopped; a healthy project's record is
\* written anew, and nothing is owed.
Recover ==
    /\ Change
    /\ ~held /\ health.status = "critical_stopped"
    /\ up' = TRUE /\ restarted' = TRUE /\ grace' = TRUE
    /\ health' = IF app.level # Ok THEN health
                 ELSE [health EXCEPT !.status = "ok", !.failures = 0, !.alerted = FALSE,
                                     !.alertedReason = NoReason, !.reason = NoReason]
    /\ UNCHANGED <<app, held, notice, faults>>

GraceEnds ==
    /\ grace /\ grace' = FALSE
    /\ UNCHANGED <<app, up, held, health, restarted, notice, changes, faults>>

(***************************************************************************)
(* Specification.                                                          *)
(***************************************************************************)

Init ==
    /\ app = [level |-> Ok, text |-> Silence]
    /\ up = TRUE /\ held = FALSE
    /\ health = [status |-> "none", failures |-> 0, alerted |-> FALSE,
                 alertedReason |-> NoReason, reason |-> NoReason]
    /\ restarted = TRUE /\ grace = TRUE
    /\ notice = [kind |-> "none", reason |-> NoReason]
    /\ changes = 0 /\ faults = 0

Next == Tick \/ TickCut \/ AppChanges \/ Start \/ Hold \/ Recover \/ GraceEnds

Spec == Init /\ [][Next]_vars

\* The timer ticks every five minutes; a minute ends.
FairSpec == Spec /\ WF_vars(Tick) /\ WF_vars(GraceEnds)

(***************************************************************************)
(* Properties.                                                             *)
(***************************************************************************)

\* Types (the health state's fields).
TypeOK ==
    /\ app \in Apps
    /\ up \in BOOLEAN /\ held \in BOOLEAN
    /\ restarted \in BOOLEAN /\ grace \in BOOLEAN
    /\ health \in Healths
    /\ notice \in Notices
    /\ changes \in 0 .. MaxChanges /\ faults \in 0 .. MaxFaults

Failing == \/ health.status = "failing" /\ health.failures = Threshold
           \/ StopStands

\* The operator of a project that fails, or that the monitor stopped, is told
\* the reason that stands in the end, whatever was not delivered, changed or
\* was recovered from in between (OPERATIONS.md: "tries again on the next
\* 5-minute tick until it gets through"; health_state.py).
ReasonIsTold ==
    []<>(Failing /\ ~held => /\ notice.kind \in {"warning", "critical"}
                             /\ notice.reason = health.reason)

\* A stop is told as what it is: the alert of a stopped project is the
\* critical one (health_state.py: "stop the containers, then alert at
\* priority 1").
StopIsCritical == StopStands /\ health.alerted => notice.kind = "critical"

\* The operator who was told of a failure is told when it is over.
RecoveryIsTold == []<>(health.status = "ok" => notice.kind \in {"none", "recovered"})
=============================================================================
