----------------------------- MODULE HealthRecord ------------------------------
(***************************************************************************)
(* What boxmunge knows of one project's health and what its operator was   *)
(* told: state/health/<project>.json (commands/health_state.py), which     *)
(* outlives the tick that wrote it, and the last message that Pushover     *)
(* accepted (pushover.py), which no rerun takes back.  HealthAlerts is the *)
(* tick that keeps the two together.                                       *)
(***************************************************************************)
EXTENDS Naturals

CONSTANTS Messages,    \* what the smoke script may print
          Threshold    \* health.alert_threshold

VARIABLES health,     \* state/health/<project>.json
          notice      \* the last message that reached the operator

Infra == "smoke could not run"
Silence == ""

\* A reason is the message, and whether stopping the containers failed too.
Reasons == [text : Messages \cup {Infra, Silence}, down : BOOLEAN]
Reason(text) == [text |-> text, down |-> FALSE]
NoReason == Reason(Silence)

Healths == [status : {"none", "ok", "failing", "critical_stopped"}, failures : 0 .. Threshold,
            alerted : BOOLEAN, alertedReason : Reasons, reason : Reasons]

Notices == [kind : {"none", "warning", "critical", "recovered"}, reason : Reasons]

\* What is recorded as told is what the operator was told last, so RECOVERED
\* never comes twice, nor for a failure nobody heard of (health_state.py:
\* "``alerted`` (and ``alerted_reason``, ``last_alert``) record only alerts
\* Pushover accepted").
AlertedIsTold ==
    health.alerted => /\ notice.kind \in {"warning", "critical"}
                      /\ notice.reason = health.alertedReason
=============================================================================
