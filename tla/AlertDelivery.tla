--------------------------- MODULE AlertDelivery ---------------------------
(***************************************************************************)
(* The alerts of src/alert.rs.  Every thread of the daemon raises alerts   *)
(* through notify_delivery: an event key that was delivered less than a    *)
(* cooldown ago is dropped, the others go to Slack, e-mail and the log     *)
(* file one after the other, each with a time limit of its own.  The lock  *)
(* on the table of cooldowns is released between the check and the record. *)
(* The serve loop's dead-man switch raises a key of its own when nothing   *)
(* proved the daemon healthy for a while.                                  *)
(***************************************************************************)
EXTENDS Naturals

CONSTANTS
    Senders,      \* the threads that raise alerts
    Keys,         \* the event keys, DeadmanKey among them
    DeadmanKey,   \* alert.pipeline.deadman, raised by the serve loop
    KeyOwner,     \* the thread that raises each key
    Cooldown,     \* alert.alert_cooldown_secs, at least 1
    SendLimit,    \* ALERT_COMMAND_TIMEOUT
    Deadline,     \* alert.deadman_threshold_seconds, not 0
    Settings      \* what the operator may have set: tokens, channels, url, email, log

ASSUME AlertAssumption ==
    /\ DeadmanKey \in Keys
    /\ KeyOwner \in [Keys -> Senders]
    /\ {Cooldown, SendLimit, Deadline} \subseteq Nat \ {0}
    /\ Settings \subseteq [{"token", "envToken", "channel", "envChannel", "url"}
                              -> {"unset", "blank", "set"}] \X BOOLEAN \X BOOLEAN

VARIABLES
    setup,     \* the channels configured
    healed,    \* history: the transports work from now on
    sentAge,   \* age of the record of each key, Cooldown if none counts
    pipeAge,   \* age of DeadManState.last_successful
    send,      \* what each thread is doing
    heardNow,  \* the keys the last step delivered
    lastHeard  \* history: age of the last delivery of each key

(* resolve_slack_target: a token of the configuration with a channel, the  *)
(* webhook, a token of the environment with a channel.  A blank value is   *)
(* as good as none, but it hides what it would otherwise fall back to.     *)
FirstSet(a, b) == IF a = "unset" THEN b ELSE a

SlackTarget(s) ==
    LET channel == FirstSet(s["channel"], s["envChannel"])
    IN  CASE s["token"] = "set" /\ channel = "set" -> "bot"
          [] ~(s["token"] = "set" /\ channel = "set") /\ s["url"] = "set" -> "webhook"
          [] OTHER -> IF s["envToken"] = "set" /\ channel = "set" THEN "bot" ELSE "none"

(* has_slack_configured: a token or a url will do, a blank one too.        *)
SlackState(s) ==
    CASE SlackTarget(s) # "none" -> "full"
      [] SlackTarget(s) = "none" /\ (s["token"] # "unset" \/ s["url"] # "unset") -> "partial"
      [] OTHER -> "none"

SetupOf(setting) ==
    [slack |-> SlackState(setting[1]), email |-> setting[2], log |-> setting[3]]

Setups == {SetupOf(s) : s \in Settings}

alertVars == <<setup, healed, sentAge, pipeAge, send, heardNow, lastHeard>>

Resting == [key |-> DeadmanKey, stage |-> "rest", took |-> 0, since |-> 0,
            outside |-> FALSE, inLog |-> FALSE]

AlertTypeOK ==
    /\ setup \in Setups
    /\ healed \in BOOLEAN
    /\ sentAge \in [Keys -> 0..Cooldown]
    /\ pipeAge \in 0..Deadline
    /\ send \in [Senders -> [key : Keys, stage : {"rest", "slack", "email", "log", "end"},
                             took : 0..SendLimit, since : 0..2 * SendLimit,
                             outside : BOOLEAN, inLog : BOOLEAN]]
    /\ heardNow \subseteq Keys
    /\ lastHeard \in [Keys -> 0..Cooldown]

----------------------------------------------------------------------------
(* An external channel is asked for. *)
HasSlack == setup.slack # "none"
External == HasSlack \/ setup.email

(* configured_channels *)
Configured == External \/ setup.log

(* Mutant: the cooldown is not looked at. *)
ShouldSendAlways(k) == TRUE

(* should_send: the key's last delivery is a cooldown old. *)
ShouldSend(k) == sentAge[k] = Cooldown

(* The dead-man switch waits for its clock. *)
Stale == pipeAge = Deadline

(* notify_delivery up to its first transport.  An event that is dropped    *)
(* changes nothing.                                                        *)
Raise(t, k) ==
    /\ send[t].stage = "rest"
    /\ KeyOwner[k] = t
    /\ k = DeadmanKey => Stale
    /\ Configured /\ ShouldSend(k)
    /\ send' = [send EXCEPT ![t] = [Resting EXCEPT !.key = k, !.stage = "slack"]]
    /\ heardNow' = {}
    /\ UNCHANGED <<setup, healed, sentAge, pipeAge, lastHeard>>

(* A transport answers, or fails, or is killed at its limit. *)
Outcomes == IF healed THEN {TRUE} ELSE BOOLEAN

Moved(t, stage) == [send[t] EXCEPT !.stage = stage, !.took = 0]

(* Slack: a target without a token or a channel is reported and skipped. *)
SendSlack(t) ==
    /\ send[t].stage = "slack"
    /\ \E ok \in IF setup.slack = "full" THEN Outcomes ELSE {FALSE} :
          send' = [send EXCEPT ![t] = [Moved(t, "email") EXCEPT !.outside = ok]]
    /\ heardNow' = {}
    /\ UNCHANGED <<setup, healed, sentAge, pipeAge, lastHeard>>

SendEmail(t) ==
    /\ send[t].stage = "email"
    /\ \E ok \in IF setup.email THEN Outcomes ELSE {FALSE} :
          send' = [send EXCEPT ![t] = [Moved(t, "log") EXCEPT !.outside = @ \/ ok]]
    /\ heardNow' = {}
    /\ UNCHANGED <<setup, healed, sentAge, pipeAge, lastHeard>>

SendLog(t) ==
    /\ send[t].stage = "log"
    /\ \E ok \in IF setup.log THEN Outcomes ELSE {FALSE} :
          send' = [send EXCEPT ![t] = [Moved(t, "end") EXCEPT !.inLog = ok]]
    /\ heardNow' = {}
    /\ UNCHANGED <<setup, healed, sentAge, pipeAge, lastHeard>>

(* Mutant: the local log never counts. *)
CountsOutsideOnly(s) == s.outside

(* The local log counts only where no external channel is configured. *)
Counts(s) == IF External THEN s.outside ELSE s.inLog

Earlier(a, b) == IF a < b THEN a ELSE b

(* record_sent: only a delivery starts the key's cooldown. *)
RecordSent(k, ok) == IF ok THEN [sentAge EXCEPT ![k] = 0] ELSE sentAge

(* The end of notify_delivery and, for its own key, of DeadManState::check, *)
(* which credits the moment it was called and not the moment it ends.      *)
Conclude(t) ==
    /\ send[t].stage = "end"
    /\ LET k == send[t].key
           ok == Counts(send[t])
       IN  /\ sentAge' = RecordSent(k, ok)
           /\ pipeAge' = IF ok /\ k = DeadmanKey
                         THEN Earlier(send[t].since, Deadline) ELSE pipeAge
           /\ heardNow' = IF ok THEN {k} ELSE {}
           /\ lastHeard' = IF ok THEN [lastHeard EXCEPT ![k] = 0] ELSE lastHeard
    /\ send' = [send EXCEPT ![t] = Resting]
    /\ UNCHANGED <<setup, healed>>

(* A fully healthy reconciliation credits the dead-man clock. *)
Credit ==
    /\ send[KeyOwner[DeadmanKey]].stage = "rest"
    /\ pipeAge > 0
    /\ pipeAge' = 0
    /\ heardNow' = {}
    /\ UNCHANGED <<setup, healed, sentAge, send, lastHeard>>

(* Time passes; a command that reaches its limit is killed, so no stage    *)
(* lasts longer.                                                           *)
Older(n, most) == IF n < most THEN n + 1 ELSE n

AlertTime ==
    /\ \A t \in Senders : send[t].took < SendLimit
    /\ sentAge' = [k \in Keys |-> Older(sentAge[k], Cooldown)]
    /\ lastHeard' = [k \in Keys |-> Older(lastHeard[k], Cooldown)]
    /\ pipeAge' = Older(pipeAge, Deadline)
    /\ send' = [t \in Senders |->
                  IF send[t].stage \in {"slack", "email"}
                  THEN [send[t] EXCEPT !.took = @ + 1, !.since = @ + 1] ELSE send[t]]
    /\ heardNow' = {}
    /\ UNCHANGED <<setup, healed>>

Heal ==
    /\ ~healed
    /\ healed' = TRUE
    /\ heardNow' = {}
    /\ UNCHANGED <<setup, sentAge, pipeAge, send, lastHeard>>

----------------------------------------------------------------------------
AlertInit ==
    /\ setup \in Setups
    /\ healed = FALSE
    /\ sentAge = [k \in Keys |-> Cooldown]
    /\ pipeAge = 0
    /\ send = [t \in Senders |-> Resting]
    /\ heardNow = {}
    /\ lastHeard = [k \in Keys |-> Cooldown]

SendStep(t) == SendSlack(t) \/ SendEmail(t) \/ SendLog(t) \/ Conclude(t)

AlertNext ==
    \/ \E t \in Senders : SendStep(t) \/ \E k \in Keys : Raise(t, k)
    \/ Credit \/ AlertTime \/ Heal

(* A call has a time limit, a condition that lasts is raised again, and    *)
(* time goes by.                                                           *)
AlertFairness ==
    /\ \A t \in Senders : WF_alertVars(SendStep(t))
    /\ \A k \in Keys : SF_alertVars(Raise(KeyOwner[k], k))
    /\ WF_alertVars(AlertTime)

AlertSpec == AlertInit /\ [][AlertNext]_alertVars /\ AlertFairness

----------------------------------------------------------------------------
(* No event is delivered twice within its cooldown: the check and the      *)
(* record are two steps, but no two threads raise the same key.            *)
OneDeliveryPerCooldown ==
    [][\A k \in heardNow' : lastHeard[k] = Cooldown]_alertVars

(* Where an external channel is configured, an event that only reached the *)
(* local log starts no cooldown and does not count as proof of life.       *)
LogMasksNothing ==
    [][\A t \in Senders :
          send[t].stage = "end" /\ send'[t].stage = "rest" /\ External
            /\ ~send[t].outside
          => sentAge'[send[t].key] = sentAge[send[t].key] /\ pipeAge' = pipeAge]_alertVars

(* Once the transports work, a condition that keeps being raised reaches   *)
(* the operator within a cooldown, and so again and again, whatever failed *)
(* before.                                                                 *)
LastingConditionsHeard ==
    setup.slack # "partial" /\ Configured /\ <>healed
        => \A k \in Keys \ {DeadmanKey} : []<>(k \in heardNow)

(* A daemon that is never healthy again tests its alert channels for ever. *)
SelfTestsRepeat ==
    /\ setup.slack # "partial" /\ Configured
    /\ <>healed
    /\ <>[][~Credit]_alertVars
    => []<>(DeadmanKey \in heardNow)
=============================================================================
