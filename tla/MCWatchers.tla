----------------------------- MODULE MCWatchers -----------------------------
(***************************************************************************)
(* What watches the fleet, for TLC: the monitors and the canary in their   *)
(* threads, one sample of the queue, the ages of its jobs, and the         *)
(* delivery of alerts.  They share no variable: a behaviour picks one of   *)
(* them, its part, and takes only that one's steps.                        *)
(***************************************************************************)
EXTENDS Monitors, Canary, QueueHealth, JobAges, AlertDelivery

VARIABLE part

(* The monitor thread raises the tail alert, the serve loop the self-test. *)
Owner == [k \in Keys |-> IF k = DeadmanKey THEN "serve" ELSE "monitor"]

(* A blank token counts as one, a blank channel hides that of the          *)
(* environment.                                                            *)
Silent == [k \in {"token", "envToken", "channel", "envChannel", "url"} |-> "unset"]
SlackSettings ==
    {Silent, [Silent EXCEPT !["url"] = "set"], [Silent EXCEPT !["token"] = "blank"],
     [Silent EXCEPT !["token"] = "set", !["channel"] = "blank", !["envChannel"] = "set"],
     [Silent EXCEPT !["token"] = "set", !["envChannel"] = "set"]}
NoChannels == {<<Silent, FALSE, FALSE>>}
AllSettings == SlackSettings \X BOOLEAN \X BOOLEAN

(* Days before the turns of a leap year, of centuries and of years.        *)
SomeDays ==
    {[year |-> y, month |-> 2, day |-> 27] : y \in {1900, 2000, 2024}}
      \cup {[year |-> 1999, month |-> 12, day |-> 30]}

(* A run past stale_hours, two past the alert thresholds, and a young one. *)
AgeOf == <<9, 6, 5, 2>>

WatchersTypeOK == MonitorsTypeOK /\ CanaryTypeOK /\ QueueTypeOK /\ AgesTypeOK /\ AlertTypeOK

(* The parts that are not picked stay in one of their initial states. *)
WatchersInit ==
    /\ MonitorsInit /\ CanaryInit /\ QueueInit /\ AgesInit /\ AlertInit
    /\ part \in {"monitors", "canary", "queue", "ages", "alerts"}
    /\ part # "ages" => today.year = 1999
    /\ part # "queue" => newest = 0 /\ hosted = {}
    /\ part # "alerts" => setup = [slack |-> "none", email |-> FALSE, log |-> FALSE]

WatchersNext ==
    \/ /\ part = "monitors" /\ MonitorsNext
       /\ UNCHANGED <<canaryVars, queueVars, agesVars, alertVars, part>>
    \/ /\ part = "canary" /\ CanaryNext
       /\ UNCHANGED <<monitorVars, queueVars, agesVars, alertVars, part>>
    \/ /\ part = "queue" /\ QueueNext
       /\ UNCHANGED <<monitorVars, canaryVars, agesVars, alertVars, part>>
    \/ /\ part = "ages" /\ AgesNext
       /\ UNCHANGED <<monitorVars, canaryVars, queueVars, alertVars, part>>
    \/ /\ part = "alerts" /\ AlertNext
       /\ UNCHANGED <<monitorVars, canaryVars, queueVars, agesVars, part>>

WatchersSpec ==
    /\ WatchersInit
    /\ [][WatchersNext]_<<monitorVars, canaryVars, queueVars, agesVars, alertVars, part>>
    /\ \A t \in Senders : WF_alertVars(part = "alerts" /\ SendStep(t))
    /\ \A k \in Keys : SF_alertVars(part = "alerts" /\ Raise(KeyOwner[k], k))
    /\ WF_alertVars(part = "alerts" /\ AlertTime)
    /\ WF_monitorVars(part = "monitors" /\ Scheduler)
    /\ WF_monitorVars(part = "monitors" /\ Tick)
    /\ WF_monitorVars(part = "monitors" /\ Worker)

(* OneDeliveryPerCooldown and LogMasksNothing of module AlertDelivery.     *)
DeliveriesHonest == OneDeliveryPerCooldown /\ LogMasksNothing

(* FlightPaced of module Monitors and CanaryPaced of module Canary, both   *)
(* schedulers implement PacedFlight; LowBudgetProbesAreRare and            *)
(* StreakSurvives of module Monitors, what they count outlives threads.    *)
BackgroundWorkPaced ==
    FlightPaced /\ CanaryPaced /\ LowBudgetProbesAreRare /\ StreakSurvives

(* Of module QueueHealth, NoFalseEmpty: no sample, capped or not, takes a  *)
(* queue for empty that is not; NoHiddenWait and IdleCapacityTold: one not *)
(* marked as capped hides no long wait and no idle runner; and AgesTrue of *)
(* module JobAges: the waits it reports are those of the jobs.             *)
SamplesTruthful == NoFalseEmpty /\ NoHiddenWait /\ IdleCapacityTold /\ AgesTrue

(* LastingConditionsHeard and SelfTestsRepeat of module AlertDelivery:     *)
(* what lasts is heard, and so is a daemon that is never healthy; and      *)
(* MonitorsResume of module Monitors.                                      *)
AlertsHeard ==
    /\ part = "alerts" => LastingConditionsHeard /\ SelfTestsRepeat
    /\ part = "monitors" => MonitorsResume
=============================================================================
