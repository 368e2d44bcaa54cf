----------------------------- MODULE MCServices -----------------------------
(***************************************************************************)
(* The services around the serve loop for TLC, which share no variable: a  *)
(* call to GitHub, the token it uses, the reaper of zombies, the reaper of *)
(* docker's child processes, a readiness pass, the admission gates, the    *)
(* memory budget of the daemons of one user, the limits of a runner, the   *)
(* end of a daemon, the convergence of Lima, what a refill tells of        *)
(* itself, and what the operator's commands make of the configuration, of  *)
(* the service, and of what the daemon remembers.  A behaviour picks one, its part, and takes only that *)
(* one's steps.                                                            *)
(***************************************************************************)
EXTENDS GhTransport, TokenRefresh, Reaper, DockerChildren, Readiness,
        AdmissionGates, AdmissionBudget, HostLimits, Shutdown, LimaConvergence,
        Configuration, Telemetry, ServiceInstall, RefillEvidence

VARIABLE part

Parts == {"call", "token", "zombie", "children", "readiness", "gates", "budget",
          "limits", "stop", "lima", "config", "telemetry", "install", "refill"}

Caps == <<2, 3>>
Wants == <<3, 2>>

SomeConfigs == [count : {2}, memory : {0, 3}, vmTotal : {0, 6}, guestReserve : {1},
                hostReserve : {2}, floor : {1, 2, 3}, burst : BOOLEAN]

(* The flags of an init: those that make sense, and those that do not.     *)
SomeRequests ==
    {[scope |-> "repo", target |-> "repo", count |-> n] : n \in {0, 1, 3}} \cup
    {[scope |-> "repo", target |-> "nested", count |-> 1],
     [scope |-> "repo", target |-> "org", count |-> 1],
     [scope |-> "org", target |-> "org", count |-> 1]}

(* A small Docker daemon, and one that does not answer.                    *)
SomeHosts == {[memory |-> 6, cpus |-> 2]}
SomeEngines == {Silent, [memory |-> 2, cpus |-> 2]}
SomeTypos ==
    {[field |-> "memory", value |-> 0], [field |-> "pollInterval", value |-> 601],
     [field |-> "slotFailures", value |-> 0]}

ServicesTypeOK ==
    /\ TransportTypeOK /\ TokenTypeOK /\ ReaperTypeOK /\ ChildrenTypeOK /\ ReadinessTypeOK
    /\ GatesTypeOK /\ BudgetTypeOK /\ LimitsTypeOK /\ ShutdownTypeOK /\ LimaTypeOK
    /\ ConfigurationTypeOK /\ TelemetryTypeOK /\ InstallTypeOK /\ EvidenceTypeOK

(* The parts that are not picked stay in one of their initial states.      *)
Parked ==
    /\ \/ part = "zombie"
       \/ /\ run = [j \in Jobs |-> j]
          /\ runner = [j \in Jobs |-> IF j = 1 THEN "zombie" ELSE "nobody"]
          /\ status = [j \in Jobs |-> IF j = 1 THEN "in_progress" ELSE "queued"]
    /\ part = "readiness" \/ box = [c \in Boxes |-> "gone"]
    /\ \/ part = "limits"
       \/ /\ cfg \in {c \in Configs : c.memory = 0 /\ c.vmTotal = 0 /\ c.floor = 1 /\ c.burst}
          /\ daemonMem = 4 /\ inVm = FALSE /\ controller = FALSE
    /\ part = "stop" \/ table = [s \in Slots |-> None]
    /\ \/ part = "lima"
       \/ vm = [v \in VMs |-> "absent"] /\ context = "none" /\ dockerHost = "none"

(* Runner ids are but names: the own ones are those of slots 1 and 2, and  *)
(* the sibling has the name of slot 1.                                     *)
OwnOf == CHOOSE f \in [Slots -> Ids \ Siblings] : \A s, t \in Slots : f[s] = f[t] => s = t

OneIdPerSlot ==
    /\ named \in {f \in [Ids -> Slots \cup {None}] :
                    /\ \A i \in Siblings : f[i] = 1
                    /\ \A s \in Slots : f[OwnOf[s]] \in {s, None}}
    /\ part # "stop" => \A i \in Ids \ Siblings : named[i] = None
    /\ \/ part = "stop"
       \/ container = [s \in Slots |-> None]

OwnIdsOnly == \A s \in Slots : {table[s], container[s]} \cap Ids \subseteq {OwnOf[s]}

ServicesInit ==
    /\ part \in Parts
    /\ Parked /\ OneIdPerSlot
    /\ TransportInit /\ TokenInit /\ ReaperInit /\ ChildrenInit /\ ReadinessInit
    /\ GatesInit /\ BudgetInit /\ LimitsInit /\ ShutdownInit /\ LimaInit
    /\ ConfigurationInit /\ TelemetryInit /\ InstallInit
    /\ part = "install" \/ supervisor = "systemd"
    /\ EvidenceInit /\ (part = "refill" \/ docked = {})
    /\ OwnIdsOnly

Resting(p) ==
    CASE p = "call"      -> UNCHANGED transportVars
      [] p = "token"     -> UNCHANGED tokenVars
      [] p = "zombie"    -> UNCHANGED reaperVars
      [] p = "children"  -> UNCHANGED childVars
      [] p = "readiness" -> UNCHANGED passVars
      [] p = "gates"     -> UNCHANGED gateVars
      [] p = "budget"    -> UNCHANGED budgetVars
      [] p = "limits"    -> UNCHANGED limitVars
      [] p = "stop"      -> UNCHANGED shutdownVars
      [] p = "lima"      -> UNCHANGED limaVars
      [] p = "config"    -> UNCHANGED configVars
      [] p = "telemetry" -> UNCHANGED telemetryVars
      [] p = "install"   -> UNCHANGED installVars
      [] p = "refill"    -> UNCHANGED evidenceVars

OthersRest == UNCHANGED part /\ \A q \in Parts \ {part} : Resting(q)

ServicesNext ==
    \/ part = "call" /\ TransportNext /\ OthersRest
    \/ part = "token" /\ TokenNext /\ OthersRest
    \/ part = "zombie" /\ ReaperNext /\ OthersRest
    \/ part = "children" /\ ChildrenNext /\ OthersRest
    \/ part = "readiness" /\ ReadinessNext /\ OthersRest
    \/ part = "gates" /\ GatesNext /\ OthersRest
    \/ part = "budget" /\ BudgetNext /\ OthersRest
    \/ part = "limits" /\ LimitsNext /\ OthersRest
    \/ part = "stop" /\ ShutdownNext /\ OthersRest
    \/ part = "lima" /\ LimaNext /\ OthersRest
    \/ part = "config" /\ ConfigurationNext /\ OthersRest
    \/ part = "telemetry" /\ TelemetryNext /\ OthersRest
    \/ part = "install" /\ InstallNext /\ OthersRest
    \/ part = "refill" /\ EvidenceNext /\ OthersRest

serviceVars == <<transportVars, tokenVars, reaperVars, childVars, passVars, gateVars,
                 budgetVars, limitVars, shutdownVars, limaVars, configVars, telemetryVars,
                 installVars, evidenceVars, part>>

Fairness ==
    /\ \A t \in Threads : WF_tokenVars(part = "token" /\ (Refused(t) \/ Load(t) \/ Kick(t)))
    /\ WF_tokenVars(part = "token" /\ (JobMints \/ JobFails))
    /\ WF_tokenVars(part = "token" /\ TokenTick)
    /\ WF_reaperVars(part = "zombie" /\ Reap /\ UNCHANGED trouble)
    /\ \A j \in Jobs : WF_reaperVars(part = "zombie" /\ CancelReaches(j) /\ UNCHANGED trouble)
    /\ WF_childVars(part = "children" /\ CommandStep)
    /\ WF_childVars(part = "children" /\ ReaperStep)
    /\ SF_childVars(part = "children" /\ SomeReaped)
    /\ \A c \in Children \ Stuckable : WF_childVars(part = "children" /\ ChildExits(c))
    /\ WF_gateVars(part = "gates" /\ EnsureTick)
    /\ WF_gateVars(part = "gates" /\ GateElapse)
    /\ WF_limitVars(part = "limits" /\ StartService)
    /\ WF_limitVars(part = "limits" /\ CacheAges)
    /\ WF_limitVars(part = "limits" /\ \E s \in Places : StartRunner(s))
    /\ WF_limitVars(part = "limits" /\ \E s \in Places : RunnerEnds(s))

ServicesSpec == ServicesInit /\ [][ServicesNext]_serviceVars /\ Fairness

(* AnswersInTime and SecondaryHonoured of module GhTransport and            *)
(* OneKickPerCooldown of module TokenRefresh: what the daemon asks of      *)
(* GitHub, and of its supervisor, keeps to the limits of time and rate.    *)
GithubCallsPaced == AnswersInTime /\ SecondaryHonoured /\ OneKickPerCooldown

(* BudgetHeld of module AdmissionBudget and FleetFits of module HostLimits, *)
(* neither several daemons nor one fleet promise more memory than there is; *)
(* StarterFits and RunsBounded of module Configuration, the file that init *)
(* makes fits Docker, and no command runs without limits.                  *)
MemoryFits == BudgetHeld /\ FleetFits /\ PreviewTrue /\ StarterFits /\ RunsBounded

(* ConfigNotTorn of module Configuration, InstallHolds and                 *)
(* InstallSparesDaemon of module ServiceInstall, and TelemetryTrue of      *)
(* module Telemetry: what the commands of the operator leave behind is     *)
(* whole, whichever of them was cut short, and what they report is so.     *)
CommandsHold ==
    /\ ConfigNotTorn /\ InstallSparesDaemon
    /\ []InstallHolds /\ []TelemetryTrue

(* VerdictIsWhole of module Readiness, and ReleasedAreAllocatable,         *)
(* LossesTold and StartTellsTruth of RefillEvidence: neither a readiness   *)
(* pass nor a refill tells of the fleet what it has not seen.              *)
FleetToldTruly ==
    VerdictIsWhole /\ ReleasedAreAllocatable /\ LossesTold /\ StartTellsTruth

(* HeadroomAlertTrue and BlindRefillsBounded of module AdmissionGates.     *)
GatesHold == HeadroomAlertTrue /\ []BlindRefillsBounded

(* DrainSparesContainers, DrainForgetsNoRunner, DrainBounded and           *)
(* StopSparesSiblings of module Shutdown: no runner is lost when a daemon  *)
(* goes, and the drain keeps to its deadline.                              *)
StopLosesNothing ==
    /\ DrainSparesContainers /\ DrainForgetsNoRunner
    /\ [](part = "stop" => DrainBounded /\ StopSparesSiblings)

(* RefreshKeepsComing of module TokenRefresh, ZombieFreed of Reaper,       *)
(* KilledAreReaped of DockerChildren, StarvationTold of AdmissionGates and *)
(* BlipDoesNotPin of HostLimits.                                           *)
ServicesProgress ==
    /\ part = "token" => RefreshKeepsComing
    /\ part = "zombie" => ZombieFreed
    /\ part = "children" => KilledAreReaped
    /\ part = "gates" => StarvationTold
    /\ part = "limits" => BlipDoesNotPin
=============================================================================
