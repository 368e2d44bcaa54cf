----------------------------- MODULE HostLimits -----------------------------
(***************************************************************************)
(* The resource limits of the runners (config.rs and docker_backend.rs):   *)
(* what a configuration must satisfy, the memory budget a start of the     *)
(* service derives and refuses, and the limit each docker run is given     *)
(* while the daemon's capacity probe and the cached probe of the CPU       *)
(* controller come and go.                                                 *)
(* Memory is counted in units of 512 MB, the least a runner may have.      *)
(***************************************************************************)
EXTENDS Naturals, FiniteSets, Folds

CONSTANTS
    Configs,      \* configurations the operator may write, see ConfigType
    HostMemory,   \* physical memory
    DaemonSizes,  \* memory the Docker daemon may report
    ProbeTTL,     \* CPU_PROBE_CACHE_TTL
    Resizes       \* bound on the resizes of the VM

(* vmTotal is 0 where runner.vm_total_mb is not set. *)
ConfigType == [count : Nat, memory : Nat, vmTotal : Nat, guestReserve : Nat,
               hostReserve : Nat, floor : Nat, burst : BOOLEAN]

ASSUME LimitsAssumption ==
    /\ Configs \subseteq ConfigType /\ DaemonSizes \subseteq Nat \ {0}
    /\ HostMemory \in Nat /\ ProbeTTL \in Nat \ {0} /\ Resizes \in Nat

VARIABLES
    cfg,        \* the configuration
    launch,     \* "starting", "serving", "refused"
    daemonMem,  \* the memory of the Docker daemon
    inVm,       \* the daemon runs in a VM
    controller, \* a probe of the CPU controller would succeed
    cache,      \* its cached answer and age, age ProbeTTL when there is none
    grant,      \* the memory limit of each running runner, by slot; 0: none
    blind,      \* history: slots whose limit was computed without a capacity
    small,      \* history: the daemon has less memory than at the start
    checked,    \* history: the start derived a budget
    turned,     \* the last refill was refused for want of the controller
    resized,    \* resizes so far
    previewed   \* what ezgha doctor last said of the next start

limitVars == <<cfg, launch, daemonMem, inVm, controller, cache, grant, blind, small,
               checked, turned, resized, previewed>>

Places == 1..cfg.count

LimitsTypeOK ==
    /\ cfg \in Configs /\ launch \in {"starting", "serving", "refused"}
    /\ daemonMem \in DaemonSizes /\ {inVm, controller, small, checked, turned} \subseteq BOOLEAN
    /\ cache.value \in BOOLEAN /\ cache.age \in 0..ProbeTTL
    /\ DOMAIN grant = Places /\ blind \subseteq Places /\ resized \in 0..Resizes
    /\ previewed \in {"none", "pass", "fail", "unknown"}
    /\ \A s \in Places : grant[s] = 0 \/ grant[s] >= 1

----------------------------------------------------------------------------
SmallerOf(a, b)  == IF a < b THEN a ELSE b
Greater(a, b) == IF a > b THEN a ELSE b
Minus(a, b)   == IF a > b THEN a - b ELSE 0

(* Config::validate: 0 would be unlimited to Docker. *)
Valid(c) == c.memory >= 1 /\ c.floor >= 1 /\ c.count >= 1

(* validate_host_envelope: a configured VM leaves the host its reserve. *)
FitsHost(c) ==
    c.vmTotal # 0 => HostMemory >= c.hostReserve /\ c.vmTotal <= HostMemory - c.hostReserve

(* daemon_capacity: a docker info that fails tells nothing, here 0. *)
Capacity == {daemonMem, 0}

(* resolve_vm_total_mb, derive_memory_budget *)
VmTotal(seen) == IF cfg.vmTotal # 0 THEN cfg.vmTotal ELSE seen
FleetBudget(total) == Minus(total, cfg.guestReserve)
BudgetHolds(total) == cfg.count * cfg.floor <= FleetBudget(total)

(* cpu_burst is honoured for a daemon known to be in a VM, of known size. *)
BurstRefused(seen, vm) == cfg.burst /\ (~vm \/ seen = 0)

(* preview_memory_budget: the derivation of the start, without the check   *)
(* of the envelope and without its consequences.                           *)
PreviewOf(seen) ==
    IF VmTotal(seen) = 0 THEN "unknown"
    ELSE IF BudgetHolds(VmTotal(seen)) THEN "pass" ELSE "fail"

(* ezgha doctor, for a configuration that loads, beside whatever runs.     *)
Preview ==
    /\ launch = "starting" /\ Valid(cfg)
    /\ \E seen \in Capacity : previewed' = PreviewOf(seen)
    /\ UNCHANGED <<cfg, launch, daemonMem, inVm, controller, cache, grant, blind, small,
                   checked, turned, resized>>

(* Serve startup: nothing but a budget that cannot hold, an envelope that  *)
(* is broken, or a burst that cannot be bounded, stops the service.        *)
StartService ==
    /\ launch = "starting"
    /\ \E seen \in Capacity, vm \in {inVm, FALSE} :
          /\ launch' = IF /\ Valid(cfg) /\ FitsHost(cfg) /\ ~BurstRefused(seen, vm)
                          /\ VmTotal(seen) # 0 => BudgetHolds(VmTotal(seen))
                       THEN "serving" ELSE "refused"
          /\ checked' = (VmTotal(seen) # 0)
    /\ small' = FALSE
    /\ UNCHANGED <<cfg, daemonMem, inVm, controller, cache, grant, blind, turned, resized,
                   previewed>>

(* effective_limits_with_capacity: a runner gets at most its share of the  *)
(* fleet's budget, and never less than a runner may have.  The override of *)
(* the daemon's memory applies to a capacity that was read.                *)
Share(total) == Greater(FleetBudget(total) \div cfg.count, 1)

Limit(seen) == IF seen = 0 THEN cfg.memory ELSE SmallerOf(cfg.memory, Share(VmTotal(seen)))

(* read_cached_or_reprobe: both answers are kept for the same time. *)
Fresh(c) == c.age < ProbeTTL

(* Mutant: a read of the cache keeps it fresh. *)
ProbedSliding ==
    [value |-> IF Fresh(cache) THEN cache.value ELSE controller, age |-> 0]

Probed == IF Fresh(cache) THEN cache ELSE [value |-> controller, age |-> 0]

(* The limits of one docker run: the capacity first, then the controller.  *)
StartRunner(s) ==
    /\ launch = "serving" /\ grant[s] = 0
    /\ \E seen \in Capacity, vm \in {inVm, FALSE} :
          /\ ~BurstRefused(seen, vm)
          /\ cache' = Probed
          /\ IF cache'.value
             THEN /\ grant' = [grant EXCEPT ![s] = Limit(seen)]
                  /\ blind' = IF seen = 0 THEN blind \cup {s} ELSE blind \ {s}
                  /\ turned' = FALSE
             ELSE turned' = TRUE /\ UNCHANGED <<grant, blind>>
    /\ UNCHANGED <<cfg, launch, daemonMem, inVm, controller, small, checked, resized,
                   previewed>>

RunnerEnds(s) ==
    /\ grant[s] # 0
    /\ grant' = [grant EXCEPT ![s] = 0]
    /\ UNCHANGED <<cfg, launch, daemonMem, inVm, controller, cache, blind, small, checked,
                   turned, resized, previewed>>

(* The operator resizes the VM, which restarts it and ends its runners. *)
Resize ==
    /\ resized < Resizes /\ inVm
    /\ daemonMem' \in DaemonSizes \ {daemonMem}
    /\ resized' = resized + 1
    /\ grant' = [s \in Places |-> 0]
    /\ small' = (small \/ daemonMem' < daemonMem)
    /\ UNCHANGED <<cfg, launch, inVm, controller, cache, blind, checked, turned>>
    /\ previewed' = "none"

(* The probe of the controller fails for a while: no image, no socket. *)
ControllerChanges ==
    /\ controller' = ~controller
    /\ UNCHANGED <<cfg, launch, daemonMem, inVm, cache, grant, blind, small, checked, turned,
                   resized, previewed>>

CacheAges ==
    /\ cache.age < ProbeTTL
    /\ cache' = [cache EXCEPT !.age = @ + 1]
    /\ UNCHANGED <<cfg, launch, daemonMem, inVm, controller, grant, blind, small, checked,
                   turned, resized, previewed>>

LimitsInit ==
    /\ cfg \in Configs /\ launch = "starting"
    /\ daemonMem \in DaemonSizes /\ inVm \in BOOLEAN /\ controller \in BOOLEAN
    /\ cache = [value |-> FALSE, age |-> ProbeTTL]
    /\ grant = [s \in Places |-> 0]
    /\ blind = {} /\ small = FALSE /\ checked = FALSE /\ turned = FALSE /\ resized = 0
    /\ previewed = "none"

LimitsNext ==
    \/ StartService \/ Preview \/ Resize \/ ControllerChanges \/ CacheAges
    \/ \E s \in Places : StartRunner(s) \/ RunnerEnds(s)

(* The serve loop refills again and again, time passes, jobs end. *)
LimitsFairness ==
    /\ WF_limitVars(StartService) /\ WF_limitVars(CacheAges)
    /\ WF_limitVars(\E s \in Places : StartRunner(s))
    /\ WF_limitVars(\E s \in Places : RunnerEnds(s))

LimitsSpec == LimitsInit /\ [][LimitsNext]_limitVars /\ LimitsFairness

----------------------------------------------------------------------------
GrantedTo(S) == MapThenFoldSet(+, 0, LAMBDA s : grant[s], LAMBDA T : CHOOSE s \in T : TRUE, S)

(* The memory the fleet is being guarded by.                               *)
Guarded == cfg.vmTotal # 0 \/ (checked /\ ~small)

(* Runners whose limit was computed from a capacity fit the fleet's budget *)
(* together, and with the reserves the VM fits the host: the check of the  *)
(* start and the clamp of each docker run agree.                           *)
FleetFits ==
    launch = "serving" /\ Guarded =>
        /\ GrantedTo(Places \ blind) <= FleetBudget(VmTotal(daemonMem))
        /\ cfg.vmTotal # 0 =>
             GrantedTo(Places \ blind) + cfg.guestReserve + cfg.hostReserve <= HostMemory

(* The doctor and the start agree, though each reads the daemon itself: a  *)
(* start refused after a preview that passed is refused for the envelope   *)
(* of the host or for burst, and one that serves after a preview that      *)
(* failed could not read the memory.                                       *)
PreviewTrue ==
    /\ launch = "refused" /\ previewed = "pass" => ~FitsHost(cfg) \/ cfg.burst
    /\ launch = "serving" /\ previewed = "fail" => ~checked

(* A failed probe of the CPU controller does not pin its answer: once      *)
(* probes succeed for good, no refill is refused for long.                 *)
BlipDoesNotPin == <>[]controller => <>[]~turned
=============================================================================
