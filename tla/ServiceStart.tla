---------------------------- MODULE ServiceStart ----------------------------
(***************************************************************************)
(* The service from systemd's start to READY=1 (main.rs, service.rs,       *)
(* backend.rs): the containment check, the wait for a Docker backend, the  *)
(* restarts of Restart=on-failure under the unit's start limit, and the    *)
(* alert hook of OnFailure.                                                *)
(***************************************************************************)
EXTENDS Naturals, FiniteSets

CONSTANTS
    Hosts,         \* "native", "declared" (a microVM) or "vm" (Colima, Lima)
    WaitLimit,     \* the budget of wait_for_backend
    RestartRest,   \* RestartSec
    LimitInterval, \* StartLimitIntervalSec
    LimitBurst,    \* StartLimitBurst
    MaxCrashes     \* bound on the crashes of a service that was ready

ASSUME ServiceAssumption ==
    /\ Hosts \subseteq {"native", "declared", "vm"}
    /\ {WaitLimit, RestartRest, LimitInterval, LimitBurst} \subseteq Nat \ {0}
    /\ MaxCrashes \in Nat

VARIABLES
    host,     \* the kind of host
    answers,  \* the Docker daemon answers
    unit,     \* "starting", "active", "resting" before a restart, "failed"
    phase,    \* of a start: "contain", "wait"
    waited,   \* time spent in wait_for_backend
    rested,   \* time since the unit failed
    starts,   \* the starts systemd counts: their ages, no two of them alike
              \* as RestartSec lies between them
    crashes,  \* crashes so far
    paged     \* the start-limit alert was raised

serviceVars == <<host, answers, unit, phase, waited, rested, starts, crashes,
                 paged>>

ServiceTypeOK ==
    /\ host \in Hosts /\ answers \in BOOLEAN /\ paged \in BOOLEAN
    /\ unit \in {"starting", "active", "resting", "failed"}
    /\ phase \in {"contain", "wait"}
    /\ waited \in 0..WaitLimit
    /\ rested \in 0..RestartRest /\ crashes \in 0..MaxCrashes
    /\ Cardinality(starts) <= LimitBurst /\ starts \subseteq 0..LimitInterval

----------------------------------------------------------------------------
(* systemd: a restart that would be one too many in the interval fails the *)
(* unit.                                                                   *)
Restart ==
    /\ unit = "resting" /\ rested = RestartRest
    /\ IF Cardinality(starts) < LimitBurst
       THEN /\ unit' = "starting" /\ phase' = "contain"
            /\ starts' = starts \cup {0}
       ELSE unit' = "failed" /\ UNCHANGED <<phase, starts>>
    /\ waited' = 0
    /\ UNCHANGED <<host, answers, rested, crashes, paged>>

(* The process exits with an error; Restart=on-failure. *)
Exits == unit' = "resting" /\ rested' = 0

(* require_host_containment.  A native host is checked by its slice and a  *)
(* declared one by its kernel; a Docker in a VM is one only if it answers, *)
(* and its configuration is not that of a contained native host.           *)
Contained == host \in {"native", "declared"} \/ answers

CheckContainment ==
    /\ unit = "starting" /\ phase = "contain"
    /\ IF Contained
       THEN phase' = "wait" /\ UNCHANGED <<unit, rested>>
       ELSE Exits /\ UNCHANGED phase
    /\ UNCHANGED <<host, answers, waited, starts, crashes, paged>>

(* wait_for_backend chooses a backend, the rest of the start needs no one  *)
(* else, and READY=1 goes out.                                             *)
BackendFound ==
    /\ unit = "starting" /\ phase = "wait" /\ answers
    /\ unit' = "active"
    /\ UNCHANGED <<host, answers, phase, waited, rested, starts, crashes, paged>>

(* PolicyBlocked: where a VM is required, the second probe of the daemon   *)
(* did not prove that it is in one.                                        *)
PolicyBlocks ==
    /\ unit = "starting" /\ phase = "wait" /\ answers /\ host = "vm"
    /\ Exits
    /\ UNCHANGED <<host, answers, phase, waited, starts, crashes, paged>>

(* No backend: the start fails once its budget is spent. *)
OutOfBudget == waited = WaitLimit

NoBackend ==
    /\ unit = "starting" /\ phase = "wait" /\ ~answers /\ OutOfBudget
    /\ Exits
    /\ UNCHANGED <<host, answers, phase, waited, starts, crashes, paged>>

ServiceCrashes ==
    /\ unit = "active" /\ crashes < MaxCrashes
    /\ crashes' = crashes + 1
    /\ Exits
    /\ UNCHANGED <<host, answers, phase, waited, starts, paged>>

(* OnFailure: run_systemd_alert_hook pages for the start limit and not for *)
(* a failure systemd retries.                                              *)
Pages == unit = "failed"

AlertHook ==
    /\ unit = "failed" /\ ~paged
    /\ paged' = Pages
    /\ UNCHANGED <<host, answers, unit, phase, waited, rested, starts, crashes>>

DockerFlips ==
    /\ answers' = ~answers
    /\ UNCHANGED <<host, unit, phase, waited, rested, starts, crashes, paged>>

(* Time passes.  Only the wait for a backend takes time in a start, and it *)
(* looks again before its budget runs out.                                 *)
AgedStarts == {a + 1 : a \in starts}

ServiceTime ==
    /\ \/ unit \in {"active", "resting"}
       \/ unit = "starting" /\ phase = "wait" /\ ~answers
    /\ unit = "starting" => waited < WaitLimit
    /\ unit = "resting" => rested < RestartRest
    /\ starts' = {a \in AgedStarts : a < LimitInterval}
    /\ waited' = IF unit = "starting" THEN waited + 1 ELSE waited
    /\ rested' = IF unit = "resting" THEN rested + 1 ELSE rested
    /\ UNCHANGED <<host, answers, unit, phase, crashes, paged>>

ServiceInit ==
    /\ host \in Hosts /\ answers \in BOOLEAN
    /\ unit = "starting" /\ phase = "contain"
    /\ waited = 0 /\ rested = 0 /\ starts = {0}
    /\ crashes = 0 /\ paged = FALSE

StartStep == CheckContainment \/ BackendFound \/ PolicyBlocks \/ NoBackend

ServiceNext ==
    StartStep \/ Restart \/ ServiceCrashes \/ AlertHook \/ DockerFlips \/ ServiceTime

(* The process makes progress, systemd restarts it and runs the hook, time *)
(* passes; nothing is assumed of Docker.                                   *)
ServiceFairness ==
    WF_serviceVars(StartStep) /\ WF_serviceVars(Restart) /\ WF_serviceVars(AlertHook)
    /\ WF_serviceVars(ServiceTime)

ServiceSpec == ServiceInit /\ [][ServiceNext]_serviceVars /\ ServiceFairness

----------------------------------------------------------------------------
(* A host with a lasting Docker is served in the end, however long and     *)
(* often Docker was away before: the wait makes the restarts rare enough   *)
(* to spare the unit's start limit.  Only a daemon in a VM, whose          *)
(* containment check asks Docker and does not wait, can use the limit up,  *)
(* and systemd then pages.                                                 *)
ServesOnceReachable ==
    <>[]answers => <>(unit = "active" \/ (host = "vm" /\ paged))

=============================================================================
