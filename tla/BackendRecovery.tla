-------------------------- MODULE BackendRecovery --------------------------
(***************************************************************************)
(* How the daemon waits for a container backend when it starts             *)
(* (wait_for_backend) and restarts the VM behind it when a reconciliation  *)
(* fails (maybe_restart_backend), src/main.rs.  Both go through            *)
(* BackendRecoveryState, which rations the restarts, and through           *)
(* attempt_backend_restart_with, which fits each restart command and the   *)
(* health poll after it into what is left of the caller's deadline; the    *)
(* serve loop has none.                                                    *)
(*                                                                         *)
(* Docker is "up", "down", "weak" (up, but below policy.minimum_isolation) *)
(* or "wedged" (it accepts a connection and never answers).  One step is   *)
(* one external call and takes the time it takes; ages saturate at the     *)
(* largest value the code compares them with.                              *)
(***************************************************************************)
EXTENDS Integers

CONSTANTS
    StartBudget,    \* the timeout serve gives wait_for_backend
    Retry,          \* retry_interval
    Quick,          \* the 1 s after a restart at startup
    CommandCeiling, \* BACKEND_RESTART_COMMAND_TIMEOUT
    MinBudget,      \* BACKEND_RESTART_MIN_BUDGET
    Margin,         \* BACKEND_RESTART_SAFETY_MARGIN
    HealthCeiling,  \* BACKEND_RESTART_HEALTH_POLL_TIMEOUT
    Cooldown,       \* BACKEND_RESTART_COOLDOWN
    Window,         \* BACKEND_RESTART_WINDOW
    MaxAttempts,    \* BACKEND_RESTART_MAX_ATTEMPTS
    Commands,       \* number of restart commands of this platform
    ProbeTime,      \* the longest platform::detect or docker info takes
    Outages         \* how Docker may change: subset of {"down", "weak", "wedged"}

ASSUME RecoveryAssumption ==
    /\ {StartBudget, Retry, Quick, CommandCeiling, MinBudget, HealthCeiling,
        Cooldown, Window, MaxAttempts, Commands} \subseteq Nat \ {0}
    /\ {Margin, ProbeTime} \subseteq Nat
    /\ Margin <= MinBudget
    /\ Retry <= Margin + ProbeTime /\ Quick <= Margin + ProbeTime
    /\ Cooldown <= Window

VARIABLES
    gateAsks,  \* only Docker's answer satisfies require_host_containment here
    step,      \* the call the daemon makes next
    docker,    \* the state of the Docker daemon
    left,      \* time left before the startup deadline, negative once past
    recovery,  \* BackendRecoveryState: [window, attempts, last]
    command,   \* index of the next restart command
    poll,      \* time left to the health poll
    wait,      \* how long to sleep if no restart comes of this iteration
    serving    \* wait_for_backend has returned a backend

recoveryVars == <<gateAsks, step, docker, left, recovery, command, poll, wait, serving>>

Slack == 4 * ProbeTime
NoRestart == Cooldown

FreshRecovery == [window |-> 0, attempts |-> 0, last |-> NoRestart]

RecoveryTypeOK ==
    /\ gateAsks \in BOOLEAN
    /\ step \in {"select", "reach", "last chance", "help", "command", "health",
                 "quick", "retry", "serve", "ensure", "gave up"}
    /\ docker \in {"up", "down", "weak", "wedged"}
    /\ left \in -(Slack + 1)..StartBudget
    /\ recovery \in [window : 0..(Window + 1), attempts : 0..MaxAttempts,
                     last : 0..NoRestart]
    /\ command \in 1..(Commands + 1)
    /\ poll \in 0..HealthCeiling
    /\ wait \in 0..Retry
    /\ serving \in BOOLEAN

----------------------------------------------------------------------------
Least(a, b) == IF a < b THEN a ELSE b

(* d units pass. *)
LeftAfter(d) ==
    IF serving THEN left
    ELSE IF left - d < -(Slack + 1) THEN -(Slack + 1) ELSE left - d
Aged(r, d) == [r EXCEPT !.window = Least(@ + d, Window + 1),
                        !.last = Least(@ + d, NoRestart)]
Elapses(d) == left' = LeftAfter(d) /\ recovery' = Aged(recovery, d)

(* Instant::saturating_duration_since of the deadline. *)
Remaining == IF left > 0 THEN left ELSE 0

(* Mutants: a restart command may use all the budget, a health poll may    *)
(* outlast its ceiling.                                                    *)
RestartTimeoutUnclamped == CommandCeiling
HealthTimeoutUnclamped(remaining) == remaining - Margin

(* BackendRestartTiming: 0 stands for the None of clamped_restart_timeout. *)
RestartTimeout ==
    IF serving THEN CommandCeiling
    ELSE IF Remaining < MinBudget THEN 0
    ELSE Least(Remaining - Margin, CommandCeiling)

HealthTimeout(remaining) ==
    IF serving THEN HealthCeiling
    ELSE IF remaining <= Margin THEN 0
    ELSE Least(remaining - Margin, HealthCeiling)

(* Mutant: a window never opens anew. *)
OpenedOnce(r) == r

(* BackendRecoveryState::allow_restart: the window that opens anew, the    *)
(* cooldown and the cap, and the attempt it records.                       *)
Opened(r) == IF r.window > Window THEN [r EXCEPT !.window = 0, !.attempts = 0] ELSE r
Allows(r) == r.last >= Cooldown /\ Opened(r).attempts < MaxAttempts
Recorded(r) == [Opened(r) EXCEPT !.attempts = @ + 1, !.last = 0]

(* backend::select over platform::detect: a wedged daemon does not answer  *)
(* within the probe's timeout and counts as absent.                        *)
Selected == CASE docker = "up" -> "chosen"
              [] docker = "weak" -> "blocked"
              [] OTHER -> "none"

(* Where a pass without a restart goes on. *)
NoHelp == IF serving THEN "serve" ELSE "retry"

----------------------------------------------------------------------------
(* Startup. *)

(* A selection that takes p and may end the wait: the serve loop begins    *)
(* with a BackendRecoveryState of its own.                                 *)
Ends(p) ==
    /\ serving' = (Selected = "chosen")
    /\ left' = LeftAfter(p)
    /\ recovery' = IF serving' THEN FreshRecovery ELSE Aged(recovery, p)

(* The head of the loop of wait_for_backend. *)
Select ==
    /\ step = "select"
    /\ \E p \in 0..ProbeTime : Ends(p)
    /\ step' = CASE Selected = "chosen" -> "serve"
                 [] Selected = "blocked" -> "gave up"
                 [] OTHER -> "reach"
    /\ UNCHANGED <<gateAsks, docker, command, poll, wait>>

(* The deadline has passed: choose_backend looks once more and gives up. *)
LastChance ==
    /\ step = "last chance"
    /\ \E p \in 0..ProbeTime : Ends(p)
    /\ step' = IF Selected = "chosen" THEN "serve" ELSE "gave up"
    /\ UNCHANGED <<gateAsks, docker, command, poll, wait>>

(* Sleeps: after a restart, before the next look, between iterations. *)
Rest ==
    /\ step \in {"quick", "retry"}
    /\ Elapses(IF step = "quick" THEN Quick ELSE wait)
    /\ step' = "select"
    /\ UNCHANGED <<gateAsks, docker, command, poll, wait, serving>>

----------------------------------------------------------------------------
(* An iteration of the serve loop reconciles (ensure_count_outcome) and    *)
(* sleeps.  First comes the containment gate: a mac, a host declared a VM  *)
(* and a conforming slice satisfy it whatever Docker does; a Linux host    *)
(* with none of these needs the kernel of a daemon in a VM, so a daemon    *)
(* that does not answer closes the gate.  A closed gate is no failure:     *)
(* admission is paused and the loop sleeps, with no thought of a restart.  *)
HostGate ==
    /\ step = "serve"
    /\ \/ /\ gateAsks => docker \in {"up", "weak"}
          /\ step' = "ensure"
          /\ Elapses(0)
       \/ /\ gateAsks
          /\ step' = "serve"
          /\ Elapses(Retry)
    /\ UNCHANGED <<gateAsks, docker, command, poll, wait, serving>>

(* Behind the gate a reconciliation that fails, because of Docker or of    *)
(* GitHub, asks for a restart.                                             *)
Reconcile ==
    /\ step = "ensure"
    /\ \/ docker \in {"up", "weak"} /\ step' = "serve"
       \/ step' = "reach"
    /\ Elapses(Retry)
    /\ UNCHANGED <<gateAsks, docker, command, poll, wait, serving>>

----------------------------------------------------------------------------
(* maybe_restart_backend. *)

(* docker_reachable runs docker info without a timeout: it answers unless  *)
(* the daemon is wedged.                                                   *)
Reach ==
    /\ step = "reach"
    /\ docker # "wedged"
    /\ \E p \in 0..ProbeTime : Elapses(p)
    /\ step' = IF ~serving /\ left' <= 0 THEN "last chance"
               ELSE IF docker \in {"up", "weak"} THEN NoHelp ELSE "help"
    /\ wait' = IF serving THEN Retry ELSE Least(Retry, IF left' > 0 THEN left' ELSE 0)
    /\ UNCHANGED <<gateAsks, docker, command, poll, serving>>

(* ... and while it is wedged time goes by. *)
Hang ==
    /\ step \in {"reach", "health"}
    /\ docker = "wedged"
    /\ Elapses(1)
    /\ UNCHANGED <<gateAsks, step, docker, command, poll, wait, serving>>

(* backend_restart_can_help, then allow_restart. *)
Help ==
    /\ step = "help"
    /\ \E p \in 0..ProbeTime :
          LET r == Aged(recovery, p)
              allowed == Selected # "blocked" /\ Allows(r)
          IN  /\ left' = LeftAfter(p)
              /\ recovery' = IF Selected = "blocked" THEN r
                             ELSE IF allowed THEN Recorded(r) ELSE Opened(r)
              /\ step' = IF allowed THEN "command" ELSE NoHelp
    /\ command' = 1
    /\ UNCHANGED <<gateAsks, docker, poll, wait, serving>>

(* No budget for the next command, or no command left. *)
Skip ==
    /\ step = "command"
    /\ command > Commands \/ RestartTimeout = 0
    /\ step' = NoHelp
    /\ UNCHANGED <<gateAsks, docker, left, recovery, command, poll, wait, serving>>

Running == step = "command" /\ command <= Commands /\ RestartTimeout > 0

(* A command that exits 0, having started the VM or not. *)
CommandSucceeds ==
    /\ Running
    /\ \E d \in 0..RestartTimeout :
          /\ Elapses(d)
          /\ poll' = HealthTimeout(IF left - d > 0 THEN left - d ELSE 0)
    /\ docker' \in IF docker = "down" THEN {"down", "up"} ELSE {docker}
    /\ step' = "health"
    /\ UNCHANGED <<gateAsks, command, wait, serving>>

(* One that is missing, exits non-zero, or is killed at its timeout. *)
CommandFails ==
    /\ Running
    /\ \E d \in 0..RestartTimeout : Elapses(d)
    /\ command' = command + 1
    /\ UNCHANGED <<gateAsks, step, docker, poll, wait, serving>>

(* poll_backend_healthy: one look per unit until the poll's time is up. *)
Health ==
    /\ step = "health"
    /\ docker # "wedged"
    /\ IF docker \in {"up", "weak"}
       THEN /\ step' = IF serving THEN "serve" ELSE "quick"
            /\ Elapses(0)
            /\ UNCHANGED poll
       ELSE IF poll = 0
       THEN /\ step' = NoHelp
            /\ Elapses(0)
            /\ UNCHANGED poll
       ELSE /\ Elapses(1)
            /\ poll' = poll - 1
            /\ UNCHANGED step
    /\ UNCHANGED <<gateAsks, docker, command, wait, serving>>

----------------------------------------------------------------------------
(* The VM boots, crashes, or stops answering on its own. *)
DockerChanges ==
    /\ step # "gave up"
    /\ docker' \in ({"up"} \cup Outages) \ {docker}
    /\ UNCHANGED <<gateAsks, step, left, recovery, command, poll, wait, serving>>

RecoveryInit ==
    /\ gateAsks \in BOOLEAN
    /\ step = "select"
    /\ docker \in {"up"} \cup Outages
    /\ left = StartBudget
    /\ recovery = FreshRecovery
    /\ command = 1
    /\ poll = 0
    /\ wait = 0
    /\ serving = FALSE

Daemon == \/ Select \/ LastChance \/ Rest \/ HostGate \/ Reconcile \/ Reach \/ Help
          \/ Skip \/ CommandSucceeds \/ CommandFails \/ Health

GaveUp == step = "gave up" /\ UNCHANGED recoveryVars

RecoveryNext == Daemon \/ Hang \/ DockerChanges \/ GaveUp

RecoverySpec ==
    RecoveryInit /\ [][RecoveryNext]_recoveryVars /\ WF_recoveryVars(Daemon)

----------------------------------------------------------------------------
(* The comment of wait_for_backend: it never blocks meaningfully past its  *)
(* deadline (the unit's TimeoutStartSec), however long restart commands    *)
(* and health polls take: four probes at most.                             *)
StartsInTime == left >= -Slack

(* While the daemon serves, a VM that stays down is restarted again and    *)
(* again on a host whose containment gate does not need Docker's answer:   *)
(* the cooldown and the cap of a window delay attempts and never end them. *)
Outage == serving /\ docker = "down"
RestartsKeepComing == ~gateAsks /\ <>[]Outage => []<>(step = "command")

(* README.md, "Host-survival failure ladder", says it of every host: the   *)
(* daemon keeps its ability to start an unreachable backend after a        *)
(* genuine reachability failure.                                           *)
UnreachableBackendStarted == <>[]Outage => []<>(step = "command")
=============================================================================
