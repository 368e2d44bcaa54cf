------------------------------ MODULE Heartbeat ------------------------------
(***************************************************************************)
(* One process of `ezgha serve` under its systemd unit: the steps of the   *)
(* start that take time before READY=1 goes out (main.rs, Commands::Serve),*)
(* the thread that pings the watchdog while the loop works (watchdog.rs),  *)
(* and its end.  How a backend is found is module BackendRecovery, what    *)
(* the checks decide HostLimits and what a drain does Shutdown.            *)
(***************************************************************************)
EXTENDS Naturals

CONSTANTS
    WatchdogTimes, \* WATCHDOG_USEC, or 0 for a unit without WatchdogSec
    LeastBeat,     \* the heartbeat is clamped: 1 s
    MostBeat,      \* and 30 s
    WaitTime,      \* the budget of wait_for_backend
    CheckTime,     \* PROBE_TIMEOUT
    StartTimeout,  \* TimeoutStartSec
    LateBy         \* how late a thread may be scheduled

ASSUME HeartbeatAssumption ==
    /\ WatchdogTimes \subseteq Nat /\ LateBy \in Nat
    /\ {LeastBeat, MostBeat, WaitTime, CheckTime, StartTimeout} \subseteq Nat \ {0}
    /\ LeastBeat <= MostBeat
    /\ \A w \in WatchdogTimes \ {0} :
         LeastBeat + (2 * LateBy) < w /\ (w \div 3) + (2 * LateBy) < w

VARIABLES
    activity,  \* where the process is
    watchdog,  \* the unit's watchdog time
    upFor,     \* time since the process began, and since this step did
    stepFor,
    beat,      \* the thread: "none", "ping", "sleep", "ended"
    nap,       \* what is left of its sleep
    late,      \* how long it has been due
    sincePing, \* time since systemd heard of the process
    dropped    \* the heartbeat was dropped

heartVars == <<activity, watchdog, upFor, stepFor, beat, nap, late, sincePing, dropped>>

Starting == {"contain", "lock", "backend", "burst", "memory"}
Ended == {"exited", "cut", "killed"}

HeartTypeOK ==
    /\ activity \in Starting \cup {"loop", "drain", "join"} \cup Ended
    /\ watchdog \in WatchdogTimes
    /\ upFor \in 0..StartTimeout /\ stepFor \in 0..StartTimeout
    /\ beat \in {"none", "ping", "sleep", "ended"} /\ nap \in 0..MostBeat
    /\ late \in 0..LateBy /\ sincePing \in Nat /\ dropped \in BOOLEAN

----------------------------------------------------------------------------
Between(low, n, high) == IF n < low THEN low ELSE IF n > high THEN high ELSE n

(* heartbeat_interval_from_watchdog_usec. *)
Beat == Between(LeastBeat, watchdog \div 3, MostBeat)

Moves(to) == activity' = to /\ stepFor' = 0

(* require_host_containment, serve.lock, wait_for_backend, and the checks  *)
(* of cpu_burst and of the memory budget follow each other; each of them   *)
(* may end the start.                                                      *)
NextStep ==
    [contain |-> "lock", lock |-> "backend", backend |-> "burst", burst |-> "memory"]

StepDone ==
    /\ activity \in Starting \ {"memory"}
    /\ \/ Moves(NextStep[activity])
       \/ Moves("exited")
    /\ UNCHANGED <<watchdog, upFor, beat, nap, late, sincePing, dropped>>

StepTime(s) ==
    CASE s = "backend" -> WaitTime
      [] s = "lock"    -> 0
      [] OTHER         -> CheckTime

(* mark_service_ready_and_start_watchdog: the heartbeat first, unless the  *)
(* unit has no watchdog or the thread cannot be made, then READY=1.        *)
MarkReady ==
    /\ activity = "memory"
    /\ \/ Moves("exited") /\ UNCHANGED beat
       \/ Moves("loop") /\ beat' \in IF watchdog = 0 THEN {"none"} ELSE {"ping", "none"}
    /\ sincePing' = 0
    /\ UNCHANGED <<watchdog, upFor, nap, late, dropped>>

(* TimeoutStartSec. *)
StartIsCut ==
    /\ activity \in Starting /\ upFor = StartTimeout
    /\ Moves("cut")
    /\ UNCHANGED <<watchdog, upFor, beat, nap, late, sincePing, dropped>>

(* The loop pings too, before each reconcile and before each start. *)
LoopPings ==
    /\ activity = "loop"
    /\ sincePing' = 0
    /\ UNCHANGED <<activity, watchdog, upFor, stepFor, beat, nap, late, dropped>>

(* A signal ends the loop, and the drain follows; the heartbeat is dropped *)
(* last, and joined.                                                       *)
LoopEnds ==
    /\ activity \in {"loop", "drain"}
    /\ IF activity = "loop"
       THEN Moves("drain") /\ UNCHANGED dropped
       ELSE Moves("join") /\ dropped' = TRUE
    /\ UNCHANGED <<watchdog, upFor, beat, nap, late, sincePing>>

Joined ==
    /\ activity = "join" /\ beat \in {"none", "ended"}
    /\ Moves("exited")
    /\ UNCHANGED <<watchdog, upFor, beat, nap, late, sincePing, dropped>>

(* sleep_interruptibly: a slice at a time; the thread looks at the flag    *)
(* after each.                                                             *)
NapLeft == IF nap > 0 /\ ~dropped THEN nap - 1 ELSE 0

BeatStep ==
    /\ activity \notin Ended
    /\ \/ /\ beat = "ping"
          /\ IF dropped THEN beat' = "ended" /\ UNCHANGED <<nap, sincePing>>
                     ELSE beat' = "sleep" /\ nap' = Beat /\ sincePing' = 0
       \/ /\ beat = "sleep" /\ nap = 0
          /\ beat' = "ping" /\ UNCHANGED <<nap, sincePing>>
    /\ late' = 0
    /\ UNCHANGED <<activity, watchdog, upFor, stepFor, dropped>>

WatchdogBites ==
    /\ activity \in {"loop", "drain", "join"} /\ watchdog > 0 /\ sincePing >= watchdog
    /\ Moves("killed")
    /\ UNCHANGED <<watchdog, upFor, beat, nap, late, sincePing, dropped>>

(* A slice of time.  A step of the start keeps to its budget, a step of    *)
(* the loop may take any time; a thread that is due is LateBy late at      *)
(* most.                                                                   *)
Due == beat = "ping" \/ (beat = "sleep" /\ nap = 0)

HeartTime ==
    /\ activity \notin Ended
    /\ activity \in Starting => upFor < StartTimeout /\ stepFor < StepTime(activity)
    /\ activity = "join" => beat # "none" /\ beat # "ended"
    /\ Due => late < LateBy
    /\ late' = IF Due THEN late + 1 ELSE late
    /\ nap' = IF beat = "sleep" THEN NapLeft ELSE nap
    /\ upFor' = IF activity \in Starting THEN upFor + 1 ELSE upFor
    /\ stepFor' = IF activity \in Starting \/ (activity = "join" /\ stepFor < StartTimeout)
                  THEN stepFor + 1 ELSE stepFor
    /\ sincePing' = IF activity \in Starting \/ sincePing >= watchdog THEN sincePing
                    ELSE sincePing + 1
    /\ UNCHANGED <<activity, watchdog, beat, dropped>>

HeartInit ==
    /\ activity = "contain" /\ watchdog \in WatchdogTimes
    /\ upFor = 0 /\ stepFor = 0
    /\ beat = "none" /\ nap = 0 /\ late = 0 /\ sincePing = 0 /\ dropped = FALSE

HeartNext ==
    \/ StepDone \/ MarkReady \/ StartIsCut \/ LoopPings \/ LoopEnds \/ Joined
    \/ BeatStep \/ WatchdogBites \/ HeartTime

HeartSpec == HeartInit /\ [][HeartNext]_heartVars

----------------------------------------------------------------------------
(* The watchdog kills no process that has its heartbeat, however long a    *)
(* step of its loop and the drain take, and however late its thread.  (It  *)
(* follows that it does not notice a loop that hangs.)                     *)
WatchdogSpares == activity = "killed" => beat = "none"

(* The end of the process does not wait for the heartbeat's sleep, only    *)
(* for the slice it is in.                                                 *)
JoinIsPrompt == activity = "join" => stepFor <= 1 + (2 * LateBy)
=============================================================================
