------------------------------ MODULE Monitors ------------------------------
(***************************************************************************)
(* The queue monitor of src/queue_monitor.rs.  The serve loop offers       *)
(* QueueMonitorScheduler a dispatch in every iteration; a due one moves    *)
(* the monitor's state into a worker thread, which runs one tick           *)
(* (drive_with_fetcher) and hands the state back when it is collected.     *)
(* The tick asks GitHub for the REST budget, fetches the fleet and the     *)
(* queues, and feeds two consumers, the queue monitor and the invariant    *)
(* sampler, each with an interval of its own.                              *)
(*                                                                         *)
(* Time is counted in serve ticks at the finest the intervals need; ages   *)
(* saturate at the interval they are compared with.                        *)
(***************************************************************************)
EXTENDS Naturals

CONSTANTS
    ServeTick,     \* runner.serve_tick_seconds
    CheckEvery,    \* queue_monitor.check_interval_seconds
    SampleEvery,   \* invariant_sampler.check_interval_seconds
    HitThreshold,  \* REST_BUDGET_FLOOR_HIT_BACKOFF_THRESHOLD
    SkipTicks,     \* REST_BUDGET_FLOOR_HIT_BACKOFF_TICKS
    AlertAfter,    \* queue_monitor.consecutive_bad_threshold
    Quiet,         \* cap of the history variable quiet
    MonitorFaults  \* subset of {"low", "unknown", "fetch", "report", "spawn",
                   \*            "panic"}

ASSUME MonitorsAssumption ==
    /\ {ServeTick, CheckEvery, SampleEvery, HitThreshold, SkipTicks,
        AlertAfter, Quiet} \subseteq Nat \ {0}
    /\ Quiet >= SkipTicks * ServeTick

VARIABLES
    queueAge,   \* age of QueueMonitorState.last_check
    sampleAge,  \* age of InvariantSamplerState.last_check
    bad,        \* consecutive_bad
    hits,       \* rest_budget_consecutive_floor_hits
    skip,       \* rest_budget_skip_ticks_remaining
    held,       \* the scheduler holds the state pair
    attempt,    \* age of last_attempt
    flight,     \* "none", "flying" or "landed", as in PacedFlight
    work,       \* what the worker does next
    alarmed,    \* the alerts of the last step
    quiet,      \* history: time since a probe last told of a low budget
    calm        \* history: nothing fails any more

state == <<queueAge, sampleAge, bad, hits, skip>>
monitorVars == <<queueAge, sampleAge, bad, hits, skip, held, attempt, flight,
                 work, alarmed, quiet, calm>>

MonitorsTypeOK ==
    /\ queueAge \in 0..CheckEvery
    /\ sampleAge \in 0..SampleEvery
    /\ bad \in 0..(2 * AlertAfter)
    /\ hits \in 0..HitThreshold
    /\ skip \in 0..SkipTicks
    /\ held = (flight = "none")
    /\ attempt \in 0..ServeTick
    /\ flight \in {"none", "flying", "landed"}
    /\ work \in {"none", "gate", "probe", "fetch", "queue", "sample", "panicked"}
    /\ alarmed \subseteq {"tail", "invariant"}
    /\ quiet \in 0..Quiet
    /\ calm \in BOOLEAN

May(f) == f \in MonitorFaults /\ ~calm

Cap(n, most) == IF n > most THEN most ELSE n

----------------------------------------------------------------------------
(* The scheduler, on the serve loop's thread. *)

QueueDue == queueAge = CheckEvery
SampleDue == sampleAge = SampleEvery

(* collect_finished: the state pair comes back, or, if the worker          *)
(* panicked, a fresh one is made.                                          *)
Reset ==
    /\ queueAge' = CheckEvery
    /\ sampleAge' = SampleEvery
    /\ bad' = 0 /\ hits' = 0 /\ skip' = 0

CollectFinished ==
    /\ flight = "landed"
    /\ flight' = "none"
    /\ held' = TRUE
    /\ work' = "none"
    /\ IF work = "panicked" THEN Reset ELSE UNCHANGED state
    /\ alarmed' = {}
    /\ UNCHANGED <<attempt, quiet, calm>>

(* Mutant: a due monitor is dispatched in every iteration. *)
PacedNever == TRUE

Paced == attempt = ServeTick

(* dispatch_with_spawner: a due monitor starts, at most once per serve     *)
(* tick, whether the thread can be spawned or not.                         *)
Dispatch ==
    /\ flight = "none"
    /\ Paced
    /\ held
    /\ QueueDue \/ SampleDue
    /\ attempt' = 0
    /\ \/ /\ flight' = "flying"
          /\ held' = FALSE
          /\ work' = "gate"
       \/ /\ May("spawn")
          /\ UNCHANGED <<flight, held, work>>
    /\ alarmed' = {}
    /\ UNCHANGED <<state, quiet, calm>>

(* Time goes by; the serve loop sleeps and reconciles meanwhile. *)
Tick ==
    /\ \/ attempt < ServeTick \/ queueAge < CheckEvery
       \/ sampleAge < SampleEvery \/ quiet < Quiet
    /\ attempt' = Cap(attempt + 1, ServeTick)
    /\ queueAge' = Cap(queueAge + 1, CheckEvery)
    /\ sampleAge' = Cap(sampleAge + 1, SampleEvery)
    /\ quiet' = Cap(quiet + 1, Quiet)
    /\ alarmed' = {}
    /\ UNCHANGED <<bad, hits, skip, held, flight, work, calm>>

----------------------------------------------------------------------------
(* The worker: drive_with_fetcher. *)

(* Mutant: nobody collects a finished worker. *)
FinishUncollected == flight' = "none" /\ work' = "none"

Finish == flight' = "landed" /\ work' = "none"

(* In the back-off after sustained low budget the probe itself is skipped. *)
SkipProbe ==
    /\ work = "gate"
    /\ skip > 0
    /\ skip' = skip - 1
    /\ Finish
    /\ UNCHANGED <<queueAge, sampleAge, bad, hits, quiet>>

Probe ==
    /\ work = "gate"
    /\ skip = 0
    /\ work' = "probe"
    /\ UNCHANGED <<state, flight, quiet>>

(* bump_floor_hit_counter *)
SkipAfter(n) == IF n >= HitThreshold /\ skip = 0 THEN SkipTicks ELSE skip

(* Known(remaining) <= floor: count it, and defer. *)
BudgetLow ==
    /\ work = "probe"
    /\ May("low")
    /\ hits' = Cap(hits + 1, HitThreshold)
    /\ skip' = SkipAfter(hits')
    /\ quiet' = 0
    /\ Finish
    /\ UNCHANGED <<queueAge, sampleAge, bad>>

(* Unknown: defer, and learn nothing. *)
BudgetUnknown ==
    /\ work = "probe"
    /\ May("unknown")
    /\ Finish
    /\ UNCHANGED <<state, quiet>>

BudgetHealthy ==
    /\ work = "probe"
    /\ hits' = 0
    /\ skip' = 0
    /\ work' = "fetch"
    /\ UNCHANGED <<queueAge, sampleAge, bad, flight, quiet>>

(* One fleet and each repository once, for both consumers. *)
Fetch ==
    /\ work = "fetch"
    /\ \/ work' = "queue" /\ UNCHANGED flight
       \/ May("fetch") /\ Finish
    /\ UNCHANGED <<state, quiet>>

(* The queue monitor, if due: last_check, the tail streak, the report.     *)
(* The tail alert waits for AlertAfter bad samples in a row.               *)
CheckQueue ==
    /\ work = "queue"
    /\ IF QueueDue
       THEN /\ queueAge' = 0
            /\ \E tail \in BOOLEAN :
                  bad' = IF tail THEN Cap(bad + 1, 2 * AlertAfter) ELSE 0
            /\ \/ work' = "sample" /\ UNCHANGED flight
               \/ May("report") /\ Finish
       ELSE work' = "sample" /\ UNCHANGED <<queueAge, bad, flight>>
    /\ UNCHANGED <<sampleAge, hits, skip, quiet>>

(* The invariant sampler, if due: last_check, the appended sample, and an  *)
(* alert if it violates an invariant.                                      *)
Sample ==
    /\ work = "sample"
    /\ sampleAge' = IF SampleDue THEN 0 ELSE sampleAge
    /\ Finish
    /\ UNCHANGED <<queueAge, bad, hits, skip, quiet>>

(* The worker unwinds without returning the pair. *)
Panic ==
    /\ flight = "flying"
    /\ May("panic")
    /\ flight' = "landed"
    /\ work' = "panicked"
    /\ UNCHANGED <<state, quiet>>

(* The alerts of a step of the worker.  A sample that cannot be appended   *)
(* raises none.                                                            *)
Alarms ==
    LET tail == IF work = "queue" /\ QueueDue /\ bad' >= AlertAfter
                THEN {"tail"} ELSE {}
    IN  IF work = "sample" /\ SampleDue
        THEN alarmed' \in {{}, {"invariant"}}
        ELSE alarmed' = tail

Worker ==
    /\ \/ SkipProbe \/ Probe \/ BudgetLow \/ BudgetUnknown \/ BudgetHealthy
       \/ Fetch \/ CheckQueue \/ Sample \/ Panic
    /\ Alarms
    /\ UNCHANGED <<held, attempt, calm>>

----------------------------------------------------------------------------
(* From some moment on nothing fails. *)
Calm ==
    /\ ~calm
    /\ calm' = TRUE
    /\ UNCHANGED <<state, held, attempt, flight, work, alarmed, quiet>>

(* QueueMonitorScheduler::new. *)
MonitorsInit ==
    /\ queueAge = CheckEvery
    /\ sampleAge = SampleEvery
    /\ bad = 0 /\ hits = 0 /\ skip = 0
    /\ held = TRUE
    /\ attempt = ServeTick
    /\ flight = "none"
    /\ work = "none"
    /\ alarmed = {}
    /\ quiet = Quiet
    /\ calm = FALSE

Scheduler == CollectFinished \/ Dispatch

MonitorsNext == Scheduler \/ Tick \/ Worker \/ Calm

(* Time passes, the serve loop goes on, and every call of the worker has a *)
(* deadline and returns.                                                   *)
MonitorsSpec ==
    /\ MonitorsInit /\ [][MonitorsNext]_monitorVars
    /\ WF_monitorVars(Scheduler) /\ WF_monitorVars(Tick) /\ WF_monitorVars(Worker)

----------------------------------------------------------------------------
(* The scheduler is a paced, single flight. *)
Flight == INSTANCE PacedFlight WITH Gap <- ServeTick, since <- attempt
FlightPaced == Flight!Spec

(* Once the budget was low HitThreshold times in a row, the next probe is  *)
(* SkipTicks serve ticks away, although the loop may offer a dispatch in   *)
(* every zero-sleep iteration and workers may be slow, fail or end early.  *)
LowBudgetProbesAreRare ==
    [][work = "gate" /\ work' = "probe" /\ hits >= HitThreshold
        => quiet >= SkipTicks * ServeTick]_monitorVars

(* A streak of bad samples survives deferred ticks, failed fetches and     *)
(* failed threads: it shrinks only at a good sample, or when a worker      *)
(* panicked with the state.                                                *)
StreakSurvives ==
    [][bad' < bad => bad' = 0 /\ (work = "panicked" \/ (work = "queue" /\ QueueDue))]_monitorVars

(* Once nothing fails, queue checks and invariant samples keep coming,     *)
(* whatever back-off, streak or panic the failures left behind.            *)
MonitorsResume == <>calm => []<>(queueAge = 0) /\ []<>(sampleAge = 0)
=============================================================================
