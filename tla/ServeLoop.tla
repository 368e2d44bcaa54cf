----------------------------- MODULE ServeLoop -----------------------------
(***************************************************************************)
(* The supervision loop of "ezgha serve" (src/main.rs): one thread that    *)
(* alternates a full reconciliation (ensure_count_outcome, which calls     *)
(* GitHub and Docker) with short local polls while a refill settles, and   *)
(* decides from what each one shows how long to sleep, whom to alert and   *)
(* what still has to be proved about the fleet.                            *)
(*                                                                         *)
(* The fleet is two counters, the containers that are up and those whose   *)
(* listener or worker runs.  Time is counted in units of one settling poll *)
(* interval (5 s).  Every age saturates at the largest value the code      *)
(* compares it with, so the model needs no bound on the length of a run.   *)
(* The restart that follows a failed reconciliation is left open here and  *)
(* detailed in module BackendRecovery.                                     *)
(***************************************************************************)
EXTENDS Naturals

CONSTANTS
    Count,        \* runner.count
    ServeTick,    \* runner.serve_tick_seconds
    PollTick,     \* MIN_SERVE_TICK_SECONDS
    RestartNap,   \* the 8 s after a backend restart
    MaxPolls,     \* MAX_SETTLING_POLLS
    MaxSettle,    \* MAX_SETTLING_DURATION
    Sustain,      \* SETTLING_CEILING_MIN_SUSTAIN
    Threshold,    \* alert.failure_alert_threshold, at least 1 where it is used
    DeadmanAfter, \* alert.deadman_threshold_seconds
    PassTime,     \* how long a reconciliation takes
    ProbeBudget,  \* LOCAL_READINESS_BUDGET, the longest a local poll takes
    Faults        \* subset of {"pause", "start", "probe", "ensure", "alert"}

ASSUME ConstantsAssumption ==
    /\ {Count, PollTick, MaxPolls, MaxSettle, Sustain, Threshold,
        DeadmanAfter, PassTime} \subseteq Nat \ {0}
    /\ {ServeTick, RestartNap, ProbeBudget} \subseteq Nat
    /\ PollTick <= ServeTick

VARIABLES
    pc,         \* "top", "middle", "sleep", "drain" or "stopped"
    stop,       \* SHUTDOWN, set by the signal handler
    alive,      \* containers of this fleet that are up
    ready,      \* those of them whose listener or worker runs
    settling,   \* the local polling episode, or NoEpisode
    pending,    \* pending_readiness
    immediate,  \* previous_post_refill_capacity_immediate
    streak,     \* ensure_fail_streak, saturating
    ceilings,   \* SettlingCeilingState: [n, age], age NoShortfall if none
    idle,       \* age of DeadManState.last_successful
    decision,   \* what the last pass or poll decided
    alerts      \* the alerts the last step raised

fleet == <<alive, ready>>
vars == <<pc, stop, alive, ready, settling, pending, immediate, streak,
          ceilings, idle, decision, alerts>>

----------------------------------------------------------------------------
NoEpisode == [age |-> 0, attempts |-> 0, best |-> Count + 1]
NoShortfall == Sustain + 1

EnsureDecisions == {"StartSettling", "Recovered", "CapacityLost",
                    "SlotsReleased", "IncompleteReadiness", "AdmissionPaused"}
PollDecisions == {"Continue", "Settled", "Ceiling"}
Decisions == EnsureDecisions \cup PollDecisions \cup {"Failed", "Restarted"}

TypeOK ==
    /\ pc \in {"top", "middle", "sleep", "drain", "stopped"}
    /\ {stop, pending, immediate} \subseteq BOOLEAN
    /\ alive \in 0..Count
    /\ ready \in 0..alive
    /\ settling \in [age : 0..(MaxSettle + PollTick + ProbeBudget),
                     attempts : 0..MaxPolls, best : 0..(Count + 1)]
    /\ streak \in 0..(2 * Threshold)
    /\ ceilings \in [n : 0..Threshold, age : 0..NoShortfall]
    /\ idle \in 0..DeadmanAfter
    /\ decision \in Decisions
    /\ alerts \subseteq {"ensure", "settling", "selftest"}

----------------------------------------------------------------------------
(* Clocks. *)

AtMost(n, cap) == IF n > cap THEN cap ELSE n

AgedCeilings(d) ==
    IF ceilings.age = NoShortfall THEN ceilings
    ELSE [ceilings EXCEPT !.age = AtMost(@ + d, Sustain)]

AgedEpisode(d) ==
    IF settling = NoEpisode THEN NoEpisode ELSE [settling EXCEPT !.age = @ + d]

(* notify_delivery: the transports of an alert may fail. *)
Delivered(raised, heard) ==
    heard \in IF raised = {} THEN {FALSE}
              ELSE IF "alert" \in Faults THEN BOOLEAN ELSE {TRUE}

----------------------------------------------------------------------------
(* Decisions: pure functions of main.rs. *)

(* Mutant: every ceiling restarts the clock of the shortage. *)
RecordedCeilingRestarted(c) ==
    IF c.age < Sustain \/ c.age = NoShortfall THEN [c EXCEPT !.age = 0]
    ELSE [c EXCEPT !.n = AtMost(@ + 1, Threshold)]

(* record_settling_ceiling_at: only a shortage that lasted is counted. *)
RecordedCeiling(c) ==
    IF c.age = NoShortfall THEN [c EXCEPT !.age = 0]
    ELSE IF c.age < Sustain THEN c
    ELSE [c EXCEPT !.n = AtMost(@ + 1, Threshold)]

CeilingPages(c) == c.age = Sustain /\ c.n + 1 >= Threshold

Recovery == [n |-> 0, age |-> NoShortfall]

(* ensure_success_decision, of an EnsureCountOutcome. *)
SuccessDecision(o) ==
    CASE o.paused          -> "AdmissionPaused"
      [] ~o.paused /\ o.lost -> "CapacityLost"
      [] ~o.paused /\ ~o.lost /\ o.freed -> "SlotsReleased"
      [] ~o.paused /\ ~o.lost /\ ~o.freed /\ o.unread -> "IncompleteReadiness"
      [] OTHER -> IF o.short > 0 THEN "StartSettling" ELSE "Recovered"

Immediate(d) == d \in {"CapacityLost", "SlotsReleased"}

(* Mutant: a full count of containers clears the pending proof.            *)
PendingDecisionForgotten(d) ==
    IF immediate /\ Immediate(d) THEN "StartSettling" ELSE d

(* ensure_success_decision_with_pending_readiness. *)
PendingDecision(d) ==
    IF \/ immediate /\ Immediate(d)
       \/ pending /\ d = "Recovered"
    THEN "StartSettling" ELSE d

(* The executing count a settling episode starts from. *)
StartsFrom(raw, o) ==
    IF raw = "Recovered" THEN 0 ELSE Count - o.short

(* ensure_outcome_may_credit_deadman. *)
Credits(o) ==
    /\ ~o.paused /\ ~o.failed /\ ~o.unread /\ ~o.lost /\ ~o.freed
    /\ o.short = 0

(* SettlingEpisode::observe, and the absent containers that pre-empt it. *)
Observed(e, count, absent) ==
    LET more == e.attempts + 1 IN
    CASE absent /\ count < Count -> "Ceiling"
      [] ~(absent /\ count < Count) /\ count >= Count -> "Settled"
      [] OTHER -> IF \/ count < e.best
                     \/ more >= MaxPolls
                     \/ e.age >= MaxSettle
                  THEN "Ceiling" ELSE "Continue"

(* ensure_success_plan and settling_plan: how long to sleep. *)
Nap(d) ==
    CASE d \in {"StartSettling", "Continue"} -> PollTick
      [] d \in {"Recovered", "Settled", "AdmissionPaused", "Failed"} -> ServeTick
      [] d \in {"CapacityLost", "SlotsReleased", "IncompleteReadiness",
                "Ceiling"} -> 0
      [] d = "Restarted" -> RestartNap

----------------------------------------------------------------------------
(* The fleet and the operator. *)

(* A one-job container ends, idle or busy. *)
Exit ==
    /\ alive > 0
    /\ alive' = alive - 1
    /\ ready' \in {n \in {ready, ready - 1} : n >= 0 /\ n <= alive'}
    /\ UNCHANGED <<pc, stop, settling, pending, immediate, streak, ceilings,
                   idle, decision, alerts>>

(* A started container's listener comes up. *)
Listen ==
    /\ ready < alive
    /\ ready' = ready + 1
    /\ UNCHANGED <<pc, stop, alive, settling, pending, immediate, streak,
                   ceilings, idle, decision, alerts>>

(* SIGTERM or SIGINT: handle_signal only stores the flag. *)
Signal ==
    /\ ~stop
    /\ pc # "stopped"
    /\ stop' = TRUE
    /\ UNCHANGED <<pc, fleet, settling, pending, immediate, streak, ceilings,
                   idle, decision, alerts>>

----------------------------------------------------------------------------
(* A full reconciliation. *)

(* notify_ensure_failure. *)
EnsureAlert(n) == IF n >= Threshold THEN {"ensure"} ELSE {}

(* apply_ensure_outcome_to_failure_streak. *)
StreakAfter(o) ==
    IF o.failed THEN AtMost(streak + 1, 2 * Threshold)
    ELSE IF o.paused THEN streak ELSE 0

(* What the loop does with the outcome o of a reconciliation that ended    *)
(* well: decide, record, alert, and credit the dead-man clock.             *)
Conclude(o) ==
    LET raw == SuccessDecision(o)
        d == PendingDecision(raw)
        c == AgedCeilings(PassTime)
        stuck == d \in {"CapacityLost", "IncompleteReadiness"}
        raised == (IF o.failed THEN EnsureAlert(StreakAfter(o)) ELSE {})
                  \cup (IF stuck /\ CeilingPages(c) THEN {"settling"} ELSE {})
    IN  /\ decision' = d
        /\ immediate' = Immediate(d)
        /\ streak' = StreakAfter(o)
        /\ ceilings' = IF d = "Recovered" THEN Recovery
                       ELSE IF stuck THEN RecordedCeiling(c) ELSE c
        /\ settling' = IF d = "StartSettling"
                       THEN [age |-> 0, attempts |-> 0, best |-> StartsFrom(raw, o)]
                       ELSE NoEpisode
        /\ pending' = IF d = "Recovered" THEN FALSE
                      ELSE IF d = "AdmissionPaused" THEN pending ELSE TRUE
        /\ idle' = IF Credits(o) THEN 0 ELSE AtMost(idle + PassTime, DeadmanAfter)
        /\ alerts' = raised
        /\ pc' = "middle"
        /\ UNCHANGED stop

Reconciling == pc = "top" /\ ~stop /\ settling = NoEpisode

Outcome(paused, failed, unread, lost, freed, short) ==
    [paused |-> paused, failed |-> failed, unread |-> unread,
     lost |-> lost, freed |-> freed, short |-> short]

(* A gate refuses before anything is started (admission_paused_outcome):   *)
(* the containment gate does not count the fleet, the later ones do.       *)
EnsureRefused ==
    /\ Reconciling
    /\ "pause" \in Faults
    /\ UNCHANGED fleet
    /\ \E short \in {Count, Count - alive} :
          /\ short > 0
          /\ Conclude(Outcome(TRUE, FALSE, FALSE, FALSE, FALSE, short))

(* Every configured container is up: nothing is started, nothing probed. *)
EnsureFull ==
    /\ Reconciling
    /\ alive = Count
    /\ UNCHANGED fleet
    /\ Conclude(Outcome(FALSE, FALSE, FALSE, FALSE, FALSE, 0))

(* A refill: of the missing runners some start, some fail, and some wait   *)
(* for an occupied reservation; others end meanwhile.  The recount lists   *)
(* the containers and probes their listeners; a probe that does not finish *)
(* leaves the shortage of containers.  The failure ladder may close        *)
(* admission in the middle of the batch.                                   *)
EnsureRefills ==
    /\ Reconciling
    /\ alive < Count
    /\ \E gone \in 0..alive, started \in 0..(Count - alive) :
       \E n \in 0..(alive - gone + started) :
       \E unread \in IF "probe" \in Faults THEN BOOLEAN ELSE {FALSE},
          paused \in IF "pause" \in Faults THEN BOOLEAN ELSE {FALSE},
          failed \in IF "start" \in Faults /\ started < Count - alive
                     THEN BOOLEAN ELSE {FALSE},
          freed \in IF alive - gone + started < Count THEN BOOLEAN ELSE {FALSE} :
            /\ alive' = alive - gone + started
            /\ ready' = n
            /\ Conclude(Outcome(paused, failed, unread, gone > 0, freed,
                                Count - (IF unread THEN alive' ELSE n)))

(* ensure_count_outcome returns an error (Docker cannot be listed, the     *)
(* refill or its recount fails), perhaps after it started runners.  The    *)
(* backend may then be restarted.                                          *)
EnsureFails ==
    /\ Reconciling
    /\ "ensure" \in Faults
    /\ \E n \in alive..Count : alive' = n /\ ready' = ready
    /\ streak' = AtMost(streak + 1, 2 * Threshold)
    /\ decision' \in {"Failed", "Restarted"}
    /\ immediate' = FALSE
    /\ ceilings' = AgedCeilings(PassTime)
    /\ idle' = AtMost(idle + PassTime, DeadmanAfter)
    /\ alerts' = EnsureAlert(streak')
    /\ pc' = "middle"
    /\ UNCHANGED <<stop, settling, pending>>

----------------------------------------------------------------------------
(* A local poll of a settling episode. *)

(* What the loop does with what the poll decided. *)
Settle(d, e, took) ==
    LET c == AgedCeilings(took)
        raised == IF d = "Ceiling" /\ CeilingPages(c) THEN {"settling"} ELSE {}
    IN  /\ decision' = d
        /\ settling' = IF d = "Continue" THEN e ELSE NoEpisode
        /\ pending' = CASE d = "Settled" -> FALSE
                        [] d = "Ceiling" -> TRUE
                        [] OTHER -> pending
        /\ ceilings' = CASE d = "Settled" -> Recovery
                         [] d = "Ceiling" -> RecordedCeiling(c)
                         [] OTHER -> c
        /\ idle' = AtMost(idle + took, DeadmanAfter)
        /\ alerts' = raised
        /\ pc' = "middle"
        /\ UNCHANGED <<stop, fleet, immediate, streak>>

Polling == pc = "top" /\ ~stop /\ settling # NoEpisode

(* local_executing_runner_count answers within its budget: the runners     *)
(* that are ready, and whether a listed container had vanished.            *)
Poll ==
    /\ Polling
    /\ \E took \in 0..ProbeBudget, absent \in BOOLEAN :
          LET e == AgedEpisode(took)
              d == Observed(e, ready, absent)
          IN  Settle(d, [e EXCEPT !.attempts = @ + 1,
                                  !.best = IF ready > @ THEN ready ELSE @],
                     took)

(* ... or it fails, and the episode ends. *)
PollFails ==
    /\ Polling
    /\ "probe" \in Faults
    /\ Settle("Ceiling", NoEpisode, ProbeBudget)

----------------------------------------------------------------------------
(* The rest of the iteration. *)

(* A signal ends the loop at its two checks. *)
Leave ==
    /\ pc \in {"top", "middle"}
    /\ stop
    /\ pc' = "drain"
    /\ UNCHANGED <<stop, fleet, settling, pending, immediate, streak, ceilings,
                   idle, decision, alerts>>

(* Monitors are dispatched to their threads (module Monitors); then        *)
(* DeadManState::check sends a self-test once its clock is stale.          *)
Check ==
    /\ pc = "middle"
    /\ ~stop
    /\ pc' = "sleep"
    /\ alerts' = IF idle >= DeadmanAfter THEN {"selftest"} ELSE {}
    /\ \E heard \in BOOLEAN :
          /\ Delivered(alerts', heard)
          /\ idle' = IF heard THEN 0 ELSE idle
    /\ UNCHANGED <<stop, fleet, settling, pending, immediate, streak, ceilings,
                   decision>>

(* sleep_interruptibly: a signal cuts the sleep short. *)
Sleep ==
    /\ pc = "sleep"
    /\ pc' = "top"
    /\ \E d \in IF stop THEN 0..Nap(decision) ELSE {Nap(decision)} :
          /\ settling' = AgedEpisode(d)
          /\ ceilings' = AgedCeilings(d)
          /\ idle' = AtMost(idle + d, DeadmanAfter)
    /\ alerts' = {}
    /\ UNCHANGED <<stop, fleet, pending, immediate, streak, decision>>

(* drain_inflight_registrations, bounded by its deadline (module Drain). *)
Drain ==
    /\ pc = "drain"
    /\ pc' = "stopped"
    /\ UNCHANGED <<stop, fleet, settling, pending, immediate, streak, ceilings,
                   idle, decision, alerts>>

----------------------------------------------------------------------------
Init ==
    /\ pc = "top"
    /\ stop = FALSE
    /\ alive \in 0..Count
    /\ ready \in 0..alive
    /\ settling = NoEpisode
    /\ pending = FALSE
    /\ immediate = FALSE
    /\ streak = 0
    /\ ceilings = Recovery
    /\ idle = 0
    /\ decision = "Recovered"
    /\ alerts = {}

Ensure == EnsureRefused \/ EnsureFull \/ EnsureRefills \/ EnsureFails

Loop == Ensure \/ Poll \/ PollFails \/ Leave \/ Check \/ Sleep \/ Drain

Stopped == pc = "stopped" /\ UNCHANGED vars

Next == Loop \/ Exit \/ Listen \/ Signal \/ Stopped

(* Every call of the loop has a deadline and returns, so the loop goes on. *)
Spec == Init /\ [][Next]_vars /\ WF_vars(Loop)

----------------------------------------------------------------------------
(* Unproven readiness (a runner lost, a refill still settling, a probe     *)
(* that failed) is withdrawn only by a local poll that finds every runner  *)
(* ready: neither a pause, nor an error, nor a pass that only counts       *)
(* containers forgets it.                                                  *)
DoubtNeedsCount == [][pending /\ ~pending' => ready = Count /\ settling # NoEpisode]_vars

(* A settling episode never keeps the loop from GitHub for longer than its *)
(* ceiling and one more poll, however long its probes take.                *)
EpisodesEnd ==
    settling # NoEpisode =>
        /\ settling.attempts < MaxPolls
        /\ settling.age < MaxSettle + PollTick + ProbeBudget

(* As long as the readiness probes answer, the loop never reconciles again *)
(* and again without a rest: each lost runner or freed slot buys one       *)
(* immediate pass.                                                         *)
LoopRests == <>[](decision # "IncompleteReadiness") => []<>(pc = "stopped" \/ Nap(decision) > 0)

(* A fleet whose readiness is never proved again pages the operator,       *)
(* whichever way its passes and polls fail to prove it; a pause and an     *)
(* error have alerts of their own.                                         *)
StuckFleetPages ==
    <>[](pending /\ ~stop /\ decision \notin {"AdmissionPaused", "Failed", "Restarted"})
        => <>("settling" \in alerts)

(* A daemon that is never healthy again keeps testing its alert channels.  *)
SickDaemonSelfTests ==
    <>[](~stop /\ decision \notin {"Recovered", "StartSettling"})
        => []<>("selftest" \in alerts)
=============================================================================
