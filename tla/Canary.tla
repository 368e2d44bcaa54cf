------------------------------- MODULE Canary -------------------------------
(***************************************************************************)
(* The canary of src/canary.rs: every check_interval the serve loop starts *)
(* a thread that dispatches a workflow run to the fleet and polls GitHub   *)
(* until the run completes, misses its start objective or times out, and   *)
(* then alerts the operator of anything but a run that one of this fleet's *)
(* runners started in time after its creation and finished with success.   *)
(*                                                                         *)
(* GitHub's side is one run: "none" until it becomes visible, "queued",    *)
(* "started" while a runner executes it, "completed".  A poll is a read of *)
(* the run (list_workflow_runs and list_workflow_jobs) followed, as a step *)
(* of its own, by the comparison with the deadlines, so the run may go on  *)
(* in between.  Two clocks judge a start: the wait for one is bounded from *)
(* the dispatch, by this process, while a start that was seen is measured  *)
(* from the run's creation, by GitHub's timestamps.                        *)
(***************************************************************************)
EXTENDS Naturals

CONSTANTS
    CanaryEvery,  \* canary.check_interval_seconds
    StartSlo,     \* canary.slo_start_seconds
    PollTimeout,  \* canary.poll_timeout_seconds
    PollEvery,    \* canary.poll_interval_seconds, at least 1
    CanaryFaults  \* subset of {"dispatch", "list", "history", "panic"}

ASSUME CanaryAssumption ==
    {CanaryEvery, StartSlo, PollTimeout, PollEvery} \subseteq Nat \ {0}

VARIABLES
    last,     \* age of last_started_at
    thread,   \* "none", "flying" or "landed", as in PacedFlight
    phase,    \* what the thread does next
    spent,    \* time since the dispatch, saturating past PollTimeout
    due,      \* when the next poll may begin
    run,      \* GitHub: the run
    runner,   \* GitHub: whose runner executes or executed it
    createdAt,\* GitHub: when it was created, or Never
    startedAt,\* GitHub: when its job started, or Never
    success,  \* GitHub: its conclusion, once it completed
    seen,     \* last_result
    warned    \* an alert was raised for this canary

github == <<run, runner, createdAt, startedAt, success>>
canaryVars == <<last, thread, phase, spent, due, run, runner, createdAt,
                startedAt, success, seen, warned>>

Horizon == PollTimeout + PollEvery + 1
Never == Horizon + 1

(* last_result: the run was seen, its time_to_start_seconds on a runner of *)
(* ours (Never stands for None), the conclusion if it completed.           *)
Unseen == [status |-> "dispatched", wait |-> Never, ours |-> FALSE,
           success |-> FALSE, breached |-> FALSE]

CanaryTypeOK ==
    /\ last \in 0..CanaryEvery
    /\ thread \in {"none", "flying", "landed"}
    /\ phase \in {"none", "read", "judge", "record", "ended", "failed"}
    /\ spent \in 0..Horizon
    /\ due \in 0..(Horizon + PollEvery)
    /\ run \in {"none", "queued", "started", "completed"}
    /\ runner \in {"nobody", "ours", "foreign"}
    /\ createdAt \in 0..Never
    /\ startedAt \in 0..Never
    /\ success \in BOOLEAN
    /\ seen \in [status : {"dispatched", "queued", "started", "completed", "timeout"},
                 wait : 0..Never, ours : BOOLEAN, success : BOOLEAN,
                 breached : BOOLEAN]
    /\ warned \in BOOLEAN

----------------------------------------------------------------------------
(* The scheduler: maybe_check. *)

Collect ==
    /\ thread = "landed"
    /\ thread' = "none"
    /\ phase' = "none"
    /\ UNCHANGED <<last, spent, due, github, seen, warned>>

(* run_once in a new thread: the dispatch of the workflow. *)
Start ==
    /\ thread = "none"
    /\ last = CanaryEvery
    /\ last' = 0
    /\ run' = "none" /\ runner' = "nobody" /\ success' = FALSE
    /\ createdAt' = Never /\ startedAt' = Never
    /\ spent' = 0 /\ due' = 0
    /\ seen' = Unseen
    /\ warned' = FALSE
    /\ thread' = "flying"
    /\ phase' \in {"read"} \cup (IF "dispatch" \in CanaryFaults THEN {"failed"} ELSE {})

----------------------------------------------------------------------------
(* The thread. *)

(* find_run_by_nonce, correlate_run_job: of the dispatched run, the job    *)
(* that a runner with this fleet's prefix has; a foreign one's is passed   *)
(* over.                                                                   *)
Correlated == run # "none" /\ runner = "ours"

(* duration_between the run's created_at and its job's started_at, never   *)
(* below 0.                                                                *)
TimeToStart ==
    IF ~Correlated \/ startedAt = Never THEN Never
    ELSE IF startedAt > createdAt THEN startedAt - createdAt ELSE 0

(* result_from_run_jobs: a job counts as started when a runner with this   *)
(* fleet's prefix has it; the times are GitHub's.                          *)
Result ==
    [status |-> IF run = "completed" THEN "completed"
                ELSE IF Correlated THEN "started" ELSE "queued",
     wait |-> TimeToStart,
     ours |-> Correlated,
     success |-> run = "completed" /\ success,
     breached |-> IF TimeToStart # Never THEN TimeToStart > StartSlo
                  ELSE run = "completed"]

Read ==
    /\ phase = "read"
    /\ spent >= due
    /\ seen' = IF run = "none" THEN seen ELSE Result
    /\ phase' = IF seen'.status = "completed" THEN "record" ELSE "judge"
    /\ UNCHANGED <<last, thread, spent, due, github, warned>>

(* A list that fails ends the canary without a verdict. *)
ReadFails ==
    /\ phase = "read"
    /\ spent >= due
    /\ "list" \in CanaryFaults
    /\ phase' = "failed"
    /\ UNCHANGED <<last, thread, spent, due, github, seen, warned>>

(* The deadlines, compared with the clock after the read. *)
Judge ==
    /\ phase = "judge"
    /\ IF \/ seen.wait = Never /\ spent >= StartSlo
          \/ spent >= PollTimeout
       THEN /\ seen' = [seen EXCEPT !.status = "timeout", !.breached = TRUE]
            /\ phase' = "record"
            /\ UNCHANGED due
       ELSE /\ due' = IF spent + PollEvery < PollTimeout
                      THEN spent + PollEvery ELSE PollTimeout
            /\ phase' = "read"
            /\ UNCHANGED seen
    /\ UNCHANGED <<last, thread, spent, github, warned>>

(* Mutant: a run that is late is no failure. *)
ShouldAlertUnlessLate == seen.status = "completed" /\ (~seen.success \/ ~seen.ours)

(* should_alert. *)
ShouldAlert ==
    \/ seen.breached
    \/ seen.status = "completed" /\ (~seen.success \/ ~seen.ours)

(* append_history, whose failure ends the canary, then the alert. *)
Record ==
    /\ phase = "record"
    /\ \/ warned' = ShouldAlert /\ phase' = "ended"
       \/ "history" \in CanaryFaults /\ phase' = "failed" /\ UNCHANGED warned
    /\ UNCHANGED <<last, thread, spent, due, github, seen>>

Land ==
    /\ phase \in {"ended", "failed"}
    /\ thread = "flying"
    /\ thread' = "landed"
    /\ UNCHANGED <<last, phase, spent, due, github, seen, warned>>

CanaryPanics ==
    /\ "panic" \in CanaryFaults
    /\ thread = "flying"
    /\ phase \in {"read", "judge", "record"}
    /\ phase' = "failed"
    /\ UNCHANGED <<last, thread, spent, due, github, seen, warned>>

----------------------------------------------------------------------------
(* GitHub and time. *)

(* A run becomes visible at any time after its creation. *)
RunGoesOn ==
    /\ thread = "flying"
    /\ \/ /\ run = "none"
          /\ run' = "queued"
          /\ createdAt' \in 0..spent
          /\ UNCHANGED <<runner, startedAt, success>>
       \/ /\ run = "queued"
          /\ run' = "started"
          /\ runner' \in {"ours", "foreign"}
          /\ startedAt' = spent
          /\ UNCHANGED <<createdAt, success>>
       \/ /\ run \in {"queued", "started"}
          /\ run' = "completed"
          /\ success' \in BOOLEAN
          /\ run = "queued" => ~success'
          /\ UNCHANGED <<runner, createdAt, startedAt>>
    /\ UNCHANGED <<last, thread, phase, spent, due, seen, warned>>

(* A read and a comparison take no longer than a unit. *)
Elapse ==
    /\ last < CanaryEvery \/ (thread = "flying" /\ spent < Horizon)
    /\ phase \in {"read", "judge"} => spent <= due
    /\ last' = IF last < CanaryEvery THEN last + 1 ELSE last
    /\ spent' = IF thread = "flying" /\ spent < Horizon THEN spent + 1 ELSE spent
    /\ UNCHANGED <<thread, phase, due, github, seen, warned>>

(* CanaryDaemonState::new starts the interval anew. *)
CanaryInit ==
    /\ last = 0
    /\ thread = "none"
    /\ phase = "none"
    /\ spent = 0 /\ due = 0
    /\ run = "none" /\ runner = "nobody" /\ success = FALSE
    /\ createdAt = Never /\ startedAt = Never
    /\ seen = Unseen
    /\ warned = FALSE

CanaryStep == Collect \/ Start \/ Read \/ ReadFails \/ Judge \/ Record \/ Land
              \/ CanaryPanics

CanaryNext == CanaryStep \/ RunGoesOn \/ Elapse

CanarySpec ==
    /\ CanaryInit /\ [][CanaryNext]_canaryVars
    /\ WF_canaryVars(CanaryStep) /\ WF_canaryVars(Elapse)

----------------------------------------------------------------------------
(* The canary thread is a paced, single flight. *)
CanaryFlight == INSTANCE PacedFlight
                WITH Gap <- CanaryEvery, flight <- thread, since <- last
CanaryPaced == CanaryFlight!Spec

(* A canary that ends without an alert saw its run completed with success, *)
(* by a runner of this fleet that started within the objective, counted as *)
(* the code counts it: from the run's creation, not from the dispatch.     *)
SilenceIsGood ==
    phase = "ended" /\ ~warned =>
        /\ run = "completed" /\ success /\ runner = "ours"
        /\ startedAt # Never /\ startedAt <= createdAt + StartSlo

=============================================================================
