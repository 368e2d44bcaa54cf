---------------------------- MODULE QueueHealth ----------------------------
(***************************************************************************)
(* One sample of a repository's queue (src/queue_monitor.rs): the queued   *)
(* runs are listed page by page while GitHub goes on queueing and starting *)
(* them, the jobs of the runs kept are asked for one run at a time, and    *)
(* what was collected by the deadline becomes the two invariants of the    *)
(* fleet and the starvation alerts.                                        *)
(* Runs are numbered in the order they were queued, and GitHub lists the   *)
(* newest first.                                                           *)
(***************************************************************************)
EXTENDS Naturals, Sequences, FiniteSets, SequencesExt

CONSTANTS
    MaxRun,      \* the number of runs that are ever queued
    Age,         \* the age of the job of each run
    RunningAges, \* the ages of the oldest running job, 0 for none
    PageSize,    \* per_page
    JobCap,      \* INVARIANT_JOB_ENUMERATION_CAP, at most a page
    Expected,    \* EXPECTED_FLEET_RUNNERS
    StaleAge,    \* queue_monitor.stale_hours
    TailWarn,    \* queue_monitor.tail_warn_minutes
    TooOld,      \* INVARIANT_DURATION_THRESHOLD_MINUTES
    AlertFrom    \* queue_monitor.consecutive_alert_threshold

ASSUME QueueAssumption ==
    /\ MaxRun \in Nat /\ Age \in [1..MaxRun -> Nat] /\ RunningAges \subseteq Nat
    /\ {PageSize, JobCap, Expected, AlertFrom} \subseteq Nat \ {0} /\ JobCap <= PageSize
    /\ {StaleAge, TailWarn, TooOld} \subseteq Nat

Runs == 1..MaxRun

VARIABLES
    queue,      \* GitHub: the queued runs, newest first
    newest,     \* GitHub: the run queued last
    hosted,     \* GitHub: the runs with a job for a self-hosted runner
    late,       \* SERVE_LOOP_TIME_BUDGET is used up
    step,       \* the call the sample is at
    page,       \* the page to fetch next
    firstPage,  \* page 1 as it was read
    kept,       \* queued_runs, or oldest_runs while the pages are walked
    jobs,       \* the runs whose queued job was collected
    running,    \* the age of the oldest running job collected
    capped,     \* the snapshot is a partial one
    sample,     \* the InvariantSample and the alerts
    snapshot    \* history: the runs queued when page 1 was read

queueVars == <<queue, newest, hosted, late, step, page, firstPage, kept, jobs,
               running, capped, sample, snapshot>>

Status == {"missing", "offline", "offlineBusy", "idle", "busy"}

NoSample == [inv1 |-> TRUE, inv2 |-> TRUE, busy |-> 0, idle |-> 0,
             class |-> "none", oldest |-> 0, alerts |-> {}]

QueueTypeOK ==
    /\ ToSet(queue) \subseteq 1..newest /\ newest \in Runs \cup {0} /\ hosted \subseteq Runs
    /\ late \in BOOLEAN /\ capped \in BOOLEAN
    /\ step \in {"first", "walk", "jobs", "running", "report", "done", "error"}
    /\ page \in 0..Cardinality(Runs)
    /\ ToSet(firstPage) \cup ToSet(kept) \cup ToSet(jobs) \cup snapshot \subseteq Runs
    /\ running \in RunningAges \cup {0}
    /\ sample.inv1 \in BOOLEAN /\ sample.inv2 \in BOOLEAN

----------------------------------------------------------------------------
(* GitHub goes on while the sample is taken.                               *)
Arrive ==
    /\ step \in {"walk", "jobs"}
    /\ newest + 1 \in Runs
    /\ newest' = newest + 1
    /\ queue' = <<newest + 1>> \o queue
    /\ UNCHANGED <<hosted, late, step, page, firstPage, kept, jobs, running,
                   capped, sample, snapshot>>

(* A run is started or cancelled. *)
Depart ==
    /\ step \in {"walk", "jobs"}
    /\ \E i \in DOMAIN queue : queue' = RemoveAt(queue, i)
    /\ UNCHANGED <<newest, hosted, late, step, page, firstPage, kept, jobs, running,
                   capped, sample, snapshot>>

DeadlinePasses ==
    /\ ~late /\ step \in {"walk", "jobs", "running"}
    /\ late' = TRUE
    /\ UNCHANGED <<queue, newest, hosted, step, page, firstPage, kept, jobs, running,
                   capped, sample, snapshot>>

----------------------------------------------------------------------------
(* fetch_capped_queue_snapshot.                                            *)
Least(a, b) == IF a < b THEN a ELSE b

Page(q, p) == SubSeq(q, (p - 1) * PageSize + 1, Least(p * PageSize, Len(q)))
Pages(q)   == (Len(q) + PageSize - 1) \div PageSize
Truncated(s) == SubSeq(s, 1, Least(JobCap, Len(s)))

(* A call that fails, or finds no time left, fails the whole sample. *)
CallFails ==
    /\ step \in {"first", "walk", "jobs", "running"}
    /\ step = "walk" => ~late /\ page > 1
    /\ step = "jobs" => ~late /\ kept # << >>
    /\ step = "running" => ~late
    /\ step' = "error"
    /\ UNCHANGED <<queue, newest, hosted, late, page, firstPage, kept, jobs, running,
                   capped, sample, snapshot>>

ReadFirstPage ==
    /\ step = "first"
    /\ snapshot' = ToSet(queue)
    /\ firstPage' = Page(queue, 1)
    /\ IF Len(queue) <= JobCap
       THEN kept' = Page(queue, 1) /\ step' = "jobs" /\ UNCHANGED page
       ELSE kept' = << >> /\ step' = "walk" /\ page' = Pages(queue)
    /\ UNCHANGED <<queue, newest, hosted, late, jobs, running, capped, sample>>

(* The walk from the last page towards the first. *)
WalkPage ==
    /\ step = "walk" /\ ~late
    /\ LET more == kept \o (IF page = 1 THEN firstPage ELSE Page(queue, page))
       IN  IF Len(more) >= JobCap \/ page = 1
           THEN kept' = Truncated(more) /\ capped' = TRUE /\ step' = "jobs" /\ UNCHANGED page
           ELSE kept' = more /\ page' = page - 1 /\ UNCHANGED <<capped, step>>
    /\ UNCHANGED <<queue, newest, hosted, late, firstPage, jobs, running, sample, snapshot>>

WalkStops ==
    /\ step = "walk" /\ late
    /\ kept' = Truncated(kept) /\ capped' = TRUE /\ step' = "jobs"
    /\ UNCHANGED <<queue, newest, hosted, late, page, firstPage, jobs, running, sample,
                   snapshot>>

(* enumerate_jobs_within_budget over the queued runs: a run that has been  *)
(* started since has no queued job any more.                               *)
AskJobs ==
    /\ step = "jobs" /\ kept # << >> /\ ~late
    /\ jobs' = IF Head(kept) \in hosted \cap ToSet(queue)
               THEN Append(jobs, Head(kept)) ELSE jobs
    /\ kept' = Tail(kept)
    /\ UNCHANGED <<queue, newest, hosted, late, step, page, firstPage, running, capped,
                   sample, snapshot>>

(* Past the deadline the rest of the runs is left out, and the snapshot    *)
(* says so.                                                                *)
Bails(c) == c \/ kept # << >>

JobsEnd ==
    /\ step = "jobs" /\ (kept = << >> \/ late)
    /\ capped' = Bails(capped)
    /\ step' = "running"
    /\ UNCHANGED <<queue, newest, hosted, late, page, firstPage, kept, jobs, running,
                   sample, snapshot>>

AskRunning ==
    /\ step = "running"
    /\ IF late
       THEN running' = 0 /\ capped' = TRUE
       ELSE /\ running' \in RunningAges
            /\ capped' \in {capped, TRUE}
    /\ step' = "report"
    /\ UNCHANGED <<queue, newest, hosted, late, page, firstPage, kept, jobs, sample,
                   snapshot>>

----------------------------------------------------------------------------
(* queue_stats and combine_invariant_sample.                               *)
Most(S) == IF S = {} THEN 0 ELSE CHOOSE a \in S : \A b \in S : b <= a

Ages == {Age[jobs[i]] : i \in DOMAIN jobs}
Fresh == {a \in Ages : a < StaleAge}
StaleOnes == Ages \ Fresh

(* INV-2 makes no exception for a job the tail alert calls stale. *)
OldestQueued == Most(Fresh \cup StaleOnes)

TailBad == Most(Fresh \cup {running}) > TailWarn

(* The fleet as it was listed before the queue. *)
Runners(fleet, S) == Cardinality({n \in 1..Expected : fleet[n] \in S})
Busy(fleet) == Runners(fleet, {"busy", "offlineBusy"})
Idle(fleet) == Runners(fleet, {"idle"})

(* Mutant: a partial snapshot is believed. *)
UtilisationHoldsIfEmpty(busy, partial) == busy >= Expected \/ jobs = << >>

UtilisationHolds(busy, partial) == busy >= Expected \/ (jobs = << >> /\ ~partial)
DurationHolds == OldestQueued <= TooOld /\ running <= TooOld

(* classify_inv1_failure, the worst cause first *)
FailureClass(fleet) ==
    CASE Runners(fleet, {"missing"}) > 0 -> "missing-registration"
      [] Runners(fleet, {"missing"}) = 0 /\ Runners(fleet, {"offline", "offlineBusy"}) > 0
           -> "offline-respawning"
      [] OTHER -> "genuinely-idle"

(* report_queue_health, after consecutive_bad bad samples, and             *)
(* alert_invariant_violation.                                              *)
Told(condition, alert) == IF condition THEN {alert} ELSE {}

Alerts(fleet, bad, holds) ==
    Told(StaleOnes # {}, "stale.zombies")
    \cup Told(Fresh # {} /\ Idle(fleet) > 0, "idle_runner_mismatch")
    \cup Told(TailBad /\ Busy(fleet) >= Expected, "busy_but_starving")
    \cup Told(TailBad /\ bad \in AlertFrom..2 * AlertFrom - 1, "tail")
    \cup Told(TailBad /\ bad >= 2 * AlertFrom, "tail.critical")
    \cup Told(~holds, "invariant.violation")

Report ==
    /\ step = "report"
    /\ \E fleet \in [1..Expected -> Status], bad \in 0..2 * AlertFrom :
          LET inv1 == UtilisationHolds(Busy(fleet), capped)
              inv2 == DurationHolds
          IN  sample' = [inv1 |-> inv1, inv2 |-> inv2, busy |-> Busy(fleet),
                         idle |-> Idle(fleet), oldest |-> OldestQueued,
                         class |-> IF inv1 THEN "none" ELSE FailureClass(fleet),
                         alerts |-> Alerts(fleet, bad, inv1 /\ inv2)]
    /\ step' = "done"
    /\ UNCHANGED <<queue, newest, hosted, late, page, firstPage, kept, jobs, running,
                   capped, snapshot>>

QueueInit ==
    /\ newest \in Runs \cup {0} /\ queue = [i \in 1..newest |-> newest + 1 - i]
    /\ hosted \in SUBSET Runs
    /\ late = FALSE /\ step = "first" /\ page = 0
    /\ firstPage = << >> /\ kept = << >> /\ jobs = << >>
    /\ running = 0 /\ capped = FALSE /\ sample = NoSample /\ snapshot = {}

SampleStep ==
    CallFails \/ ReadFirstPage \/ WalkPage \/ WalkStops \/ AskJobs \/ JobsEnd
    \/ AskRunning \/ Report

QueueNext == SampleStep \/ Arrive \/ Depart \/ DeadlinePasses

(* Every call has a deadline. *)
QueueFairness == WF_queueVars(SampleStep)

QueueSpec == QueueInit /\ [][QueueNext]_queueVars /\ QueueFairness

----------------------------------------------------------------------------
(* The runs that were queued, with a job for this fleet, from the moment   *)
(* the sample read its first page to its end.                              *)
Waiting == snapshot \cap ToSet(queue) \cap hosted

(* An idle fleet satisfies INV-1 only if nothing was waiting: no page left *)
(* unread, no run left out, no deadline makes a queue look empty.          *)
NoFalseEmpty ==
    step = "done" /\ sample.inv1 /\ sample.busy < Expected => Waiting = {}

(* A sample that is not marked as capped and finds INV-2 true has missed   *)
(* no run that waited too long, however stale.  A capped one may have, see *)
(* OldestStaysExact.                                                       *)
NoHiddenWait ==
    step = "done" /\ sample.inv2 /\ ~capped => \A r \in Waiting : Age[r] <= TooOld

(* A fresh job that waits too long while a runner stands idle is alerted   *)
(* in a sample that is not marked as capped.                               *)
IdleCapacityTold ==
    step = "done" /\ ~capped /\ sample.idle > 0 /\ (\E r \in Waiting : Age[r] < StaleAge)
        => "idle_runner_mismatch" \in sample.alerts

(* What the comments of INVARIANT_JOB_ENUMERATION_CAP and of               *)
(* InvariantSample say of capped samples too, as long as the deadline does *)
(* not cut them short: the cap keeps the oldest runs, so the oldest job    *)
(* that waits is exact.                                                    *)
OldestStaysExact ==
    step = "done" /\ ~late => \A r \in Waiting : Age[r] <= sample.oldest

=============================================================================
