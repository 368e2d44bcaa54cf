------------------------------- MODULE Reaper -------------------------------
(***************************************************************************)
(* The self-heal of a zombie runner, src/reaper.rs: its container is gone, *)
(* GitHub holds it busy with a phantom job and refuses the DELETE.  The    *)
(* daemon lists the in-progress runs of the configured repositories and    *)
(* their jobs, finds the run that pins the runner, cancels it, polls the   *)
(* job, force-cancels, polls again, and deletes the registration.          *)
(*                                                                         *)
(* Module RunnerPool treats all of this as one action on one zombie; here  *)
(* GitHub goes on between any two requests.  Runners are "zombie", "past"  *)
(* (an earlier runner of the same slot, so of the same name) and "other".  *)
(***************************************************************************)
EXTENDS Naturals, FiniteSets

CONSTANTS
  Jobs,         \* 1..n, in the order GitHub lists them
  Runs,         \* the runs of the configured repositories, in that order
  PollAttempts, \* ZOMBIE_RECLAIM_POLL_ATTEMPTS
  ReaperFaults  \* subset of {"list", "cancel", "force", "jobs", "delete"}

ASSUME ReaperAssumption ==
  /\ Jobs \subseteq Nat /\ Runs \subseteq Nat
  /\ PollAttempts \in Nat \ {0}

VARIABLES
  run,        \* GitHub: the run of each job
  runner,     \* GitHub: who took it: "nobody" or a runner
  status,     \* GitHub: "queued", "in_progress" or "completed"
  doomed,     \* GitHub: runs whose cancellation was accepted
  registered, \* GitHub: the zombie's registration
  at,         \* what the daemon does next
  inProgress, \* the runs the daemon listed
  read,       \* those of them whose jobs it has read
  seen,       \* the jobs it read, with runner and status
  plan,       \* the planned job, or NoJob
  polls,      \* polls left of the current phase
  trouble     \* requests may still fail

gitHub == <<run, runner, status, doomed, registered>>
reaper == <<at, inProgress, read, seen, plan, polls>>
reaperVars == <<gitHub, reaper, trouble>>

NoJob == 0
Runners == {"nobody", "zombie", "past", "other"}
Statuses == {"queued", "in_progress", "completed"}
Unread == [runner |-> "nobody", status |-> "queued"]

ReaperTypeOK ==
  /\ run \in [Jobs -> Runs]
  /\ runner \in [Jobs -> Runners]
  /\ status \in [Jobs -> Statuses]
  /\ doomed \subseteq Runs
  /\ registered \in BOOLEAN
  /\ at \in {"idle", "jobs", "plan", "cancel", "poll", "force", "poll again",
             "delete", "nothing found", "ended"}
  /\ inProgress \subseteq Runs
  /\ read \subseteq inProgress
  /\ seen \in [Jobs -> [runner : Runners, status : Statuses]]
  /\ plan \in Jobs \cup {NoJob}
  /\ polls \in 0..PollAttempts
  /\ trouble \in BOOLEAN

May(fault) == fault \in ReaperFaults /\ trouble

First(S) == CHOOSE x \in S : \A y \in S : x <= y

----------------------------------------------------------------------------
(* collect_repo_runs. *)

Active(r) == \E j \in Jobs : run[j] = r /\ status[j] = "in_progress"

ListRuns ==
  /\ at \in {"idle", "nothing found", "ended"}
  /\ registered
  /\ inProgress' = {r \in Runs : Active(r)}
  /\ read' = {}
  /\ seen' = [j \in Jobs |-> Unread]
  /\ plan' = NoJob
  /\ \/ at' = "jobs"
     \/ May("list") /\ at' = "ended"
  /\ UNCHANGED <<gitHub, polls>>

ListJobs(r) ==
  /\ at = "jobs"
  /\ r \in inProgress \ read
  /\ read' = read \cup {r}
  /\ seen' = [j \in Jobs |-> IF run[j] = r
                             THEN [runner |-> runner[j], status |-> status[j]]
                             ELSE seen[j]]
  /\ \/ UNCHANGED at
     \/ May("jobs") /\ at' = "ended"
  /\ UNCHANGED <<gitHub, inProgress, plan, polls>>

----------------------------------------------------------------------------
(* plan_reaper_actions, for one runner and a minimum age of zero. *)

\* job_matches_runner: by the runner's id, or by its name.
Matches(who) == who \in {"zombie", "past"}

JobsSeen(r) == {j \in Jobs : run[j] = r /\ r \in read}

\* Of each run, the first job that matches; the plan is the first run's.
FirstMatch(r) ==
  LET M == {j \in JobsSeen(r) : Matches(seen[j].runner)} IN
  IF M = {} THEN NoJob ELSE First(M)

Planned(r) ==
  /\ FirstMatch(r) # NoJob
  /\ seen[FirstMatch(r)].status = "in_progress"

Plan ==
  /\ at = "jobs" /\ read = inProgress
  /\ LET P == {r \in read : Planned(r)} IN
     IF P = {} THEN at' = "nothing found" /\ plan' = NoJob
     ELSE at' = "cancel" /\ plan' = FirstMatch(First(P))
  /\ UNCHANGED <<gitHub, inProgress, read, seen, polls>>

----------------------------------------------------------------------------
(* execute_reaper_plan_with_api. *)

\* POST .../cancel and .../force-cancel.  GitHub refuses a run that is over.
AskCancel(label, fault, next) ==
  /\ at = label
  /\ \/ /\ Active(run[plan])
        /\ doomed' = doomed \cup {run[plan]}
        /\ at' = next
        /\ polls' = PollAttempts
     \/ /\ ~Active(run[plan]) \/ May(fault)
        /\ at' = "ended"
        /\ UNCHANGED <<doomed, polls>>
  /\ UNCHANGED <<run, runner, status, registered, inProgress, read, seen, plan>>

Cancel == AskCancel("cancel", "cancel", "poll")
ForceCancel == AskCancel("force", "force", "poll again")

\* poll_until_job_terminal: one list of the run's jobs.  A job that is not
\* the runner's any more ends the execution.
Over(j) == status[j] # "in_progress"
\* Mutant: after the last poll the daemon tries the delete all the same.
AfterPollsHopeful == IF at = "poll" THEN "force" ELSE "delete"

AfterPolls == IF at = "poll" THEN "force" ELSE "ended"
Poll ==
  /\ at \in {"poll", "poll again"}
  /\ polls > 0
  /\ polls' = polls - 1
  /\ at' = IF ~Matches(runner[plan]) THEN "ended"
           ELSE IF Over(plan) THEN "delete"
           ELSE IF polls' = 0 THEN AfterPolls ELSE at
  /\ UNCHANGED <<gitHub, inProgress, read, seen, plan>>

PollFails ==
  /\ at \in {"poll", "poll again"}
  /\ May("jobs")
  /\ at' = "ended"
  /\ UNCHANGED <<gitHub, inProgress, read, seen, plan, polls>>

\* remove_runner: GitHub refuses while the runner has a job.
Busy == \E j \in Jobs : runner[j] = "zombie" /\ status[j] = "in_progress"
DeleteRunner ==
  /\ at = "delete"
  /\ \/ ~Busy /\ registered' = FALSE
     \/ (Busy \/ May("delete")) /\ UNCHANGED registered
  /\ at' = "ended"
  /\ UNCHANGED <<run, runner, status, doomed, inProgress, read, seen, plan, polls>>

----------------------------------------------------------------------------
(* GitHub. *)

\* A queued job of some run is taken by a runner of another slot.
Assign(j) ==
  /\ status[j] = "queued" /\ run[j] \notin doomed
  /\ status' = [status EXCEPT ![j] = "in_progress"]
  /\ runner' = [runner EXCEPT ![j] = "other"]
  /\ UNCHANGED <<run, doomed, registered, reaper>>

\* A live runner's job completes; nobody works on the zombie's or the past's.
Complete(j) ==
  /\ status[j] = "in_progress" /\ runner[j] = "other"
  /\ status' = [status EXCEPT ![j] = "completed"]
  /\ UNCHANGED <<run, runner, doomed, registered, reaper>>

\* The cancellation of a run reaches its jobs.
CancelReaches(j) ==
  /\ run[j] \in doomed /\ status[j] # "completed"
  /\ status' = [status EXCEPT ![j] = "completed"]
  /\ UNCHANGED <<run, runner, doomed, registered, reaper>>

\* The zombie has one phantom job; earlier runners of its slot have finished
\* theirs, or died on them.
ReaperInit ==
  /\ run \in [Jobs -> Runs]
  /\ runner \in [Jobs -> Runners]
  /\ status \in [Jobs -> Statuses]
  /\ \A j \in Jobs : (runner[j] = "nobody") = (status[j] = "queued")
  /\ \E z \in Jobs : /\ runner[z] = "zombie" /\ status[z] = "in_progress"
                     /\ \A j \in Jobs : runner[j] = "zombie" => j = z
  /\ doomed = {}
  /\ registered = TRUE
  /\ at = "idle"
  /\ inProgress = {} /\ read = {}
  /\ seen = [j \in Jobs |-> Unread]
  /\ plan = NoJob
  /\ polls = 0
  /\ trouble = TRUE

Reap ==
  \/ ListRuns \/ Plan \/ Cancel \/ ForceCancel \/ Poll \/ PollFails \/ DeleteRunner
  \/ \E r \in Runs : ListJobs(r)

GitHub == \E j \in Jobs : Assign(j) \/ Complete(j) \/ CancelReaches(j)

Reaped == ~registered /\ at = "ended" /\ UNCHANGED reaperVars

\* From some moment on requests succeed.
TroubleEnds == trouble /\ trouble' = FALSE /\ UNCHANGED <<gitHub, reaper>>

ReaperNext == ((Reap \/ GitHub) /\ UNCHANGED trouble) \/ TroubleEnds \/ Reaped

\* The daemon tries again in every pass; GitHub carries an accepted
\* cancellation out.
ReaperSpec ==
  /\ ReaperInit /\ [][ReaperNext]_reaperVars
  /\ WF_reaperVars(Reap /\ UNCHANGED trouble)
  /\ \A j \in Jobs : WF_reaperVars(CancelReaches(j) /\ UNCHANGED trouble)

----------------------------------------------------------------------------
\* The registration is deleted only after the job that pinned it is over,
\* although polls, cancellations and GitHub's own steps interleave.
DeleteAfterJobOver == at = "delete" => Over(plan)

\* If no earlier runner of the slot left a job in its run, the zombie is
\* freed of its phantom job in the end, once GitHub takes requests.
Alone == \A i, j \in Jobs : runner[i] = "zombie" /\ runner[j] = "past" => run[i] # run[j]
ZombieFreed == Alone /\ <>~trouble => <>~Busy
=============================================================================
