--------------------------- MODULE DockerChildren ---------------------------
(***************************************************************************)
(* The docker CLI processes the daemon starts, src/docker_backend.rs.  A   *)
(* command has one absolute deadline: its output is awaited until a little *)
(* before it, then the child is killed and waited for in what is left.  A  *)
(* child that will not die is handed to DockerChildReaper, one thread that *)
(* owns at most a cap of them at a time, polls each, and takes the next    *)
(* from a queue as waits end.  The thread is restarted when it panics.     *)
(*                                                                         *)
(* A child may be "stuck": in the kernel, killed and not gone.             *)
(***************************************************************************)
EXTENDS Naturals, FiniteSets, Sequences

CONSTANTS
  Children,    \* the docker commands of a run of the daemon
  ActiveCap,   \* DOCKER_REAPER_ACTIVE_CAP
  CommandTime, \* the timeout of a command
  Reserve,     \* DOCKER_CLEANUP_RESERVE
  Stuckable    \* the children that may never die

NoChild == "nobody"

ASSUME ChildrenAssumption ==
  /\ IsFiniteSet(Children) /\ Stuckable \subseteq Children /\ NoChild \notin Children
  /\ ActiveCap \in Nat \ {0}
  /\ CommandTime \in Nat \ {0} /\ Reserve \in 0..CommandTime

VARIABLES
  child,    \* each child: "new", "runs", "killed", "exited" or "gone" (reaped)
  current,  \* the command the daemon waits for, or NoChild
  budget,   \* time left to its deadline
  pending,  \* DockerReapQueue.pending
  active,   \* DockerReapQueue.active, the counter
  owned,    \* the requests of the worker, a VecDeque that it polls as a whole
  worker    \* "empty" (in next), "filling", "polling" or "waiting"

childVars == <<child, current, budget, pending, active, owned, worker>>

ChildrenTypeOK ==
  /\ child \in [Children -> {"new", "runs", "killed", "exited", "gone"}]
  /\ current \in Children \cup {NoChild}
  /\ budget \in 0..CommandTime
  /\ pending \in Seq(Children)
  /\ active \in 0..Cardinality(Children)
  /\ owned \subseteq Children
  /\ worker \in {"empty", "filling", "polling", "waiting"}

----------------------------------------------------------------------------
(* run_docker_with_timeout_at_deadline, on the daemon's thread. *)

Run(c) ==
  /\ current = NoChild
  /\ child[c] = "new"
  /\ current' = c
  /\ child' = [child EXCEPT ![c] = "runs"]
  /\ budget' = CommandTime
  /\ UNCHANGED <<pending, active, owned, worker>>

\* The output ends and the child is reaped before the phase deadline.
Ends ==
  /\ current # NoChild
  /\ child[current] = "exited"
  /\ child' = [child EXCEPT ![current] = "gone"]
  /\ current' = NoChild
  /\ UNCHANGED <<budget, pending, active, owned, worker>>

\* docker_timeout: the child is killed at the phase deadline ...
Kill ==
  /\ current # NoChild
  /\ child[current] = "runs"
  /\ budget = Reserve
  /\ child' = [child EXCEPT ![current] = "killed"]
  /\ UNCHANGED <<current, budget, pending, active, owned, worker>>

\* ... and, if it is not gone at the deadline or cannot be waited for, left to
\* the reaper.
HandOver ==
  /\ current # NoChild
  /\ child[current] = "killed"
  /\ pending' = Append(pending, current)
  /\ current' = NoChild
  /\ UNCHANGED <<child, budget, active, owned, worker>>

\* Time passes while the daemon waits; a kill is not put off.
ChildTick ==
  /\ current # NoChild
  /\ budget > 0
  /\ child[current] = "runs" => budget > Reserve
  /\ budget' = budget - 1
  /\ UNCHANGED <<child, current, pending, active, owned, worker>>

----------------------------------------------------------------------------
(* docker_child_reaper_worker. *)

TakeOver ==
  /\ pending' = Tail(pending)
  /\ owned' = owned \cup {Head(pending)}
  /\ active' = active + 1

\* next: wait for a first request.
TakeFirst ==
  /\ worker = "empty"
  /\ active < ActiveCap
  /\ pending # <<>>
  /\ TakeOver
  /\ worker' = "filling"
  /\ UNCHANGED <<child, current, budget>>

\* take_next, as long as there is room.
Fill ==
  /\ worker = "filling"
  /\ IF Cardinality(owned) < ActiveCap /\ active < ActiveCap /\ pending # <<>>
     THEN TakeOver /\ UNCHANGED worker
     ELSE worker' = "polling" /\ UNCHANGED <<pending, owned, active>>
  /\ UNCHANGED <<child, current, budget>>

\* Mutant: the counter keeps the children that are gone.
FinishedForgotten(S) == active' = active

\* One round of try_wait over the owned children: those that are found gone are
\* let go, one whose wait fails or panics is kept for the next round.
Finished(S) == active' = active - Cardinality(S)

PollChildren ==
  /\ worker = "polling"
  /\ \E S \in SUBSET {c \in owned : child[c] = "exited"} :
       /\ child' = [c \in Children |-> IF c \in S THEN "gone" ELSE child[c]]
       /\ owned' = owned \ S
       /\ Finished(S)
  /\ worker' = "waiting"
  /\ UNCHANGED <<current, budget, pending>>

\* wait_for_work, for a poll interval at most.
Resume ==
  /\ worker = "waiting"
  /\ worker' = IF owned = {} THEN "empty" ELSE "filling"
  /\ UNCHANGED <<child, current, budget, pending, active, owned>>

----------------------------------------------------------------------------
\* A child exits by itself or because it was killed.
ChildExits(c) ==
  /\ child[c] \in {"runs", "killed"}
  /\ child' = [child EXCEPT ![c] = "exited"]
  /\ UNCHANGED <<current, budget, pending, active, owned, worker>>

ChildrenInit ==
  /\ child = [c \in Children |-> "new"]
  /\ current = NoChild
  /\ budget = 0
  /\ pending = <<>> /\ owned = {}
  /\ active = 0
  /\ worker = "empty"

ReaperStep == TakeFirst \/ Fill \/ PollChildren \/ Resume
CommandStep == Ends \/ Kill \/ HandOver \/ ChildTick

ChildrenNext ==
  \/ \E c \in Children : Run(c) \/ ChildExits(c)
  \/ CommandStep
  \/ ReaperStep

\* try_wait does not fail for ever.
SomeReaped == PollChildren /\ owned' # owned

ChildrenFairness ==
  /\ WF_childVars(CommandStep)
  /\ WF_childVars(ReaperStep)
  /\ SF_childVars(SomeReaped)
  /\ \A c \in Children \ Stuckable : WF_childVars(ChildExits(c))

ChildrenSpec == ChildrenInit /\ [][ChildrenNext]_childVars /\ ChildrenFairness

----------------------------------------------------------------------------
(* Properties. *)

\* The counter that admits a child to the reaper is the number of children the
\* reaper holds, and no child that was started and not waited for is held by
\* nobody or twice: the slots of the cap never leak, and no zombie does.
Holders(c) ==
  Cardinality({k \in 1..Len(pending) : pending[k] = c})
  + (IF c \in owned THEN 1 ELSE 0) + (IF current = c THEN 1 ELSE 0)

EveryChildHeld ==
  /\ active = Cardinality(owned)
  /\ \A c \in Children : Holders(c) = IF child[c] \in {"new", "gone"} THEN 0 ELSE 1

\* As long as fewer than ActiveCap children are stuck, every other child that
\* was killed is waited for in the end, behind however many stuck ones.
KilledAreReaped ==
  Cardinality(Stuckable) < ActiveCap =>
    \A c \in Children \ Stuckable : (child[c] = "killed") ~> (child[c] = "gone")
=============================================================================
