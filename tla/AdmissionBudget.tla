-------------------------- MODULE AdmissionBudget --------------------------
(***************************************************************************)
(* The daemons of one user on a native Linux host share actions.slice.     *)
(* Each opens its refill batch under one file lock, adds up the memory     *)
(* caps of the containers that run under the slice, and takes as many      *)
(* starts as the slice's memory.max has room for; the lock is held until   *)
(* the batch is dropped.  admission_batch and AdmissionBatch,              *)
(* src/docker_backend.rs.                                                  *)
(***************************************************************************)
EXTENDS Integers, FiniteSets

CONSTANTS
  Daemons,    \* the daemons of the user
  Hard,       \* actions.slice memory.max
  RunnerCap,  \* the cap of a runner container of each daemon
  Wanted,     \* the runner count of each daemon
  MaxLate     \* bound: the containers Docker may owe each daemon at once

Nobody == 0

ASSUME BudgetAssumption ==
  /\ IsFiniteSet(Daemons) /\ Nobody \notin Daemons
  /\ Hard \in Nat
  /\ RunnerCap \in [Daemons -> Nat \ {0}]
  /\ Wanted \in [Daemons -> Nat]
  /\ MaxLate \in Nat

VARIABLES
  holder,  \* the daemon that holds actions-admission.lock, or Nobody
  slots,   \* AdmissionBatch.slots: the starts left to each daemon's batch
  live,    \* the runner containers each daemon started
  used,    \* the memory caps of all of them, as docker inspect adds them up
  late,    \* the containers Docker will still create, its client having given up
  strays,  \* those it did create, of each daemon ...
  excess   \* ... and their memory caps

budgetVars == <<holder, slots, live, used, late, strays, excess>>

BudgetTypeOK ==
  /\ holder \in Daemons \cup {Nobody}
  /\ slots \in [Daemons -> Nat]
  /\ live \in [Daemons -> Nat]
  /\ used \in Int
  /\ late \in [Daemons -> Nat]
  /\ strays \in [Daemons -> Nat]
  /\ excess \in Int

----------------------------------------------------------------------------
\* Mutant: the room is rounded up.
RoomRoundedUp(d) ==
  IF used > Hard THEN 0 ELSE (Hard - used + RunnerCap[d] - 1) \div RunnerCap[d]

Room(d) == IF used > Hard THEN 0 ELSE (Hard - used) \div RunnerCap[d]

Alive(d) == live[d] + strays[d]

Granted(d) ==
  LET missing == Wanted[d] - Alive(d) IN IF Room(d) < missing THEN Room(d) ELSE missing

\* admission_batch: flock without waiting, then the listing and the sum.
OpenBatch(d) ==
  /\ holder = Nobody
  /\ Alive(d) < Wanted[d]
  /\ holder' = d
  /\ slots' = [slots EXCEPT ![d] = Granted(d)]
  /\ UNCHANGED <<live, used, late, strays, excess>>

Take(d) ==
  /\ holder = d /\ slots[d] > 0
  /\ slots' = [slots EXCEPT ![d] = @ - 1]
  /\ UNCHANGED <<holder, strays, excess>>

StartWorks(d) ==
  /\ Take(d)
  /\ live' = [live EXCEPT ![d] = @ + 1]
  /\ used' = used + RunnerCap[d]
  /\ UNCHANGED late

StartFails(d) ==
  /\ Take(d)
  /\ UNCHANGED <<live, used, late>>

\* docker run is given up on while Docker still works on it.
StartTimesOut(d) ==
  /\ Take(d)
  /\ late[d] < MaxLate
  /\ late' = [late EXCEPT ![d] = @ + 1]
  /\ UNCHANGED <<live, used>>

\* The batch is dropped: at its end, early when the ladder opens, or because
\* the daemon died and the kernel let go of its lock.
Released == holder' = Nobody

DropBatch(d) ==
  /\ holder = d
  /\ Released
  /\ slots' = [slots EXCEPT ![d] = 0]
  /\ UNCHANGED <<live, used, late, strays, excess>>

CreatedLate(d) ==
  /\ late[d] > 0
  /\ late' = [late EXCEPT ![d] = @ - 1]
  /\ strays' = [strays EXCEPT ![d] = @ + 1]
  /\ used' = used + RunnerCap[d]
  /\ excess' = excess + RunnerCap[d]
  /\ UNCHANGED <<holder, slots, live>>

Exits(d) ==
  /\ live[d] > 0
  /\ live' = [live EXCEPT ![d] = @ - 1]
  /\ used' = used - RunnerCap[d]
  /\ UNCHANGED <<holder, slots, late, strays, excess>>

StrayExits(d) ==
  /\ strays[d] > 0
  /\ strays' = [strays EXCEPT ![d] = @ - 1]
  /\ used' = used - RunnerCap[d]
  /\ excess' = excess - RunnerCap[d]
  /\ UNCHANGED <<holder, slots, live, late>>

BudgetInit ==
  /\ holder = Nobody
  /\ slots = [d \in Daemons |-> 0]
  /\ live = [d \in Daemons |-> 0]
  /\ used = 0
  /\ late = [d \in Daemons |-> 0]
  /\ strays = [d \in Daemons |-> 0]
  /\ excess = 0

BatchStep(d) == StartWorks(d) \/ StartFails(d) \/ StartTimesOut(d) \/ DropBatch(d)

BudgetNext ==
  \E d \in Daemons : OpenBatch(d) \/ BatchStep(d) \/ CreatedLate(d) \/ Exits(d) \/ StrayExits(d)

BudgetFairness == \A d \in Daemons : WF_budgetVars(BatchStep(d))

BudgetSpec == BudgetInit /\ [][BudgetNext]_budgetVars /\ BudgetFairness

----------------------------------------------------------------------------
(* Properties. *)

\* However the batches of several daemons interleave with each other, with the
\* ends of jobs and with containers Docker creates late, the caps of the running
\* containers exceed actions.slice by those late containers at most: a sum that
\* was right when the batch was opened is still right at its last start.
BudgetHeld == used <= Hard + excess
=============================================================================
