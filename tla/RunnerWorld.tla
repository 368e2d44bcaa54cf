----------------------------- MODULE RunnerWorld -----------------------------
(***************************************************************************)
(* The world outside the daemon, as src/github.rs and                      *)
(* src/docker_backend.rs see it through `gh api` and the docker CLI: the   *)
(* runner registrations GitHub holds, the managed containers docker runs,  *)
(* and the runner process inside each container.  A runner is ephemeral:   *)
(* it is issued by generate-jitconfig, connects, takes one job, and is     *)
(* deregistered by GitHub when the job completes.                          *)
(*                                                                         *)
(* A runner's name is prefix-N for slot N (runner_name_from_prefix), so a  *)
(* name is represented by its slot number.  Runner ids are recycled by the *)
(* model only when nothing refers to them any more, which cannot be told   *)
(* from the ever-growing ids GitHub mints.                                 *)
(***************************************************************************)
EXTENDS Naturals, FiniteSets

CONSTANTS
  Count,     \* cfg.runner.count
  Ids,       \* GitHub runner ids
  None,      \* "no value": not registered, no container, free slot
  Faults     \* the kinds of failure this instance of the world may produce

FaultKinds ==
  { "crash",      \* the daemon process dies between any two steps
    "list",       \* listing runners fails or returns a partial snapshot
    "shift",      \* a listing taken for complete misses runners (RunnerListing)
    "ps",         \* docker ps fails
    "probe",      \* docker top fails for a reason other than absence
    "delete",     \* a DELETE fails without effect (network, rate limit)
    "lost",       \* a request takes effect but its response is lost
    "jit",        \* generate-jitconfig is refused
    "rm",         \* docker rm -f fails
    "run",        \* docker run exits non-zero
    "timeout",    \* the docker run client is killed at its deadline
    "ancestry",   \* the started container is outside actions.slice
    "write",      \* the slot file cannot be read or written
    "limits",     \* containment, effective_limits or the cpu probe refuses
    "gate",       \* a disk, memory or ladder gate pauses admission
    "partition",  \* a live runner loses its connection to GitHub
    "drop",       \* GitHub forgets a registration while its runner lives
    "quarantine_write",   \* the quarantine table cannot be written
    "quarantine_corrupt"  \* the quarantine table on disk does not parse
  }

ASSUME CountAssumption == Count \in Nat \ {0}
ASSUME NoneAssumption == None \notin Ids /\ None \notin Nat
ASSUME FaultsAssumption == Faults \subseteq FaultKinds

Slots == 1 .. Count

VARIABLES
  named,      \* GitHub: the slot whose name registration i carries, or None
  online,     \* GitHub: registrations reported "online"
  busy,       \* GitHub: registrations holding a job
  container,  \* docker: the runner id in the container named after the slot
  phase       \* what runs in the container: booting, Listener, or Worker

github == <<named, online, busy>>
docker == <<container, phase>>
world  == <<named, online, busy, container, phase>>

Phases == {"off", "boot", "listener", "worker"}

WorldTypeOK ==
  /\ named \in [Ids -> Slots \cup {None}]
  /\ online \in SUBSET Ids
  /\ busy \in SUBSET Ids
  /\ container \in [Slots -> Ids \cup {None}]
  /\ phase \in [Slots -> Phases]

WorldInit ==
  /\ named = [i \in Ids |-> None]
  /\ online = {}
  /\ busy = {}
  /\ container = [s \in Slots |-> None]
  /\ phase = [s \in Slots |-> "off"]

Registered(i) == named[i] # None
Housed(i) == \E s \in Slots : container[s] = i
RunningSlots == {s \in Slots : container[s] # None}

----------------------------------------------------------------------------
(* What the daemon's requests do to the world.                              *)

Unregister(i) ==
  /\ named' = [named EXCEPT ![i] = None]
  /\ online' = online \ {i}
  /\ busy' = busy \ {i}

Register(i, s) ==
  /\ named' = [named EXCEPT ![i] = s]
  /\ UNCHANGED <<online, busy>>

\* DELETE of a registration.  GitHub refuses with 422 while it holds a job
\* and with 404 once it is gone; every error that is not the 422 lock is one
\* class to the callers.
Delete(i, result) ==
  \/ /\ result = "ok"
     /\ Registered(i) /\ i \notin busy
     /\ Unregister(i)
  \/ /\ result = "locked"
     /\ Registered(i) /\ i \in busy
     /\ UNCHANGED github
  \/ /\ result = "failed"
     /\ ~Registered(i) \/ "delete" \in Faults
     /\ UNCHANGED github
  \/ /\ result = "failed"
     /\ "lost" \in Faults
     /\ Registered(i) /\ i \notin busy
     /\ Unregister(i)

DeleteResults == {"ok", "locked", "failed"}

StartContainer(s, i) ==
  /\ container' = [container EXCEPT ![s] = i]
  /\ phase' = [phase EXCEPT ![s] = "boot"]

RemoveContainer(s) ==
  /\ container' = [container EXCEPT ![s] = None]
  /\ phase' = [phase EXCEPT ![s] = "off"]

\* docker top of the slot's container: Runner.Worker, else Runner.Listener,
\* else neither; "No such container" is the only proof of absence.
Activities == {"Busy", "Idle", "Unknown", "Absent"}
Activity(s) ==
  CASE phase[s] = "worker"   -> "Busy"
    [] phase[s] = "listener" -> "Idle"
    [] phase[s] = "boot"     -> "Unknown"
    [] phase[s] = "off"      -> "Absent"
Probe(s) == {Activity(s)} \cup (IF "probe" \in Faults THEN {"Unknown"} ELSE {})

----------------------------------------------------------------------------
(* What the world does on its own.                                          *)

Connect(s) ==
  /\ phase[s] = "boot" /\ Registered(container[s])
  /\ phase' = [phase EXCEPT ![s] = "listener"]
  /\ online' = online \cup {container[s]}
  /\ UNCHANGED <<named, busy, container>>

AssignJob(s) ==
  /\ phase[s] = "listener" /\ container[s] \in online
  /\ phase' = [phase EXCEPT ![s] = "worker"]
  /\ busy' = busy \cup {container[s]}
  /\ UNCHANGED <<named, online, container>>

\* The job ends and GitHub deregisters the one-job runner.
CompleteJob(s) ==
  /\ phase[s] = "worker"
  /\ phase' = [phase EXCEPT ![s] = "listener"]
  /\ Unregister(container[s])
  /\ UNCHANGED container

\* A runner whose registration is gone exits, and --rm removes its container.
ExitUnregistered(s) ==
  /\ phase[s] \in {"boot", "listener"} /\ ~Registered(container[s])
  /\ RemoveContainer(s)
  /\ UNCHANGED github

\* The container dies under its runner: OOM, VM restart, docker daemon death.
Die(s) ==
  /\ container[s] # None
  /\ RemoveContainer(s)
  /\ UNCHANGED github

LoseHeartbeat(i) ==
  /\ i \in online
  /\ ~Housed(i) \/ "partition" \in Faults
  /\ online' = online \ {i}
  /\ UNCHANGED <<named, busy, container, phase>>

Reconnect(s) ==
  /\ phase[s] \in {"listener", "worker"}
  /\ Registered(container[s]) /\ container[s] \notin online
  /\ online' = online \cup {container[s]}
  /\ UNCHANGED <<named, busy, container, phase>>

\* GitHub gives up on the job of a runner it has not heard from.
ReleaseLock(i) ==
  /\ i \in busy /\ i \notin online /\ ~Housed(i)
  /\ \/ Unregister(i)
     \/ busy' = busy \ {i} /\ UNCHANGED <<named, online>>
  /\ UNCHANGED docker

Forget(i) ==
  /\ "drop" \in Faults
  /\ Registered(i)
  /\ Unregister(i)
  /\ UNCHANGED docker

WorldNext ==
  \/ \E s \in Slots : \/ Connect(s) \/ AssignJob(s) \/ CompleteJob(s)
                      \/ ExitUnregistered(s) \/ Die(s) \/ Reconnect(s)
  \/ \E i \in Ids : LoseHeartbeat(i) \/ ReleaseLock(i) \/ Forget(i)
=============================================================================
