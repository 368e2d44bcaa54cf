------------------------------ MODULE Shutdown ------------------------------
(***************************************************************************)
(* How a daemon leaves and how "ezgha stop" cleans up after it: the drain  *)
(* of src/main.rs and src/docker_backend.rs (drain_inflight_registrations) *)
(* deregisters the runners that were issued but never got a container,     *)
(* against a deadline that systemd enforces with SIGKILL, and spares every *)
(* container; stop_all, in a process of its own that waits for no one but  *)
(* refuses to run beside another holder of serve.lock, removes them all.   *)
(*                                                                         *)
(* Both act on the world of RunnerWorld, which goes on meanwhile, and on   *)
(* the slot file, which survives them.  "elapsed" counts units of 5 s.     *)
(***************************************************************************)
EXTENDS RunnerWorld

CONSTANTS
  Reserved,      \* the empty runner id of a reserved slot
  Garbled,       \* a runner id that does not parse
  Siblings,      \* ids of runners of other hosts of the organisation
  DrainBudget,   \* the 15 s drain_deadline
  DockerTimeout, \* DOCKER_TIMEOUT, 45 s
  GhTimeout,     \* GH_TIMEOUT, 45 s
  GhGrace,       \* the 5 s run_gh_with_timeout gives stderr
  StopLimit      \* TimeoutStopSec of the unit, 30 s

ASSUME ShutdownAssumption ==
  /\ {DrainBudget, DockerTimeout, GhTimeout, GhGrace, StopLimit} \subseteq Nat
  /\ {Reserved, Garbled} \cap (Ids \cup {None}) = {}
  /\ Siblings \subseteq Ids

VARIABLES
  table,     \* slot file: runner id, Reserved, Garbled or None
  where,      \* what the daemon or the stop command is about to do
  housedThen, \* slots whose container docker ps listed, or Unlisted
  remaining,  \* what the current loop has left to do: slots, or runner ids
  elapsed,    \* time since the drain began, saturating past LastInstant
  deferred,   \* slots the drain left to the reaper
  asked       \* history: requests of the stop command that GitHub saw

shutdownVars == <<world, table, where, housedThen, remaining, elapsed, deferred, asked>>

Unlisted == {0}
Longer(m, n) == IF m > n THEN m ELSE n
LastInstant == DockerTimeout + DrainBudget + GhTimeout + GhGrace + 1

ShutdownTypeOK ==
  /\ WorldTypeOK
  /\ table \in [Slots -> Ids \cup {None, Reserved, Garbled}]
  /\ where \in {"drain", "drain slots", "drained", "rm", "deregister",
                "release", "stopped", "stop failed"}
  /\ housedThen \in (SUBSET Slots) \cup {Unlisted}
  /\ remaining \subseteq Slots \cup Ids
  /\ elapsed \in 0..LastInstant
  /\ deferred \subseteq Slots
  /\ asked \subseteq Ids

Took(d) == elapsed' = IF elapsed + d > LastInstant THEN LastInstant ELSE elapsed + d

FreeRow(s) == table' = [table EXCEPT ![s] = None]
TryFreeRow(s) == FreeRow(s) \/ ("write" \in Faults /\ UNCHANGED table)

----------------------------------------------------------------------------
(* The drain. *)

\* drain_inflight_registrations: its deadline starts before docker ps, which
\* has a timeout of its own.  A slot file that cannot be read ends the drain.
BeginDrain ==
  /\ where = "drain"
  /\ \/ housedThen' = RunningSlots /\ \E d \in {0, DockerTimeout} : Took(d)
     \/ "ps" \in Faults /\ housedThen' = Unlisted /\ Took(DockerTimeout)
  /\ \/ remaining' = {s \in Slots : table[s] # None} /\ where' = "drain slots"
     \/ "write" \in Faults /\ remaining' = {} /\ where' = "drained"
  /\ UNCHANGED <<world, table, deferred, asked>>

Draining(s) == where = "drain slots" /\ s \in remaining /\ remaining' = remaining \ {s}

\* No registration exists for a reservation.
FreeReservation(s) ==
  /\ Draining(s)
  /\ table[s] = Reserved
  /\ TryFreeRow(s)
  /\ UNCHANGED <<world, where, housedThen, elapsed, deferred, asked>>

\* Mutant: a container does not keep its runner from being drained.
InFlightUnchecked(s) == table[s] \in Ids /\ housedThen # Unlisted

\* Anything uncertain is left to the next daemon: an id that does not parse,
\* containers that could not be listed, a deadline that has passed.
InFlight(s) == table[s] \in Ids /\ housedThen # Unlisted /\ s \notin housedThen
Defer(s) ==
  /\ Draining(s)
  /\ \/ table[s] = Garbled
     \/ table[s] \in Ids /\ housedThen = Unlisted
     \/ InFlight(s) /\ elapsed >= DrainBudget
  /\ deferred' = deferred \cup {s}
  /\ UNCHANGED <<world, table, where, housedThen, elapsed, asked>>

\* A live container is attached.
Preserve(s) ==
  /\ Draining(s)
  /\ table[s] \in Ids /\ housedThen # Unlisted /\ s \in housedThen
  /\ UNCHANGED <<world, table, where, housedThen, elapsed, deferred, asked>>

\* remove_runner_until: the call, its retries included, is cut off at the
\* deadline (module GhTransport).
LongestDelete == Longer(DrainBudget - elapsed, 0) + GhGrace
Deregister(s) ==
  /\ Draining(s)
  /\ InFlight(s)
  /\ elapsed < DrainBudget
  /\ \E d \in {0, LongestDelete} : Took(d)
  /\ \E r \in DeleteResults :
       /\ Delete(table[s], r)
       /\ IF r = "ok" THEN TryFreeRow(s) /\ UNCHANGED deferred
          ELSE deferred' = deferred \cup {s} /\ UNCHANGED table
  /\ UNCHANGED <<docker, where, housedThen, asked>>

EndDrain ==
  /\ where = "drain slots" /\ remaining = {}
  /\ where' = "drained"
  /\ UNCHANGED <<world, table, housedThen, remaining, elapsed, deferred, asked>>

\* systemd kills what has not stopped in time.
Sigkill ==
  /\ where \in {"drain", "drain slots"}
  /\ elapsed >= StopLimit
  /\ where' = "drained"
  /\ remaining' = {}
  /\ UNCHANGED <<world, table, housedThen, elapsed, deferred, asked>>

----------------------------------------------------------------------------
(* ezgha stop.  acquire_serve_lock: flock without waiting, which the kernel *)
(* drops with the daemon's last descriptor.                                *)

BeginStop ==
  /\ where \in {"drained", "stop failed"}
  /\ \/ housedThen' = RunningSlots /\ remaining' = RunningSlots /\ where' = "rm"
     \/ "ps" \in Faults /\ where' = "stop failed" /\ UNCHANGED <<housedThen, remaining>>
  /\ UNCHANGED <<world, table, elapsed, deferred, asked>>

\* docker rm -f, whatever comes of it.
RemoveOne(s) ==
  /\ where = "rm"
  /\ s \in remaining
  /\ remaining' = remaining \ {s}
  /\ RemoveContainer(s) \/ ("rm" \in Faults /\ UNCHANGED docker)
  /\ UNCHANGED <<github, table, where, housedThen, elapsed, deferred, asked>>

\* The ids of the slot file are read before GitHub is: those of them that
\* GitHub lists under this prefix and idle.
OwnIds == {table[s] : s \in Slots} \cap Ids
Idle(i) == Registered(i) /\ i \notin busy
ListOwn ==
  /\ where = "rm" /\ remaining = {}
  /\ \/ /\ remaining' = {i \in OwnIds : Idle(i)}
        /\ where' = "deregister"
     \/ /\ "list" \in Faults
        /\ where' = "stop failed" /\ UNCHANGED remaining
  /\ UNCHANGED <<world, table, housedThen, elapsed, deferred, asked>>

DeregisterOwn(i) ==
  /\ where = "deregister"
  /\ i \in remaining
  /\ remaining' = remaining \ {i}
  /\ \E r \in DeleteResults : Delete(i, r)
  /\ asked' = asked \cup {i}
  /\ UNCHANGED <<docker, table, where, housedThen, elapsed, deferred>>

\* Every slot the file still holds is released.
BeginRelease ==
  /\ where = "deregister" /\ remaining = {}
  /\ where' = "release"
  /\ remaining' = {s \in Slots : table[s] # None}
  /\ UNCHANGED <<world, table, housedThen, elapsed, deferred, asked>>

ReleaseOne(s) ==
  /\ where = "release"
  /\ s \in remaining
  /\ remaining' = remaining \ {s}
  /\ TryFreeRow(s)
  /\ UNCHANGED <<world, where, housedThen, elapsed, deferred, asked>>

EndStop ==
  /\ where = "release" /\ remaining = {}
  /\ where' = "stopped"
  /\ UNCHANGED <<world, table, housedThen, remaining, elapsed, deferred, asked>>

----------------------------------------------------------------------------
\* What a daemon may leave when the signal comes: a slot is free, reserved,
\* or held by one runner, whose container may not have come up, may have gone,
\* or may be at work; a damaged slot file forgot the holder of a container.
ShutdownInit ==
  /\ table \in [Slots -> (Ids \ Siblings) \cup {None, Reserved, Garbled}]
  /\ \A s, t \in Slots : s # t /\ table[s] = table[t] => table[s] \notin Ids
  /\ container \in [Slots -> (Ids \ Siblings) \cup {None}]
  /\ \A s \in Slots : container[s] # None => table[s] \in {container[s], None, Garbled}
  /\ \A s, t \in Slots : s # t /\ container[s] = container[t] => container[s] = None
  /\ \A s, t \in Slots : s # t /\ container[s] \in Ids => table[t] # container[s]
  /\ phase = [s \in Slots |-> IF container[s] = None THEN "off" ELSE "boot"]
  /\ named \in [Ids -> Slots \cup {None}]
  /\ \A i \in Ids \ Siblings :
       /\ named[i] # None => i \in {table[named[i]], container[named[i]]}
       /\ \A s \in Slots : container[s] = i => named[i] = s
  /\ \A i \in Siblings : named[i] # None
  /\ online = {} /\ busy = {}
  /\ where = "drain"
  /\ housedThen = Unlisted
  /\ remaining = {}
  /\ elapsed = 0
  /\ deferred = {}
  /\ asked = {}

DrainStep ==
  \/ BeginDrain \/ EndDrain
  \/ \E s \in Slots : FreeReservation(s) \/ Defer(s) \/ Preserve(s) \/ Deregister(s)

StopStep ==
  \/ BeginStop \/ ListOwn \/ BeginRelease \/ EndStop
  \/ \E s \in Slots : RemoveOne(s) \/ ReleaseOne(s)
  \/ \E i \in Ids : DeregisterOwn(i)

Around ==
  /\ WorldNext
  /\ UNCHANGED <<table, where, housedThen, remaining, elapsed, deferred, asked>>

AllStopped == where = "stopped" /\ UNCHANGED shutdownVars

ShutdownNext == DrainStep \/ Sigkill \/ StopStep \/ Around \/ AllStopped

ShutdownSpec == ShutdownInit /\ [][ShutdownNext]_shutdownVars

----------------------------------------------------------------------------
\* drain_inflight_registrations: a runner with a container survives the
\* restart, registration and container, whatever it does meanwhile.
DrainSparesContainers ==
  [][DrainStep => \A s \in Slots :
       container[s] # None => /\ container'[s] = container[s]
                              /\ named'[container[s]] = named[container[s]]]_shutdownVars

\* Fail-safe, never fail-orphan: a row leaves the slot file only when its
\* runner is deregistered, so the next daemon finds whatever is left.
DrainForgetsNoRunner ==
  [][where = "drain slots" => \A s \in Slots :
       table[s] \in Ids /\ table'[s] # table[s]
         => named'[table[s]] = None]_shutdownVars

\* Slow deletes do not add up: docker ps, or the deadline and one call's
\* grace, is the longest a drain takes.
DrainBounded == elapsed <= Longer(DockerTimeout, DrainBudget + GhGrace)

\* The stop command asks GitHub to drop only runners of this host's slots.
StopSparesSiblings == asked \cap Siblings = {}
=============================================================================
