----------------------------- MODULE RunnerPool ------------------------------
(***************************************************************************)
(* The reconciliation tick of src/docker_backend.rs: ensure_count_outcome, *)
(* the two release_stale_slots passes it makes, and the refill batch       *)
(* between them.  The daemon is one thread; an action is the code around    *)
(* one external call, so the world of RunnerWorld moves between any two    *)
(* actions and every snapshot may be stale when used.  The exceptions are  *)
(* the reaper's cancel-poll-delete of one zombie and Path 4's docker top   *)
(* of each candidate, which are one action each.                           *)
(*                                                                         *)
(* Time appears only through REGISTRATION_GRACE_WINDOW: slot s is in       *)
(* "fresh" while the registered_at stamp last written for it is less than  *)
(* 60 s old.                                                               *)
(***************************************************************************)
EXTENDS RunnerWorld

CONSTANT Reserved      \* the empty runner id of a slot next_slot reserved
ASSUME ReservedAssumption == Reserved \notin Ids /\ Reserved # None

VARIABLES
  asg,        \* slot file: runner id, Reserved, or None when the slot is free
  witnessed,  \* slot file: slots with a container_started_at witness
  fresh,      \* clock: slots whose registered_at is inside the grace window
  quar,       \* quarantine table on disk: the runner id held per slot
  quarOk,     \* does the quarantine table on disk parse
  pc,         \* where the daemon is
  second,     \* is this the trailing release_stale_slots of the tick
  snap,       \* the pass's snapshots of GitHub, the slot file and docker
  qmem,       \* the quarantine table the pass works on
  todo,       \* what the current loop has left to do
  tried,      \* zombie reclaims spent this pass
  cur,        \* slot being started
  curId,      \* runner id generate_jitconfig returned for it
  failed,     \* failed_slots of the batch
  budget      \* starts the batch may still attempt

slotFile == <<asg, witnessed>>
disk     == <<asg, witnessed, quar, quarOk>>
batch    == <<cur, curId, failed, budget>>
pass     == <<snap, qmem, todo, tried>>
vars     == <<world, disk, fresh, pc, second, pass, batch>>

PassPcs  == {"list", "ps", "path1", "path2", "recover", "saveq",
             "path4", "path4del", "path3"}
BatchPcs == {"reserve", "prerm", "jit", "heal", "retry",
             "record", "run", "witness", "cleanup"}
Pcs      == {"idle", "count"} \cup PassPcs \cup BatchPcs

NoSnap == [named  |-> [i \in Ids |-> None], online |-> {}, busy |-> {},
           asg    |-> [s \in Slots |-> None], witnessed |-> {},
           names  |-> {}, psOk |-> FALSE]

Snapshots == [named  : [Ids -> Slots \cup {None}],
              online : SUBSET Ids,
              busy   : SUBSET Ids,
              asg    : [Slots -> Ids \cup {None, Reserved}],
              witnessed : SUBSET Slots,
              names  : SUBSET Slots,
              psOk   : BOOLEAN]

TypeOK ==
  /\ WorldTypeOK
  /\ asg \in [Slots -> Ids \cup {None, Reserved}]
  /\ witnessed \in SUBSET Slots
  /\ fresh \in SUBSET Slots
  /\ quar \in [Slots -> Ids \cup {None}]
  /\ quarOk \in BOOLEAN
  /\ pc \in Pcs
  /\ second \in BOOLEAN
  /\ snap \in Snapshots
  /\ qmem \in [Slots -> Ids \cup {None}]
  /\ todo \subseteq Slots \cup Ids
  /\ tried \in 0 .. 1
  /\ cur \in Slots \cup {None}
  /\ curId \in Ids \cup {None}
  /\ failed \in SUBSET Slots
  /\ budget \in 0 .. Count

DaemonInit ==
  /\ asg = [s \in Slots |-> None]
  /\ witnessed = {}
  /\ fresh = {}
  /\ quar = [s \in Slots |-> None]
  /\ quarOk = TRUE
  /\ pc = "idle"
  /\ second = FALSE
  /\ snap = NoSnap
  /\ qmem = [s \in Slots |-> None]
  /\ todo = {}
  /\ tried = 0
  /\ cur = None
  /\ curId = None
  /\ failed = {}
  /\ budget = 0

Init == WorldInit /\ DaemonInit

Goto(label) == pc' = label

----------------------------------------------------------------------------
(* The slot file.                                                           *)

ReleaseSlot(s) ==
  /\ asg' = [asg EXCEPT ![s] = None]
  /\ witnessed' = witnessed \ {s}

KeepSlots == UNCHANGED slotFile

\* `let _ = release_slot_for(..)`: a slot file that cannot be written keeps
\* the row, and nobody is told.
TryReleaseSlot(s) ==
  \/ ReleaseSlot(s)
  \/ "write" \in Faults /\ KeepSlots

\* next_slot_excluding: the lowest slot that is free, not excluded by the
\* batch and not quarantined; an unreadable quarantine table excludes none.
NoneExcluded == {}    \* mutant: the quarantine is not consulted
QuarantineExcluded == IF quarOk THEN {s \in Slots : quar[s] # None} ELSE {}
Allocatable == {s \in Slots : asg[s] = None} \ (failed \cup QuarantineExcluded)
Lowest(S) == CHOOSE s \in S : \A t \in S : s <= t

----------------------------------------------------------------------------
(* release_stale_slots: the snapshots.                                      *)

StartTick ==
  /\ pc = "idle"
  /\ second' = FALSE
  /\ Goto("list")
  /\ UNCHANGED <<world, disk, fresh, pass, batch>>

\* Where the tick goes once a pass is over: from the leading pass to the
\* container count, from the trailing pass to the next tick.
PassOver ==
  /\ Goto(IF second THEN "idle" ELSE "count")
  /\ snap' = NoSnap
  /\ qmem' = [s \in Slots |-> None]
  /\ todo' = {}
  /\ tried' = 0

ListFails ==
  /\ pc = "list" /\ "list" \in Faults
  /\ PassOver
  /\ UNCHANGED <<world, disk, fresh, second, batch>>

\* Registrations the pages of one listing have not shown.
Missable == IF "shift" \in Faults THEN SUBSET {i \in Ids : Registered(i)} ELSE {{}}

ListRunners ==
  /\ pc = "list"
  /\ \E M \in Missable :
       snap' = [NoSnap EXCEPT !.named = [i \in Ids |-> IF i \in M THEN None ELSE named[i]],
                              !.online = online \ M, !.busy = busy \ M,
                              !.asg = asg, !.witnessed = witnessed]
  /\ Goto("ps")
  /\ UNCHANGED <<world, disk, fresh, second, qmem, todo, tried, batch>>

ListContainers ==
  /\ pc = "ps"
  /\ \/ snap' = [snap EXCEPT !.names = RunningSlots, !.psOk = TRUE]
     \/ "ps" \in Faults /\ UNCHANGED snap
  /\ todo' = {s \in Slots : snap.asg[s] # None}
  /\ Goto("path1")
  /\ UNCHANGED <<world, disk, fresh, second, qmem, tried, batch>>

----------------------------------------------------------------------------
(* Path 1: slots whose recorded runner is gone or dead.                     *)

InGrace(s) == snap.asg[s] # None /\ s \in fresh
Listed(i) == snap.named[i] # None
ListedDead(i) == Listed(i) /\ i \notin snap.online /\ i \notin snap.busy

\* mutants: the grace window is forgotten, or never ends
RetainWithoutGrace(inGrace, started, activity) ==
  started /\ activity \in {"Busy", "Unknown"}
RetainForever(inGrace, started, activity) == ~(started /\ activity = "Absent")

\* retain_started_activity_after_grace_probe, where "started" says that an
\* activity was probed for a witnessed start.
Retain(inGrace, started, activity) ==
  \/ started /\ activity \in {"Busy", "Unknown"}
  \/ inGrace /\ ~(started /\ activity = "Absent")

RetainedByPath1(s, activity) ==
  Retain(InGrace(s), s \in snap.witnessed /\ InGrace(s), activity)

\* mutants: a dead listing is enough, running container or not; a
\* reservation whose id was never recorded is kept
ListedDespiteContainer(s, activity) ==
  snap.asg[s] \in Ids /\ ListedDead(snap.asg[s]) /\ ~RetainedByPath1(s, activity)
ReservationKept(s) == FALSE

\* A reservation whose id was never recorded:
\* within the window its JIT config may still be on its way.
EmptyIdInGrace(s) == snap.asg[s] = Reserved /\ InGrace(s)
ReservationStale(s) == snap.asg[s] = Reserved /\ ~EmptyIdInGrace(s)

\* A runner GitHub no longer lists, its container gone or without a job.
UnlistedStale(s, activity) ==
  /\ snap.asg[s] \in Ids /\ ~Listed(snap.asg[s])
  /\ snap.psOk /\ ~RetainedByPath1(s, activity)
  /\ s \in snap.names => activity \in {"Absent", "Idle"}

\* A runner GitHub no longer lists, when docker does not say what runs: a
\* slot is not held forever for a docker ps that fails.
UnseenStale(s) ==
  snap.asg[s] \in Ids /\ ~Listed(snap.asg[s]) /\ ~snap.psOk /\ ~InGrace(s)

\* A runner GitHub lists: under another slot's name, or dead.
ListedStale(s, activity) ==
  LET i == snap.asg[s] IN
  /\ i \in Ids /\ Listed(i)
  /\ \/ snap.named[i] # s
     \/ /\ snap.psOk /\ ListedDead(i) /\ s \notin snap.names
        /\ ~RetainedByPath1(s, activity)

Stale(s, activity) ==
  \/ ReservationStale(s) \/ UnlistedStale(s, activity)
  \/ UnseenStale(s) \/ ListedStale(s, activity)

Path1 ==
  /\ pc = "path1"
  /\ \E s \in todo :
       /\ s = Lowest(todo)
       /\ \E activity \in Probe(s) :
            IF Stale(s, activity) THEN ReleaseSlot(s) ELSE KeepSlots
       /\ todo' = todo \ {s}
  /\ UNCHANGED <<world, quar, quarOk, fresh, pc, second, snap, qmem, tried, batch>>

\* A slot file that cannot be written abandons the rest of the pass.
Path1WriteFails ==
  /\ pc = "path1" /\ "write" \in Faults
  /\ \E s \in todo : \E activity \in Probe(s) :
       s = Lowest(todo) /\ Stale(s, activity)
  /\ PassOver
  /\ UNCHANGED <<world, disk, fresh, second, batch>>

----------------------------------------------------------------------------
(* Path 2: offline and busy registrations with no container, and the        *)
(* quarantine of those GitHub will not delete.                              *)

Zombies == {s \in Slots : /\ snap.asg[s] \in Ids
                          /\ s \notin snap.names
                          /\ snap.named[snap.asg[s]] = s
                          /\ snap.asg[s] \notin snap.online
                          /\ snap.asg[s] \in snap.busy}

LoadQuarantine ==
  /\ pc = "path1" /\ todo = {}
  /\ qmem' = IF quarOk THEN quar ELSE [s \in Slots |-> None]
  /\ IF snap.psOk THEN Goto("path2") /\ todo' = Zombies
                  ELSE Goto("saveq") /\ todo' = {}
  /\ UNCHANGED <<world, disk, fresh, second, snap, tried, batch>>

\* reclaim_zombie_locked_runner: cancel the phantom run, then delete.  It may
\* complete, release the lock without deleting, achieve nothing, or delete and
\* never hear of it.
ReclaimZombie(i, healed) ==
  \/ /\ healed \/ "lost" \in Faults
     /\ Registered(i) /\ Unregister(i)
  \/ ~healed /\ busy' = busy \ {i} /\ UNCHANGED <<named, online>>
  \/ ~healed /\ UNCHANGED github

FreeZombie(s) ==
  /\ ReleaseSlot(s)
  /\ qmem' = [qmem EXCEPT ![s] = None]

QuarantineSlot(s, i) ==
  /\ KeepSlots
  /\ qmem' = [qmem EXCEPT ![s] = i]

Path2 ==
  /\ pc = "path2"
  /\ \E s \in todo :
       LET i == snap.asg[s] IN
       /\ s = Lowest(todo)
       /\ todo' = todo \ {s}
       /\ IF qmem[s] # None
          THEN UNCHANGED <<github, slotFile, qmem, tried>>
          ELSE \/ /\ Delete(i, "ok")
                  /\ FreeZombie(s)
                  /\ UNCHANGED tried
               \/ /\ i \in busy /\ Registered(i)
                  /\ tried = 0 /\ tried' = 1
                  /\ \E healed \in BOOLEAN :
                       /\ ReclaimZombie(i, healed)
                       /\ IF healed THEN FreeZombie(s) ELSE QuarantineSlot(s, i)
               \/ /\ Delete(i, "locked")
                  /\ tried = 1
                  /\ QuarantineSlot(s, i)
                  /\ UNCHANGED tried
               \/ /\ Delete(i, "failed")
                  /\ UNCHANGED <<slotFile, qmem, tried>>
  /\ UNCHANGED <<docker, quar, quarOk, fresh, pc, second, snap, batch>>

QuarantinedInMemory == {s \in Slots : qmem[s] # None}

\* The registration is deleted but the slot file cannot be written: `?` leaves
\* the pass, and the quarantine changes made so far are not saved.
Path2WriteFails ==
  /\ pc = "path2" /\ "write" \in Faults
  /\ \E s \in todo : /\ s = Lowest(todo)
                     /\ qmem[s] = None
                     /\ \/ Delete(snap.asg[s], "ok")
                        \/ tried = 0 /\ ReclaimZombie(snap.asg[s], TRUE)
  /\ PassOver
  /\ UNCHANGED <<docker, disk, fresh, second, batch>>

BeginRecovery ==
  /\ pc = "path2" /\ todo = {}
  /\ todo' = QuarantinedInMemory
  /\ Goto("recover")
  /\ UNCHANGED <<world, disk, fresh, second, snap, qmem, tried, batch>>

\* The lock looks released: the runner left the list, is online, or is idle.
LockReleased(i) == ~Listed(i) \/ i \in snap.online \/ i \notin snap.busy

Recover ==
  /\ pc = "recover"
  /\ \E s \in todo :
       LET i == qmem[s] IN
       /\ s = Lowest(todo)
       /\ todo' = todo \ {s}
       /\ IF ~LockReleased(i)
          THEN UNCHANGED <<github, slotFile, qmem>>
          ELSE \/ Delete(i, "ok") /\ FreeZombie(s)
               \/ \E r \in {"locked", "failed"} :
                    Delete(i, r) /\ UNCHANGED <<slotFile, qmem>>
  /\ UNCHANGED <<docker, quar, quarOk, fresh, pc, second, snap, tried, batch>>

RecoverWriteFails ==
  /\ pc = "recover" /\ "write" \in Faults
  /\ \E s \in todo : /\ s = Lowest(todo)
                     /\ LockReleased(qmem[s])
                     /\ Delete(qmem[s], "ok")
  /\ PassOver
  /\ UNCHANGED <<docker, disk, fresh, second, batch>>

----------------------------------------------------------------------------
(* Save the quarantine table, then Path 4 and Path 3.                       *)

\* started_container_activity_for_current_assignment: probed whenever the
\* registration is the witnessed current assignment, in grace or not.
RetainedByPath4(i, activity) ==
  LET s == snap.named[i] IN
  Retain(InGrace(s), snap.asg[s] = i /\ s \in snap.witnessed, activity)

\* mutant: a running container does not protect its registration
ReapableDespiteContainer(activity) ==
  {i \in Ids : ListedDead(i) /\ ~RetainedByPath4(i, activity[snap.named[i]])}

\* Registrations Path 4 may reap, for one outcome of the probes.
Reapable(activity) ==
  {i \in Ids : /\ ListedDead(i)
               /\ snap.named[i] \notin snap.names
               /\ ~RetainedByPath4(i, activity[snap.named[i]])}

ProbeOutcomes == {a \in [Slots -> Activities] : \A s \in Slots : a[s] \in Probe(s)}

Unowned == {i \in Ids : ListedDead(i) /\ \A s \in Slots : snap.asg[s] # i}

SaveQuarantine ==
  /\ pc \in {"recover", "saveq"} /\ todo = {}
  /\ \/ quar' = qmem /\ quarOk' = TRUE
     \/ "quarantine_write" \in Faults /\ UNCHANGED <<quar, quarOk>>
  /\ Goto("path4")
  /\ UNCHANGED <<world, slotFile, fresh, second, pass, batch>>

Path4Plan ==
  /\ pc = "path4"
  /\ \E activity \in ProbeOutcomes :
       todo' = IF snap.psOk THEN Reapable(activity) ELSE {}
  /\ Goto("path4del")
  /\ UNCHANGED <<world, disk, fresh, second, snap, qmem, tried, batch>>

\* "reaped_ids" is dropped from the snapshot, which is all Path 3 needs of it.
Reaped(i) == snap' = [snap EXCEPT !.named[i] = None]

Path4Delete ==
  /\ pc = "path4del"
  /\ \E i \in todo :
       /\ todo' = todo \ {i}
       /\ \/ Delete(i, "ok") /\ Reaped(i)
          \/ /\ Registered(i) /\ i \in busy
             /\ \E healed \in BOOLEAN :
                  /\ ReclaimZombie(i, healed)
                  /\ IF healed THEN Reaped(i) ELSE UNCHANGED snap
          \/ Delete(i, "failed") /\ UNCHANGED snap
  /\ UNCHANGED <<docker, disk, fresh, pc, second, qmem, tried, batch>>

Path3Plan ==
  /\ pc = "path4del" /\ todo = {}
  /\ todo' = Unowned
  /\ Goto("path3")
  /\ UNCHANGED <<world, disk, fresh, second, snap, qmem, tried, batch>>

Path3Delete ==
  /\ pc = "path3"
  /\ \E i \in todo :
       /\ todo' = todo \ {i}
       /\ \E r \in DeleteResults : Delete(i, r)
  /\ UNCHANGED <<docker, disk, fresh, pc, second, snap, qmem, tried, batch>>

EndPass ==
  /\ pc = "path3" /\ todo = {}
  /\ PassOver
  /\ UNCHANGED <<world, disk, fresh, second, batch>>

----------------------------------------------------------------------------
(* ensure_count_outcome between the passes, and the refill batch.           *)

MissingPlusOne == Count + 1 - Cardinality(RunningSlots)    \* mutant: off by one
Missing == Count - Cardinality(RunningSlots)

\* docker ps fails, the fleet is full, or a gate pauses admission: no batch.
EndTick ==
  /\ pc = "count"
  /\ "ps" \in Faults \/ "gate" \in Faults \/ Missing = 0
  /\ Goto("idle")
  /\ UNCHANGED <<world, disk, fresh, second, pass, batch>>

\* "gate" also lets the native admission budget grant part of the batch, and
\* excludes the slots whose failure-ladder circuit is open.
BeginBatch ==
  /\ pc = "count"
  /\ Missing > 0
  /\ budget' \in IF "gate" \in Faults THEN 0 .. Missing ELSE {Missing}
  /\ failed' \in IF "gate" \in Faults THEN SUBSET Slots ELSE {{}}
  /\ Goto("reserve")
  /\ UNCHANGED <<world, disk, fresh, second, pass, cur, curId>>

\* The batch is over: forget it and make the trailing release pass.
BatchOver ==
  /\ cur' = None /\ curId' = None /\ failed' = {} /\ budget' = 0
  /\ second' = TRUE
  /\ Goto("list")

\* The batch is spent, no slot is free, the slot file cannot be read or
\* written, or ("gate") the ladder or a shutdown request stops it early.
EndBatch ==
  /\ pc = "reserve"
  /\ budget = 0 \/ Allocatable = {} \/ Faults \cap {"write", "gate"} # {}
  /\ BatchOver
  /\ UNCHANGED <<world, disk, fresh, pass>>

ReserveSlot ==
  /\ pc = "reserve"
  /\ budget > 0
  /\ \E s \in Allocatable :
     /\ s = Lowest(Allocatable)
     /\ asg' = [asg EXCEPT ![s] = Reserved]
     /\ witnessed' = witnessed \ {s}
     /\ fresh' = fresh \cup {s}
     /\ cur' = s
  /\ budget' = budget - 1
  /\ Goto("prerm")
  /\ UNCHANGED <<world, quar, quarOk, second, pass, curId, failed>>

\* effective_limits refuses: a preflight error that leaves the reservation.
LimitsRefused ==
  /\ pc = "prerm" /\ "limits" \in Faults
  /\ BatchOver
  /\ UNCHANGED <<world, disk, fresh, pass>>

PreRm ==
  /\ pc = "prerm"
  /\ \/ RemoveContainer(cur)
     \/ "rm" \in Faults /\ UNCHANGED docker
  /\ Goto("jit")
  /\ UNCHANGED <<github, disk, fresh, second, pass, batch>>

\* Ids nothing refers to: what GitHub may mint next.
Unused == {i \in Ids : /\ ~Registered(i) /\ ~Housed(i) /\ curId # i
                       /\ \A s \in Slots : asg[s] # i /\ quar[s] # i}

Conflicts == {i \in Ids : named[i] = cur}
OwnedIds == {asg[s] : s \in Slots} \cap Ids
Reclaimable(i) == i \in OwnedIds \/ (i \notin online /\ i \notin busy)

\* POST generate-jitconfig: GitHub mints an id unless the name is taken.
JitSucceeds ==
  /\ pc \in {"jit", "retry"} /\ Conflicts = {}
  /\ \E i \in Unused : Register(i, cur) /\ curId' = i
  /\ Goto("record")
  /\ UNCHANGED <<docker, disk, fresh, second, pass, cur, failed, budget>>

\* "Already exists": list the runners and, when the holder of the name may be
\* taken for dead or for ours, delete it and try once more.
JitConflict ==
  /\ pc = "jit"
  /\ \E c \in Conflicts : Reclaimable(c) /\ curId' = c
  /\ Goto("heal")
  /\ UNCHANGED <<world, disk, fresh, second, pass, cur, failed, budget>>

HealConflict ==
  /\ pc = "heal"
  /\ Delete(curId, "ok")
  /\ curId' = None
  /\ Goto("retry")
  /\ UNCHANGED <<docker, disk, fresh, second, pass, cur, failed, budget>>

\* No registration comes back: the holder of the name is presumed a live
\* sibling's or cannot be deleted, the name is taken again, the call or the
\* listing is refused, or the call takes effect and its answer is lost.  A
\* preflight error: the slot is freed and the whole batch ends.
JitFails ==
  /\ \/ /\ pc = "jit"
        /\ \/ \E c \in Conflicts : ~Reclaimable(c) \/ "list" \in Faults
           \/ "jit" \in Faults
           \/ Unused = {}
        /\ UNCHANGED github
     \/ /\ pc = "heal"
        /\ \E r \in {"locked", "failed"} : Delete(curId, r)
     \/ /\ pc = "retry"
        /\ Conflicts # {} \/ "jit" \in Faults \/ Unused = {}
        /\ UNCHANGED github
     \/ /\ pc \in {"jit", "retry"} /\ Conflicts = {} /\ "lost" \in Faults
        /\ \E i \in Unused : Register(i, cur)
  /\ TryReleaseSlot(cur)
  /\ BatchOver
  /\ UNCHANGED <<docker, quar, quarOk, fresh, pass>>

\* mutant: the id GitHub returned is not stored before docker run
RecordNothing ==
  /\ pc = "record"
  /\ Goto("run")
  /\ UNCHANGED <<world, disk, fresh, second, pass, batch>>

RecordRunnerId ==
  /\ pc = "record"
  /\ asg' = [asg EXCEPT ![cur] = curId]
  /\ witnessed' = witnessed \ {cur}
  /\ fresh' = fresh \cup {cur}
  /\ Goto("run")
  /\ UNCHANGED <<world, quar, quarOk, second, pass, batch>>

\* One start is over; the batch goes on to the next slot.
NextStart(hasFailed) ==
  /\ failed' = IF hasFailed THEN failed \cup {cur} ELSE failed
  /\ cur' = None /\ curId' = None
  /\ Goto("reserve")
  /\ UNCHANGED <<budget, second>>

\* Early returns that clean nothing up: host containment or (once the id is
\* recorded) the cpu controller is missing, or the slot file cannot be read
\* or written.  The row stays, and so does a registration already made.
AbandonStart ==
  /\ \/ pc \in {"prerm", "run"} /\ "limits" \in Faults
     \/ pc \in {"jit", "record"} /\ "write" \in Faults
  /\ NextStart(TRUE)
  /\ UNCHANGED <<world, disk, fresh, pass>>

DockerRun ==
  /\ pc = "run"
  /\ \/ /\ container[cur] = None
        /\ StartContainer(cur, curId)
        /\ Goto("witness")
     \/ /\ container[cur] # None \/ "run" \in Faults
        /\ UNCHANGED docker
        /\ Goto("cleanup")
     \/ /\ "timeout" \in Faults /\ container[cur] = None
        /\ StartContainer(cur, curId) \/ UNCHANGED docker
        /\ Goto("cleanup")
  /\ UNCHANGED <<github, disk, fresh, second, pass, batch>>

RecordContainerStarted ==
  /\ pc = "witness"
  /\ \/ witnessed' = witnessed \cup {cur}
     \/ "write" \in Faults /\ UNCHANGED witnessed
  /\ NextStart(FALSE)
  /\ UNCHANGED <<world, asg, quar, quarOk, fresh, pass>>

\* require_container_actions_ancestry fails: take the container down again.
AncestryFails ==
  /\ pc = "witness" /\ "ancestry" \in Faults
  /\ witnessed' \in {witnessed, witnessed \cup {cur}}
  /\ RemoveContainer(cur) \/ ("rm" \in Faults /\ UNCHANGED docker)
  /\ Goto("cleanup")
  /\ UNCHANGED <<github, asg, quar, quarOk, fresh, second, pass, batch>>

\* A failed start deregisters its runner, whatever comes of it, and frees
\* the slot.
CleanUpStart ==
  /\ pc = "cleanup"
  /\ \E r \in DeleteResults : Delete(curId, r)
  /\ TryReleaseSlot(cur)
  /\ NextStart(TRUE)
  /\ UNCHANGED <<docker, quar, quarOk, fresh, pass>>

----------------------------------------------------------------------------
(* Time, crashes and a damaged quarantine table.                            *)

GraceExpires(s) ==
  /\ s \in fresh
  /\ fresh' = fresh \ {s}
  /\ UNCHANGED <<world, disk, pc, second, pass, batch>>

Crash ==
  /\ "crash" \in Faults /\ pc # "idle"
  /\ pc' = "idle" /\ second' = FALSE
  /\ snap' = NoSnap /\ qmem' = [s \in Slots |-> None]
  /\ todo' = {} /\ tried' = 0
  /\ cur' = None /\ curId' = None /\ failed' = {} /\ budget' = 0
  /\ UNCHANGED <<world, disk, fresh>>

CorruptQuarantine ==
  /\ "quarantine_corrupt" \in Faults /\ quarOk
  /\ quarOk' = FALSE
  /\ UNCHANGED <<world, slotFile, quar, fresh, pc, second, pass, batch>>

daemon == <<disk, fresh, pc, second, pass, batch>>

World == WorldNext /\ UNCHANGED daemon

ReleaseStaleSlots ==
  \/ ListFails \/ ListRunners \/ ListContainers
  \/ Path1 \/ Path1WriteFails
  \/ LoadQuarantine \/ Path2 \/ Path2WriteFails
  \/ BeginRecovery \/ Recover \/ RecoverWriteFails \/ SaveQuarantine
  \/ Path4Plan \/ Path4Delete \/ Path3Plan \/ Path3Delete \/ EndPass

Refill ==
  \/ EndTick \/ BeginBatch \/ EndBatch \/ ReserveSlot
  \/ LimitsRefused \/ PreRm \/ JitSucceeds \/ JitConflict \/ HealConflict \/ JitFails
  \/ RecordRunnerId \/ AbandonStart \/ DockerRun
  \/ RecordContainerStarted \/ AncestryFails \/ CleanUpStart

Daemon == StartTick \/ ReleaseStaleSlots \/ Refill

Next ==
  \/ Daemon
  \/ World
  \/ \E s \in Slots : GraceExpires(s)
  \/ Crash
  \/ CorruptQuarantine

Spec == Init /\ [][Next]_vars

(***************************************************************************)
(* Fairness.  Every external call of the daemon has a deadline, so its     *)
(* thread keeps moving; a started runner connects, its job ends, and a     *)
(* runner without a registration exits; GitHub notices a dead runner.      *)
(* Nothing obliges a container to die or GitHub to assign a job, and       *)
(* FairSpec does not oblige GitHub to let go of a dead runner's job, which *)
(* LockSpec adds.                                                          *)
(***************************************************************************)
Fairness ==
  /\ WF_vars(Daemon)
  /\ \A s \in Slots :
       /\ WF_vars(Connect(s) /\ UNCHANGED daemon)
       /\ WF_vars(CompleteJob(s) /\ UNCHANGED daemon)
       /\ WF_vars(ExitUnregistered(s) /\ UNCHANGED daemon)
       /\ WF_vars(GraceExpires(s))
  /\ \A i \in Ids : WF_vars(LoseHeartbeat(i) /\ ~Housed(i) /\ UNCHANGED daemon)

FairSpec == Spec /\ Fairness
LockSpec == FairSpec /\ \A i \in Ids : WF_vars(ReleaseLock(i) /\ UNCHANGED daemon)

----------------------------------------------------------------------------
(* Safety.                                                                  *)

\* Every step of the daemon moves its program counter or its loop.
DaemonStep == <<pc, todo>>' # <<pc, todo>>

LiveRunner(s) == container[s] # None /\ Registered(container[s])

\* A container whose runner GitHub still knows, or that is running a job, is
\* held in the slot file by exactly that runner's id: this is what keeps
\* next_slot_excluding from handing out a name a live container bears.
RowHoldsRunner ==
  \A s \in Slots : LiveRunner(s) \/ phase[s] = "worker" => asg[s] = container[s]

\* The pre-start `docker rm -f` of start_one_with_generate_at_slot only ever
\* removes a stale container: never one with a job, and never one whose
\* runner could still be given one.
PreRmSparesRunners ==
  pc = "prerm" => phase[cur] # "worker" /\ ~LiveRunner(cur)

\* No reconciliation path deregisters a runner whose container lives on,
\* however stale the snapshots it decides from.
LiveKeepsRegistration ==
  DaemonStep => \A s \in Slots :
    LiveRunner(s) /\ container'[s] = container[s]
      => named'[container[s]] = named[container[s]]
NoLiveRunnerDeregistered == [][LiveKeepsRegistration]_vars

\* A registration or reservation inside its grace window is neither released
\* nor deregistered by a release pass unless its start was witnessed (and the
\* container then probed absent) or GitHub had it busy (Path 2's lane).
GraceShieldsNewRunners ==
  [][DaemonStep /\ pc \in PassPcs => \A s \in fresh \ witnessed :
       LET i == asg[s] IN
       /\ i # None /\ qmem[s] = None
       /\ i \notin busy \cup snap.busy
       => asg'[s] = i /\ (i \in Ids => named'[i] = named[i])]_vars

\* While a runner sits in the quarantine table its slot gets no new runner,
\* so its container, if any, is not another's.
QuarantineHoldsSlot ==
  quarOk => \A s \in Slots : quar[s] # None => asg[s] \in {None, quar[s]}

----------------------------------------------------------------------------
(* Liveness.                                                                *)

\* A daemon that is restarted for ever may never finish a tick.
CrashesCease == <>[][~Crash]_vars

\* The fleet heals: once crashes cease, a slot without a container gets one
\* again, unless its runner ends up in quarantine.
SlotsRefilled ==
  CrashesCease =>
    \A s \in Slots : container[s] = None ~> container[s] # None \/ quar[s] # None

\* start_missing_runners: "a single permanently-broken slot (e.g. an
\* unresolvable 409 zombie GitHub registration) can only ever consume one of
\* the `missing` attempts", so every slot that is not itself broken, by a
\* quarantine or by a dead runner GitHub keeps busy under its name, is refilled.
NameHeld(s) == \E i \in Ids : named[i] = s /\ i \in busy /\ ~Housed(i)
SiblingsRefilled ==
  \A s \in Slots : container[s] = None
                    ~> container[s] # None \/ quar[s] # None \/ NameHeld(s)

\* No registration is left behind for good: once crashes cease, one whose
\* container is gone is deregistered, unless GitHub holds a job for it.
OrphansReaped ==
  CrashesCease =>
    \A i \in Ids : Registered(i) /\ ~Housed(i)
                    ~> ~Registered(i) \/ Housed(i) \/ i \in busy

\* A quarantined runner that GitHub has unlocked is deleted and leaves the
\* quarantine table, if no crash comes between the two.
QuarantineLifted ==
  \A s \in Slots : quar[s] # None /\ Registered(quar[s]) /\ quar[s] \notin busy
                    ~> quar[s] = None

\* quarantine.rs, "Auto-recover": the entry of a runner that disappears from
\* the live list is cleared, too.
QuarantineClearedWhenGone ==
  \A s \in Slots : quar[s] # None /\ ~Registered(quar[s]) ~> quar[s] = None
=============================================================================
