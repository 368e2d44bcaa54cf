-------------------------- MODULE RunnerPoolProofs ---------------------------
(***************************************************************************)
(* Theorems about RunnerPool, for every number of slots and every set of   *)
(* runner ids: type correctness, and the safety of what runs.  No live     *)
(* runner loses its row, its name, its container or its registration to    *)
(* the daemon; each of these follows from one inductive invariant, IInv,   *)
(* which every action preserves.                                           *)
(***************************************************************************)
EXTENDS MCPoolWorlds, FiniteSetTheorems, TLAPS

USE CountAssumption, NoneAssumption, FaultsAssumption, ReservedAssumption

----------------------------------------------------------------------------
(* Type correctness.                                                        *)

LEMMA MissingType == ASSUME TypeOK PROVE Missing \in 0 .. Count
<1>1. IsFiniteSet(Slots) /\ Cardinality(Slots) = Count
  BY FS_Interval, 1 \in Int, Count \in Int DEF Slots
<1>2. RunningSlots \in SUBSET Slots
  BY DEF RunningSlots
<1>3. Cardinality(RunningSlots) \in Nat /\ Cardinality(RunningSlots) <= Count
  BY <1>1, <1>2, FS_Subset, FS_CardinalityType
<1>4. QED
  BY <1>3 DEF Missing

LEMMA NoSnapType == NoSnap \in Snapshots
  BY DEF NoSnap, Snapshots

\* What typing relies on: a phase belongs to a container, and a start has a
\* slot and, from the registration on, a runner id.
Housing == \A s \in Slots : container[s] = None <=> phase[s] = "off"
HasSlot == {"prerm", "jit", "heal", "retry", "record", "run", "witness", "cleanup"}
HasId   == {"heal", "record", "run", "witness", "cleanup"}
Starting ==
  /\ pc \in HasSlot => cur \in Slots
  /\ pc \in HasId => curId \in Ids
Typed == TypeOK /\ Housing /\ Starting

LEMMA TypeInit == Init => Typed
<1> SUFFICES ASSUME Init PROVE Typed
  OBVIOUS
<1>1. WorldTypeOK
  BY DEF Init, WorldInit, WorldTypeOK, Phases
<1>2. snap \in Snapshots
  BY NoSnapType DEF Init, DaemonInit
<1>3. quarOk \in BOOLEAN /\ second \in BOOLEAN
  BY DEF Init, DaemonInit
<1>4. budget \in 0 .. Count /\ tried \in 0 .. 1
  BY DEF Init, DaemonInit
<1>5. pc \in Pcs
  BY DEF Init, DaemonInit, Pcs
<1>6. TypeOK
  BY <1>1, <1>2, <1>3, <1>4, <1>5 DEF Init, DaemonInit, TypeOK
<1>7. Housing /\ Starting
  BY DEF Init, WorldInit, DaemonInit, Housing, Starting, HasSlot, HasId
<1>8. QED
  BY <1>6, <1>7 DEF Typed

USE DEF Goto, world, disk, slotFile, batch, pass, daemon, github, docker

LEMMA WorldTypeStep ==
  ASSUME WorldTypeOK, Housing, WorldNext
  PROVE  WorldTypeOK' /\ Housing'
<1> USE DEF WorldTypeOK, Housing, RemoveContainer, Unregister, Phases
<1>1. ASSUME NEW s \in Slots,
             \/ Connect(s) \/ AssignJob(s) \/ CompleteJob(s)
             \/ ExitUnregistered(s) \/ Die(s) \/ Reconnect(s)
      PROVE  WorldTypeOK' /\ Housing'
  <2>1. CASE Connect(s)
    BY <2>1 DEF Connect
  <2>2. CASE AssignJob(s)
    BY <2>2 DEF AssignJob
  <2>3. CASE CompleteJob(s)
    BY <2>3 DEF CompleteJob
  <2>4. CASE ExitUnregistered(s)
    BY <2>4 DEF ExitUnregistered
  <2>5. CASE Die(s)
    BY <2>5 DEF Die
  <2>6. CASE Reconnect(s)
    BY <2>6 DEF Reconnect
  <2>7. QED
    BY <1>1, <2>1, <2>2, <2>3, <2>4, <2>5, <2>6
<1>2. ASSUME NEW i \in Ids, LoseHeartbeat(i) \/ ReleaseLock(i) \/ Forget(i)
      PROVE  WorldTypeOK' /\ Housing'
  BY <1>2 DEF LoseHeartbeat, ReleaseLock, Forget
<1>3. QED
  BY <1>1, <1>2 DEF WorldNext

LEMMA DeleteType ==
  ASSUME WorldTypeOK, NEW i, NEW r, Delete(i, r), UNCHANGED docker
  PROVE  WorldTypeOK'
  BY DEF Delete, Unregister, WorldTypeOK

LEMMA ReclaimType ==
  ASSUME WorldTypeOK, NEW i, NEW healed, ReclaimZombie(i, healed), UNCHANGED docker
  PROVE  WorldTypeOK'
  BY DEF ReclaimZombie, Unregister, WorldTypeOK

LEMMA ReapedType ==
  ASSUME snap \in Snapshots, NEW i, Reaped(i)
  PROVE  snap' \in Snapshots
  BY DEF Reaped, Snapshots

LEMMA PassOverType ==
  ASSUME TypeOK, PassOver
  PROVE  /\ pc' \in Pcs /\ snap' \in Snapshots /\ todo' = {} /\ tried' = 0
         /\ qmem' \in [Slots -> Ids \cup {None}]
  BY NoSnapType DEF PassOver, TypeOK, Pcs, PassPcs

LEMMA BatchOverType ==
  ASSUME TypeOK, BatchOver
  PROVE  /\ pc' \in Pcs /\ second' \in BOOLEAN /\ cur' = None /\ curId' = None
         /\ failed' = {} /\ budget' \in 0 .. Count
  BY DEF BatchOver, TypeOK, Pcs, PassPcs

LEMMA SlotsType ==
  ASSUME TypeOK, NEW s, ReleaseSlot(s) \/ KeepSlots \/ TryReleaseSlot(s)
  PROVE  asg' \in [Slots -> Ids \cup {None, Reserved}] /\ witnessed' \in SUBSET Slots
  BY DEF TypeOK, ReleaseSlot, KeepSlots, TryReleaseSlot

\* The steps of a release pass.
LEMMA TypePass == ASSUME TypeOK, Housing, ReleaseStaleSlots PROVE TypeOK' /\ Housing'
<1> USE DEF TypeOK, Housing, Pcs, PassPcs
<1>1. CASE ListFails
  BY <1>1, PassOverType DEF ListFails, WorldTypeOK
<1>2. CASE ListRunners
  <2>1. snap' \in Snapshots
    <3>1. PICK M \in Missable :
            snap' = [NoSnap EXCEPT !.named = [i \in Ids |-> IF i \in M THEN None ELSE named[i]],
                                   !.online = online \ M, !.busy = busy \ M,
                                   !.asg = asg, !.witnessed = witnessed]
      BY <1>2 DEF ListRunners
    <3>2. QED
      BY <3>1 DEF WorldTypeOK, Snapshots, NoSnap
  <2>2. QED
    BY <1>2, <2>1 DEF ListRunners, WorldTypeOK
<1>3. CASE ListContainers
  <2>1. snap' \in Snapshots
    <3>1. CASE UNCHANGED snap
      BY <3>1
    <3>2. CASE snap' = [snap EXCEPT !.names = RunningSlots, !.psOk = TRUE]
      BY <3>2 DEF Snapshots, RunningSlots
    <3>3. QED
      BY <1>3, <3>1, <3>2 DEF ListContainers
  <2>2. QED
    BY <1>3, <2>1 DEF ListContainers, WorldTypeOK
<1>4. CASE Path1
  BY <1>4, SlotsType DEF Path1, WorldTypeOK
<1>5. CASE Path1WriteFails
  BY <1>5, PassOverType DEF Path1WriteFails, WorldTypeOK
<1>6. CASE LoadQuarantine
  BY <1>6 DEF LoadQuarantine, WorldTypeOK, Zombies
<1>7. CASE Path2
  BY <1>7 DEF Path2, WorldTypeOK, ReleaseSlot, KeepSlots, FreeZombie, QuarantineSlot,
              Delete, Unregister, ReclaimZombie
<1>8. CASE Path2WriteFails
  <2>1. WorldTypeOK'
    BY <1>8, DeleteType, ReclaimType DEF Path2WriteFails
  <2>2. QED
    BY <1>8, <2>1, PassOverType DEF Path2WriteFails
<1>9. CASE BeginRecovery
  BY <1>9 DEF BeginRecovery, WorldTypeOK, QuarantinedInMemory
<1>10. CASE Recover
  BY <1>10 DEF Recover, WorldTypeOK, ReleaseSlot, FreeZombie, Delete, Unregister
<1>11. CASE RecoverWriteFails
  <2>1. WorldTypeOK'
    BY <1>11, DeleteType DEF RecoverWriteFails
  <2>2. QED
    BY <1>11, <2>1, PassOverType DEF RecoverWriteFails
<1>12. CASE SaveQuarantine
  BY <1>12 DEF SaveQuarantine, WorldTypeOK
<1>13. CASE Path4Plan
  BY <1>13 DEF Path4Plan, WorldTypeOK, Reapable
<1>14. CASE Path4Delete
  <2>1. WorldTypeOK'
    BY <1>14, DeleteType, ReclaimType DEF Path4Delete
  <2>2. snap' \in Snapshots
    BY <1>14, ReapedType DEF Path4Delete
  <2>3. QED
    BY <1>14, <2>1, <2>2 DEF Path4Delete
<1>15. CASE Path3Plan
  BY <1>15 DEF Path3Plan, WorldTypeOK, Unowned
<1>16. CASE Path3Delete
  <2>1. WorldTypeOK'
    BY <1>16, DeleteType DEF Path3Delete
  <2>2. QED
    BY <1>16, <2>1 DEF Path3Delete
<1>17. CASE EndPass
  BY <1>17, PassOverType DEF EndPass, WorldTypeOK
<1>18. QED
  BY <1>1, <1>2, <1>3, <1>4, <1>5, <1>6, <1>7, <1>8, <1>9, <1>10, <1>11, <1>12,
     <1>13, <1>14, <1>15, <1>16, <1>17 DEF ReleaseStaleSlots

\* The steps of a refill batch.
LEMMA TypeRefill == ASSUME TypeOK, Housing, Starting, Refill PROVE TypeOK' /\ Housing'
<1> USE DEF TypeOK, Housing, Starting, HasSlot, HasId, Pcs, PassPcs, BatchPcs
<1>1. CASE EndTick
  BY <1>1 DEF EndTick, WorldTypeOK
<1>2. CASE BeginBatch
  BY <1>2, MissingType DEF BeginBatch, WorldTypeOK
<1>3. CASE EndBatch
  BY <1>3, BatchOverType DEF EndBatch, WorldTypeOK
<1>4. CASE ReserveSlot
  BY <1>4 DEF ReserveSlot, WorldTypeOK, Allocatable
<1>5. CASE LimitsRefused
  BY <1>5, BatchOverType DEF LimitsRefused, WorldTypeOK
<1>6. CASE PreRm
  BY <1>6 DEF PreRm, WorldTypeOK, RemoveContainer, Phases
<1>7. CASE JitSucceeds
  BY <1>7 DEF JitSucceeds, WorldTypeOK, Register, Unused
<1>8. CASE JitConflict
  BY <1>8 DEF JitConflict, WorldTypeOK, Conflicts
<1>9. CASE HealConflict
  <2>1. WorldTypeOK'
    BY <1>9, DeleteType DEF HealConflict
  <2>2. QED
    BY <1>9, <2>1 DEF HealConflict
<1>10. CASE JitFails
  <2>1. WorldTypeOK'
    <3>1. CASE UNCHANGED github
      BY <1>10, <3>1 DEF JitFails, WorldTypeOK
    <3>2. CASE \E r \in {"locked", "failed"} : Delete(curId, r)
      BY <1>10, <3>2, DeleteType DEF JitFails
    <3>3. CASE \E i \in Unused : Register(i, cur)
      BY <1>10, <3>3 DEF JitFails, WorldTypeOK, Register, Unused
    <3>4. QED
      BY <1>10, <3>1, <3>2, <3>3 DEF JitFails
  <2>2. QED
    BY <1>10, <2>1, SlotsType, BatchOverType DEF JitFails
<1>11. CASE RecordRunnerId
  BY <1>11 DEF RecordRunnerId, WorldTypeOK
<1>12. CASE AbandonStart
  BY <1>12 DEF AbandonStart, NextStart, WorldTypeOK
<1>13. CASE DockerRun
  BY <1>13 DEF DockerRun, WorldTypeOK, StartContainer, Phases
<1>14. CASE RecordContainerStarted
  BY <1>14 DEF RecordContainerStarted, NextStart, WorldTypeOK
<1>15. CASE AncestryFails
  BY <1>15 DEF AncestryFails, WorldTypeOK, RemoveContainer, Phases
<1>16. CASE CleanUpStart
  <2>1. WorldTypeOK'
    BY <1>16, DeleteType DEF CleanUpStart
  <2>2. QED
    BY <1>16, <2>1, SlotsType DEF CleanUpStart, NextStart
<1>17. QED
  BY <1>1, <1>2, <1>3, <1>4, <1>5, <1>6, <1>7, <1>8, <1>9, <1>10, <1>11, <1>12,
     <1>13, <1>14, <1>15, <1>16 DEF Refill

\* A slot and an id are at hand whenever a start needs them.
LEMMA StartingStep == ASSUME TypeOK, Starting, [Next]_vars PROVE Starting'
<1> USE DEF TypeOK, Starting, HasSlot, HasId
<1>1. CASE ReleaseStaleSlots
  <2>1. pc' \in PassPcs \cup {"idle", "count"}
    BY <1>1 DEF ReleaseStaleSlots, ListFails, ListRunners, ListContainers, Path1,
       Path1WriteFails, LoadQuarantine, Path2, Path2WriteFails, BeginRecovery, Recover,
       RecoverWriteFails, SaveQuarantine, Path4Plan, Path4Delete, Path3Plan,
       Path3Delete, EndPass, PassOver, PassPcs
  <2>2. QED
    BY <2>1 DEF PassPcs
<1>2. CASE Refill
  <2>1. CASE ReserveSlot
    BY <2>1 DEF ReserveSlot, Allocatable
  <2>2. CASE PreRm \/ RecordRunnerId \/ DockerRun \/ AncestryFails
    BY <2>2 DEF PreRm, RecordRunnerId, DockerRun, AncestryFails
  <2>3. CASE JitSucceeds \/ JitConflict \/ HealConflict
    BY <2>3 DEF JitSucceeds, JitConflict, HealConflict, Unused, Conflicts
  <2>4. CASE \/ EndTick \/ BeginBatch \/ EndBatch \/ LimitsRefused \/ JitFails
             \/ AbandonStart \/ RecordContainerStarted \/ CleanUpStart
    BY <2>4 DEF EndTick, BeginBatch, EndBatch, LimitsRefused, JitFails, AbandonStart,
       RecordContainerStarted, CleanUpStart, BatchOver, NextStart
  <2>5. QED
    BY <1>2, <2>1, <2>2, <2>3, <2>4 DEF Refill
<1>3. CASE \/ StartTick \/ World \/ Crash \/ CorruptQuarantine
           \/ \E s \in Slots : GraceExpires(s)
  BY <1>3 DEF StartTick, World, Crash, CorruptQuarantine, GraceExpires
<1>4. CASE UNCHANGED vars
  BY <1>4 DEF vars
<1>5. QED
  BY <1>1, <1>2, <1>3, <1>4 DEF Next, Daemon

LEMMA TypeStep == Typed /\ [Next]_vars => Typed'
<1> SUFFICES ASSUME TypeOK, Housing, Starting, [Next]_vars PROVE TypeOK' /\ Housing'
  BY StartingStep DEF Typed
<1>1. CASE StartTick
  BY <1>1 DEF StartTick, TypeOK, WorldTypeOK, Housing, Pcs, PassPcs
<1>2. CASE World
  <2>1. WorldTypeOK' /\ Housing'
    BY <1>2, WorldTypeStep DEF World, TypeOK
  <2>2. QED
    BY <1>2, <2>1 DEF World, TypeOK
<1>3. CASE \E s \in Slots : GraceExpires(s)
  BY <1>3 DEF GraceExpires, TypeOK, WorldTypeOK, Housing
<1>4. CASE Crash
  <2>1. snap' \in Snapshots /\ second' \in BOOLEAN
    BY <1>4, NoSnapType DEF Crash
  <2>2. WorldTypeOK' /\ Housing'
    BY <1>4 DEF Crash, TypeOK, WorldTypeOK, Housing
  <2>3. QED
    BY <1>4, <2>1, <2>2 DEF Crash, TypeOK, Pcs
<1>5. CASE CorruptQuarantine
  BY <1>5 DEF CorruptQuarantine, TypeOK, WorldTypeOK, Housing
<1>6. CASE UNCHANGED vars
  BY <1>6 DEF vars, TypeOK, WorldTypeOK, Housing
<1>7. QED
  BY <1>1, <1>2, <1>3, <1>4, <1>5, <1>6, TypePass, TypeRefill DEF Next, Daemon

\* Every reachable state is well typed, whatever the fleet's size and faults.
THEOREM TypeCorrect == Spec => []TypeOK
<1>1. Spec => []Typed
  BY TypeInit, TypeStep, PTL DEF Spec
<1>2. QED
  BY <1>1, PTL DEF Typed

----------------------------------------------------------------------------
(* The inductive invariant.                                                 *)

\* What the theorems assume of the world.  A docker run that outlives its
\* client, a failed docker rm after a failed ancestry check, and a forgotten
\* registration met while docker ps is down, and a listing that misses a
\* runner each leave a live container without a row: the runs LateContainer
\* and ShiftedList show the first and the last.
SafeFaults ==
  /\ "timeout" \notin Faults
  /\ "shift" \notin Faults
  /\ ~({"ancestry", "rm"} \subseteq Faults)
  /\ ~({"drop", "ps"} \subseteq Faults)

Dead(s) == ~LiveRunner(s) /\ phase[s] # "worker"

\* A runner's registration bears the name of the one slot it was made for.
NamesFit ==
  /\ \A s \in Slots :
       /\ container[s] \in Ids => named[container[s]] \in {None, s}
       /\ asg[s] \in Ids => named[asg[s]] \in {None, s}
       /\ quar[s] \in Ids => named[quar[s]] \in {None, s}
       /\ qmem[s] \in Ids => named[qmem[s]] \in {None, s}
  /\ pc \in HasId => named[curId] \in {None, cur}

OneHouse ==
  \A s, t \in Slots : container[s] # None /\ container[s] = container[t] => s = t

\* GitHub's flags are about registrations; a job is visible to GitHub unless
\* GitHub has forgotten its runner.
FlagsFit ==
  /\ \A i \in online \cup busy : Registered(i)
  /\ \A s \in Slots : phase[s] = "worker" =>
       container[s] \in busy \/ ("drop" \in Faults /\ ~Registered(container[s]))

\* During a start the row follows it, and no container has its runner yet.
StartHoldsRow ==
  /\ pc \in {"prerm", "jit", "heal", "retry", "record"} => asg[cur] = Reserved
  /\ pc \in {"run", "witness", "cleanup"} => asg[cur] = curId
  /\ pc \in {"record", "run"} => ~Housed(curId)
  /\ pc = "cleanup" => Dead(cur)
  /\ pc \in HasSlot /\ quarOk => quar[cur] = None

\* What remains true of the snapshots of a pass: rows are only released,
\* registrations only disappear, and no container comes up.
SnapPcs == PassPcs \ {"list"}
PsPcs   == PassPcs \ {"list", "ps"}
SnapshotHolds ==
  /\ pc \in SnapPcs =>
       /\ \A s \in Slots : asg[s] \in {snap.asg[s], None}
       /\ \A s \in Slots : snap.asg[s] \in Ids => snap.named[snap.asg[s]] \in {None, s}
       /\ \A s \in snap.witnessed : asg[s] # None => s \in witnessed
       /\ \A i \in Ids : Registered(i) => snap.named[i] = named[i]
  /\ pc = "ps" => ~snap.psOk
  /\ pc \in PsPcs =>
       IF snap.psOk THEN \A s \in Slots \ snap.names : container[s] = None
                    ELSE "ps" \in Faults

\* What each loop of the pass has before it.
WorklistFits ==
  /\ pc = "path1" => todo \subseteq Slots
  /\ pc = "recover" => todo \subseteq QuarantinedInMemory
  /\ pc = "path2" => snap.psOk /\ todo \subseteq Zombies
  /\ pc = "path4del" =>
       \A i \in todo : /\ i \in Ids /\ snap.psOk
                       /\ snap.named[i] \in Slots \ snap.names
                       /\ \A s \in fresh \ witnessed : snap.named[i] = s => asg[s] # i
  /\ pc = "path3" => \A i \in todo : i \in Ids /\ \A s \in Slots : snap.asg[s] # i

\* A quarantined slot has no container and no other runner, in the table on
\* disk and in the one the pass works on.
QuarantineFits ==
  /\ QuarantineHoldsSlot
  /\ quarOk => \A s \in Slots : quar[s] # None => container[s] = None
  /\ pc \in {"path2", "recover", "saveq"} => \A s \in Slots :
       qmem[s] # None => container[s] = None /\ asg[s] \in {None, qmem[s]}
  /\ pc \notin PassPcs => \A s \in Slots : qmem[s] = None

SlotSafety ==
  /\ RowHoldsRunner
  /\ NamesFit /\ OneHouse /\ FlagsFit
  /\ StartHoldsRow
  /\ SnapshotHolds /\ WorklistFits /\ QuarantineFits

IInv == Typed /\ SlotSafety

LEMMA IInvInit == Init => IInv
<1>1. Init => SlotSafety
  BY DEF Init, WorldInit, DaemonInit, SlotSafety, RowHoldsRunner, LiveRunner, NamesFit,
     OneHouse, FlagsFit, StartHoldsRow, HasSlot, HasId, SnapshotHolds, SnapPcs, PsPcs,
     PassPcs, WorklistFits, QuarantineFits, QuarantineHoldsSlot
<1>2. QED
  BY <1>1, TypeInit DEF IInv

\* With SafeFaults a listing shows every registration.
LEMMA CompleteListing ==
  ASSUME IInv, SafeFaults, ListRunners
  PROVE  /\ snap'.named = named /\ snap'.online = online /\ snap'.busy = busy
         /\ snap'.asg = asg /\ snap'.witnessed = witnessed
         /\ snap'.names = {} /\ snap'.psOk = FALSE
<1>1. Missable = {{}}
  BY DEF Missable, SafeFaults
<1>2. named = [i \in Ids |-> IF i \in {} THEN None ELSE named[i]]
  BY DEF IInv, Typed, TypeOK, WorldTypeOK
<1>3. snap' = [NoSnap EXCEPT !.named = named, !.online = online \ {}, !.busy = busy \ {},
                             !.asg = asg, !.witnessed = witnessed]
  BY <1>1, <1>2 DEF ListRunners
<1>4. QED
  BY <1>3 DEF NoSnap

\* A listing starts the snapshots of a pass and disturbs nothing else.
LEMMA ListingKeepsSafety == ASSUME IInv, SafeFaults, ListRunners PROVE SlotSafety'
<1>1. /\ pc = "list" /\ pc' = "ps"
      /\ UNCHANGED <<named, online, busy, container, phase, asg, quar, quarOk,
                     witnessed, fresh, qmem, todo>>
  BY DEF ListRunners, Goto, world, disk
<1>2. /\ snap'.named = named /\ snap'.asg = asg /\ snap'.witnessed = witnessed /\ ~snap'.psOk
  BY CompleteListing
<1>3. SnapshotHolds'
  BY <1>1, <1>2 DEF IInv, SlotSafety, NamesFit, SnapshotHolds, SnapPcs, PsPcs, PassPcs
<1>4. (RowHoldsRunner /\ NamesFit /\ OneHouse /\ FlagsFit)'
  BY <1>1 DEF IInv, SlotSafety, RowHoldsRunner, NamesFit, OneHouse, FlagsFit, HasId,
     LiveRunner, Registered, Dead, Housed
<1>5. StartHoldsRow' /\ WorklistFits'
  BY <1>1 DEF StartHoldsRow, WorklistFits, HasSlot
<1>6. QuarantineFits'
  BY <1>1 DEF IInv, SlotSafety, QuarantineFits, QuarantineHoldsSlot, PassPcs
<1>7. QED
  BY <1>3, <1>4, <1>5, <1>6 DEF SlotSafety

\* The steps of a release pass.
LEMMA PassKeepsSafety == ASSUME IInv, SafeFaults, ReleaseStaleSlots PROVE SlotSafety'
<1> USE DEF IInv, Typed, TypeOK, WorldTypeOK, Housing, Starting, HasSlot, HasId, Pcs, PassPcs,
         SlotSafety, RowHoldsRunner, NamesFit, OneHouse, FlagsFit, StartHoldsRow,
         SnapshotHolds, SnapPcs, PsPcs, WorklistFits, QuarantineFits, QuarantineHoldsSlot,
         LiveRunner, Dead, Registered, Housed, Snapshots, Zombies, NoSnap, QuarantinedInMemory,
         SafeFaults
<1>1. CASE ListFails
  BY <1>1 DEF ListFails, PassOver
<1>2. CASE ListRunners
  BY <1>2, ListingKeepsSafety
<1>3. CASE ListContainers
  <2>1. CASE "ps" \in Faults /\ UNCHANGED snap
    BY <1>3, <2>1 DEF ListContainers
  <2>2. CASE snap' = [snap EXCEPT !.names = RunningSlots, !.psOk = TRUE]
    BY <1>3, <2>2 DEF ListContainers, RunningSlots
  <2>3. QED
    BY <1>3, <2>1, <2>2 DEF ListContainers
<1>4. CASE Path1
  BY <1>4 DEF Path1, ReleaseSlot, KeepSlots, Stale, ReservationStale, EmptyIdInGrace,
     UnlistedStale, UnseenStale, ListedStale, Listed, ListedDead, InGrace, Probe, Activity,
     Activities
<1>5. CASE Path1WriteFails
  BY <1>5 DEF Path1WriteFails, PassOver
<1>6. CASE LoadQuarantine
  BY <1>6 DEF LoadQuarantine, Zombies
<1>7. CASE Path2
  BY <1>7 DEF Path2, ReleaseSlot, KeepSlots, FreeZombie, QuarantineSlot,
     Delete, Unregister, ReclaimZombie, Zombies
<1>8. CASE Path2WriteFails
  BY <1>8 DEF Path2WriteFails, PassOver, Delete, Unregister, ReclaimZombie,
     Zombies
<1>9. CASE BeginRecovery
  BY <1>9 DEF BeginRecovery, QuarantinedInMemory
<1>10. CASE Recover
  BY <1>10 DEF Recover, ReleaseSlot, KeepSlots, FreeZombie, Delete, Unregister
<1>11. CASE RecoverWriteFails
  BY <1>11 DEF RecoverWriteFails, PassOver, Delete, Unregister
<1>12. CASE SaveQuarantine
  BY <1>12 DEF SaveQuarantine
<1>13. CASE Path4Plan
  BY <1>13 DEF Path4Plan, Reapable, ListedDead, Listed, RetainedByPath4,
     Retain, InGrace, ProbeOutcomes, Probe, Activity
<1>14. CASE Path4Delete
  BY SMTT(60), <1>14 DEF Path4Delete, Delete, Unregister, ReclaimZombie, Reaped
<1>15. CASE Path3Plan
  BY <1>15 DEF Path3Plan, Unowned, ListedDead, Listed
<1>16. CASE Path3Delete
  BY <1>16 DEF Path3Delete, Delete, Unregister
<1>17. CASE EndPass
  BY <1>17 DEF EndPass, PassOver
<1>18. QED
  BY <1>1, <1>2, <1>3, <1>4, <1>5, <1>6, <1>7, <1>8, <1>9, <1>10, <1>11,
     <1>12, <1>13, <1>14, <1>15, <1>16, <1>17 DEF ReleaseStaleSlots

\* The steps of a refill batch.
LEMMA RefillKeepsSafety == ASSUME IInv, SafeFaults, Refill PROVE SlotSafety'
<1> USE DEF IInv, Typed, TypeOK, WorldTypeOK, Housing, Starting, HasSlot, HasId, Pcs, PassPcs,
         SlotSafety, RowHoldsRunner, NamesFit, OneHouse, FlagsFit, StartHoldsRow,
         SnapshotHolds, SnapPcs, PsPcs, WorklistFits, QuarantineFits, QuarantineHoldsSlot,
         LiveRunner, Dead, Registered, Housed, Snapshots, Zombies, NoSnap, QuarantinedInMemory,
         SafeFaults
<1>1. CASE EndTick
  BY <1>1 DEF EndTick
<1>2. CASE BeginBatch
  BY <1>2 DEF BeginBatch
<1>3. CASE EndBatch
  BY <1>3 DEF EndBatch, BatchOver
<1>4. CASE ReserveSlot
  BY <1>4 DEF ReserveSlot, Allocatable, QuarantineExcluded
<1>5. CASE LimitsRefused
  BY <1>5 DEF LimitsRefused, BatchOver
<1>6. CASE PreRm
  BY <1>6 DEF PreRm, RemoveContainer
<1>7. CASE JitSucceeds
  BY <1>7 DEF JitSucceeds, Register, Unused
<1>8. CASE JitConflict
  BY <1>8 DEF JitConflict, Conflicts
<1>9. CASE HealConflict
  BY <1>9 DEF HealConflict, Delete, Unregister
<1>10. CASE JitFails
  BY <1>10 DEF JitFails, BatchOver, Delete, Unregister, Register, Unused,
     TryReleaseSlot, ReleaseSlot, KeepSlots
<1>11. CASE RecordRunnerId
  BY <1>11 DEF RecordRunnerId
<1>12. CASE AbandonStart
  BY <1>12 DEF AbandonStart, NextStart
<1>13. CASE DockerRun
  BY <1>13 DEF DockerRun, StartContainer
<1>14. CASE RecordContainerStarted
  BY <1>14 DEF RecordContainerStarted, NextStart
<1>15. CASE AncestryFails
  BY <1>15 DEF AncestryFails, RemoveContainer
<1>16. CASE CleanUpStart
  BY <1>16 DEF CleanUpStart, NextStart, Delete, Unregister, TryReleaseSlot,
     ReleaseSlot, KeepSlots
<1>17. QED
  BY <1>1, <1>2, <1>3, <1>4, <1>5, <1>6, <1>7, <1>8, <1>9, <1>10, <1>11,
     <1>12, <1>13, <1>14, <1>15, <1>16 DEF Refill

\* The world's own steps.
LEMMA WorldKeepsSafety == ASSUME IInv, SafeFaults, World PROVE SlotSafety'
<1> USE DEF IInv, Typed, TypeOK, WorldTypeOK, Housing, Starting, HasSlot, HasId, Pcs, PassPcs,
         SlotSafety, RowHoldsRunner, NamesFit, OneHouse, FlagsFit, StartHoldsRow,
         SnapshotHolds, SnapPcs, PsPcs, WorklistFits, QuarantineFits, QuarantineHoldsSlot,
         LiveRunner, Dead, Registered, Housed, Snapshots, Zombies, NoSnap, QuarantinedInMemory,
         SafeFaults
<1>1. ASSUME NEW s \in Slots, UNCHANGED daemon,
             \/ Connect(s) \/ AssignJob(s) \/ CompleteJob(s)
             \/ ExitUnregistered(s) \/ Die(s) \/ Reconnect(s)
      PROVE  SlotSafety'
  <2>1. CASE Connect(s)
    BY <1>1, <2>1 DEF Connect
  <2>2. CASE AssignJob(s)
    BY <1>1, <2>2 DEF AssignJob
  <2>3. CASE CompleteJob(s)
    BY <1>1, <2>3 DEF CompleteJob, Unregister
  <2>4. CASE ExitUnregistered(s)
    BY <1>1, <2>4 DEF ExitUnregistered, RemoveContainer
  <2>5. CASE Die(s)
    BY <1>1, <2>5 DEF Die, RemoveContainer
  <2>6. CASE Reconnect(s)
    BY <1>1, <2>6 DEF Reconnect
  <2>7. QED
    BY <1>1, <2>1, <2>2, <2>3, <2>4, <2>5, <2>6
<1>2. ASSUME NEW i \in Ids, UNCHANGED daemon,
             LoseHeartbeat(i) \/ ReleaseLock(i) \/ Forget(i)
      PROVE  SlotSafety'
  <2>1. CASE LoseHeartbeat(i)
    BY <1>2, <2>1 DEF LoseHeartbeat
  <2>2. CASE ReleaseLock(i)
    BY <1>2, <2>2 DEF ReleaseLock, Unregister
  <2>3. CASE Forget(i)
    BY <1>2, <2>3 DEF Forget, Unregister
  <2>4. QED
    BY <1>2, <2>1, <2>2, <2>3
<1>3. QED
  BY <1>1, <1>2 DEF World, WorldNext

LEMMA IInvStep == ASSUME SafeFaults PROVE IInv /\ [Next]_vars => IInv'
<1> SUFFICES ASSUME IInv, [Next]_vars PROVE SlotSafety'
  BY TypeStep DEF IInv
<1> USE DEF IInv, Typed, TypeOK, WorldTypeOK, Housing, Starting, HasSlot, HasId, Pcs, PassPcs,
         SlotSafety, RowHoldsRunner, NamesFit, OneHouse, FlagsFit, StartHoldsRow,
         SnapshotHolds, SnapPcs, PsPcs, WorklistFits, QuarantineFits, QuarantineHoldsSlot,
         LiveRunner, Dead, Registered, Housed, Snapshots, Zombies, NoSnap, QuarantinedInMemory,
         SafeFaults
<1>1. CASE StartTick
  BY <1>1 DEF StartTick
<1>2. CASE \E s \in Slots : GraceExpires(s)
  BY <1>2 DEF GraceExpires
<1>3. CASE Crash
  BY <1>3 DEF Crash
<1>4. CASE CorruptQuarantine
  BY <1>4 DEF CorruptQuarantine
<1>5. CASE UNCHANGED vars
  BY <1>5 DEF vars
<1>6. QED
  BY <1>1, <1>2, <1>3, <1>4, <1>5, PassKeepsSafety, RefillKeepsSafety,
     WorldKeepsSafety DEF Next, Daemon

LEMMA SafetyInvariant == ASSUME SafeFaults PROVE Spec => []IInv
  BY IInvInit, IInvStep, PTL DEF Spec

----------------------------------------------------------------------------
(* The theorems.                                                            *)

\* A live container, or one running a job, is held in the slot file by its
\* runner's id, so next_slot_excluding never hands out its name.
THEOREM RowsHoldRunners == SafeFaults => (Spec => []RowHoldsRunner)
<1> SUFFICES ASSUME SafeFaults PROVE Spec => []RowHoldsRunner
  OBVIOUS
<1>1. IInv => RowHoldsRunner
  BY DEF IInv, SlotSafety
<1>2. QED
  BY <1>1, SafetyInvariant, PTL

\* The docker rm -f before a start removes no live container and no job.
THEOREM PreRmIsSafe == SafeFaults => (Spec => []PreRmSparesRunners)
<1> SUFFICES ASSUME SafeFaults PROVE Spec => []PreRmSparesRunners
  OBVIOUS
<1>1. ASSUME IInv PROVE PreRmSparesRunners
  <2> SUFFICES ASSUME pc = "prerm" PROVE phase[cur] # "worker" /\ ~LiveRunner(cur)
    BY DEF PreRmSparesRunners
  <2>1. cur \in Slots /\ asg[cur] = Reserved
    BY <1>1 DEF IInv, Typed, Starting, HasSlot, SlotSafety, StartHoldsRow
  <2>2. container[cur] # Reserved
    BY <1>1, <2>1 DEF IInv, Typed, TypeOK, WorldTypeOK
  <2>3. QED
    BY <1>1, <2>1, <2>2 DEF IInv, SlotSafety, RowHoldsRunner
<1>2. QED
  BY <1>1, SafetyInvariant, PTL

\* A quarantined slot is given to no other runner until its entry is lifted.
THEOREM QuarantineIsHeld == SafeFaults => (Spec => []QuarantineHoldsSlot)
<1> SUFFICES ASSUME SafeFaults PROVE Spec => []QuarantineHoldsSlot
  OBVIOUS
<1>1. IInv => QuarantineHoldsSlot
  BY DEF IInv, SlotSafety, QuarantineFits
<1>2. QED
  BY <1>1, SafetyInvariant, PTL

\* A delete request spares every registration but the one it names.
LEMMA DeleteSpares ==
  ASSUME TypeOK, NEW i, NEW r, Delete(i, r), NEW j \in Ids, j # i
  PROVE  named'[j] = named[j]
  BY DEF Delete, Unregister, TypeOK, WorldTypeOK

LEMMA ReclaimSpares ==
  ASSUME TypeOK, NEW i, NEW healed, ReclaimZombie(i, healed), NEW j \in Ids, j # i
  PROVE  named'[j] = named[j]
  BY DEF ReclaimZombie, Unregister, TypeOK, WorldTypeOK

\* Wherever the daemon deletes a registration, that of a live runner is not
\* the one it names.
LEMMA LiveRunnerSpared ==
  ASSUME IInv, Daemon, NEW t \in Slots, LiveRunner(t)
  PROVE  named'[container[t]] = named[container[t]]
<1> DEFINE j == container[t]
<1>0. TypeOK /\ j \in Ids /\ named[j] = t /\ t # None /\ asg[t] = j
  BY DEF IInv, Typed, TypeOK, WorldTypeOK, SlotSafety, RowHoldsRunner, NamesFit,
         LiveRunner, Registered
<1> USE DEF IInv, SlotSafety
<1>1. CASE Path2 \/ Path2WriteFails
  <2>1. PICK s \in todo :
          \/ UNCHANGED github
          \/ \E r \in DeleteResults : Delete(snap.asg[s], r)
          \/ \E healed \in BOOLEAN : ReclaimZombie(snap.asg[s], healed)
    BY <1>1 DEF Path2, Path2WriteFails, DeleteResults
  <2>2. s \in Zombies /\ snap.psOk /\ pc = "path2"
    BY <1>1 DEF Path2, Path2WriteFails, WorklistFits
  <2>3. container[s] = None
    BY <2>2 DEF SnapshotHolds, PsPcs, PassPcs, Zombies
  <2>4. snap.named[j] = t
    BY <1>0, <2>2 DEF SnapshotHolds, SnapPcs, PassPcs, Registered
  <2>5. snap.asg[s] # j
    BY <1>0, <2>2, <2>3, <2>4 DEF Zombies
  <2>6. QED
    BY <1>0, <2>1, <2>5, DeleteSpares, ReclaimSpares
<1>2. CASE Recover \/ RecoverWriteFails
  <2>1. PICK s \in todo :
          UNCHANGED github \/ \E r \in DeleteResults : Delete(qmem[s], r)
    BY <1>2 DEF Recover, RecoverWriteFails, DeleteResults
  <2>2. s \in Slots /\ qmem[s] # None /\ pc = "recover"
    BY <1>2 DEF Recover, RecoverWriteFails, WorklistFits, QuarantinedInMemory
  <2>3. container[s] = None /\ asg[s] \in {None, qmem[s]}
    BY <2>2 DEF QuarantineFits
  <2>4. named[qmem[s]] \in {None, s}
    BY <1>0, <2>2 DEF NamesFit, TypeOK
  <2>5. qmem[s] # j
    BY <1>0, <2>3, <2>4
  <2>6. QED
    BY <1>0, <2>1, <2>5, DeleteSpares
<1>3. CASE Path4Delete
  <2>1. PICK i \in todo : \/ \E r \in DeleteResults : Delete(i, r)
                          \/ \E healed \in BOOLEAN : ReclaimZombie(i, healed)
    BY <1>3 DEF Path4Delete, DeleteResults
  <2>2. /\ pc = "path4del" /\ snap.psOk
        /\ snap.named[i] \in Slots \ snap.names
    BY <1>3 DEF Path4Delete, WorklistFits
  <2>3. container[snap.named[i]] = None
    BY <2>2 DEF SnapshotHolds, PsPcs, PassPcs
  <2>4. snap.named[j] = t
    BY <1>0, <2>2 DEF SnapshotHolds, SnapPcs, PassPcs, Registered
  <2>5. i # j
    BY <1>0, <2>3, <2>4
  <2>6. QED
    BY <1>0, <2>1, <2>5, DeleteSpares, ReclaimSpares
<1>4. CASE Path3Delete
  <2>1. PICK i \in todo : \E r \in DeleteResults : Delete(i, r)
    BY <1>4 DEF Path3Delete
  <2>2. snap.asg[t] # i /\ pc = "path3"
    BY <1>4 DEF Path3Delete, WorklistFits
  <2>3. asg[t] \in {snap.asg[t], None}
    BY <2>2 DEF SnapshotHolds, SnapPcs, PassPcs
  <2>4. QED
    BY <1>0, <2>1, <2>2, <2>3, DeleteSpares
<1>5. CASE HealConflict \/ (JitFails /\ pc = "heal")
  <2>1. pc = "heal" /\ \E r \in DeleteResults : Delete(curId, r)
    BY <1>5 DEF HealConflict, JitFails, DeleteResults
  <2>2. asg[cur] = Reserved /\ named[curId] \in {None, cur}
    BY <2>1 DEF StartHoldsRow, NamesFit, HasId
  <2>3. curId # j
    BY <1>0, <2>2
  <2>4. QED
    BY <1>0, <2>1, <2>3, DeleteSpares
<1>6. CASE JitSucceeds \/ (JitFails /\ pc # "heal")
  <2>1. UNCHANGED github \/ \E i \in Unused : Register(i, cur)
    BY <1>6 DEF JitSucceeds, JitFails
  <2>2. j \notin Unused
    BY <1>0 DEF Unused
  <2>3. QED
    BY <1>0, <2>1, <2>2 DEF Register, Unused, TypeOK, WorldTypeOK
<1>7. CASE CleanUpStart
  <2>1. pc = "cleanup" /\ \E r \in DeleteResults : Delete(curId, r)
    BY <1>7 DEF CleanUpStart
  <2>2. ~LiveRunner(cur) /\ named[curId] \in {None, cur}
    BY <2>1 DEF StartHoldsRow, NamesFit, HasId, Dead
  <2>3. curId # j
    BY <1>0, <2>2
  <2>4. QED
    BY <1>0, <2>1, <2>3, DeleteSpares
<1>8. QED
  <2>1. CASE UNCHANGED named
    BY <2>1
  <2>2. CASE ReleaseStaleSlots
    BY <2>1, <2>2, <1>1, <1>2, <1>3, <1>4 DEF ReleaseStaleSlots, ListFails, ListRunners,
       ListContainers, Path1, Path1WriteFails, LoadQuarantine, BeginRecovery,
       SaveQuarantine, Path4Plan, Path3Plan, EndPass
  <2>3. CASE StartTick \/ Refill
    BY <2>1, <2>3, <1>5, <1>6, <1>7 DEF StartTick, Refill, EndTick, BeginBatch, EndBatch,
       ReserveSlot, LimitsRefused, PreRm, JitConflict, RecordRunnerId, AbandonStart,
       DockerRun, RecordContainerStarted, AncestryFails
  <2>4. QED
    BY <2>2, <2>3 DEF Daemon

\* A step that moves the daemon's program counter or loop, and changes what
\* GitHub holds, is one of the daemon's own.
LEMMA DaemonMoves ==
  ASSUME [Next]_vars, DaemonStep, UNCHANGED named => FALSE
  PROVE  Daemon
  BY DEF Next, World, GraceExpires, Crash, CorruptQuarantine, vars, DaemonStep

\* No path of the daemon deregisters a runner whose container lives on.
THEOREM NoLiveRunnerIsDeregistered ==
  SafeFaults => (Spec => NoLiveRunnerDeregistered)
<1> SUFFICES ASSUME SafeFaults PROVE Spec => NoLiveRunnerDeregistered
  OBVIOUS
<1>1. ASSUME IInv, [Next]_vars, DaemonStep, NEW s \in Slots, LiveRunner(s),
             container'[s] = container[s]
      PROVE  named'[container[s]] = named[container[s]]
  BY <1>1, LiveRunnerSpared, DaemonMoves
<1>2. IInv /\ [Next]_vars => [LiveKeepsRegistration]_vars
  BY <1>1 DEF LiveKeepsRegistration
<1>3. QED
  BY <1>2, SafetyInvariant, PTL DEF Spec, NoLiveRunnerDeregistered

\* OneSlotSafe, the two at once in the worlds of one slot: in the one with all the
\* failures of the configuration, within SafeFaults, a live runner keeps its row
\* and its registration.
THEOREM OneSlotIsSafe == SafeFaults => (OneSlotWorlds => OneSlotSafe)
<1> SUFFICES ASSUME SafeFaults PROVE OneSlotWorlds => OneSlotSafe
  OBVIOUS
<1>1. OneSlotWorlds /\ part = "endures" => Spec
  <2>1. part = "endures" /\ [OneSlotNext]_<<vars, part>>
          => [Next]_vars /\ (part = "endures")'
    BY DEF OneSlotNext
  <2>2. QED
    BY <2>1, PTL DEF OneSlotWorlds, OneSlotInit, Spec
<1>2. ~(part = "endures") /\ [OneSlotNext]_<<vars, part>> => ~(part = "endures")'
  BY DEF OneSlotNext
<1>3. Spec => []RowHoldsRunner /\ [][LiveKeepsRegistration]_vars
  BY RowsHoldRunners, NoLiveRunnerIsDeregistered DEF NoLiveRunnerDeregistered
<1>4. QED
  BY <1>1, <1>2, <1>3, PTL DEF OneSlotWorlds, OneSlotSafe

\* What a release pass may not do to row s: the body of GraceShieldsNewRunners.
Shielded(s) ==
  /\ asg[s] # None /\ qmem[s] = None
  /\ s \in fresh \ witnessed
  /\ asg[s] \notin busy \cup snap.busy
Kept(s) == asg'[s] = asg[s] /\ (asg[s] \in Ids => named'[asg[s]] = named[asg[s]])

LEMMA ShieldedKept ==
  ASSUME IInv, ReleaseStaleSlots, NEW t \in Slots, Shielded(t)
  PROVE  Kept(t)
<1> DEFINE j == asg[t]
<1>0. /\ TypeOK /\ t # None
      /\ j \in Ids \cup {Reserved}
      /\ j \in Ids => named[j] \in {None, t}
  BY DEF IInv, Typed, TypeOK, Shielded, SlotSafety, NamesFit, Slots
<1> USE DEF IInv, SlotSafety
<1>1. CASE Path1
  <2>1. PICK s \in todo : \E activity \in Probe(s) :
          IF Stale(s, activity) THEN ReleaseSlot(s) ELSE KeepSlots
    BY <1>1 DEF Path1
  <2>2. /\ pc = "path1" /\ s \in Slots
        /\ j = snap.asg[t] /\ j # None
        /\ t \notin snap.witnessed
        /\ j \in Ids => snap.named[j] \in {None, t}
    BY <1>0, <1>1 DEF Path1, WorklistFits, SnapshotHolds, SnapPcs, PassPcs, Shielded
  <2>3. \A activity : ~Stale(t, activity)
    BY <1>0, <2>2 DEF Stale, ReservationStale, EmptyIdInGrace, UnlistedStale, UnseenStale,
       ListedStale, InGrace, RetainedByPath1, Retain, Listed, ListedDead, Shielded
  <2>4. asg'[t] = asg[t]
    BY <1>0, <2>1, <2>3 DEF ReleaseSlot, KeepSlots, TypeOK
  <2>5. QED
    BY <1>1, <2>4 DEF Path1, Kept
<1>2. CASE Path2 \/ Path2WriteFails
  <2>1. PICK s \in todo :
          /\ \/ UNCHANGED github
             \/ \E r \in DeleteResults : Delete(snap.asg[s], r)
             \/ \E healed \in BOOLEAN : ReclaimZombie(snap.asg[s], healed)
          /\ KeepSlots \/ ReleaseSlot(s)
    BY <1>2 DEF Path2, Path2WriteFails, DeleteResults, QuarantineSlot, FreeZombie, KeepSlots
  <2>2. s \in Zombies /\ j = snap.asg[t] /\ (j \in Ids => snap.named[j] \in {None, t})
    BY <1>0, <1>2 DEF Path2, Path2WriteFails, WorklistFits, SnapshotHolds, SnapPcs, PassPcs,
       Shielded
  <2>3. s # t /\ snap.asg[s] # j
    BY <1>0, <2>2 DEF Zombies, Shielded
  <2>4. QED
    BY <1>0, <2>1, <2>2, <2>3, DeleteSpares, ReclaimSpares
       DEF Kept, KeepSlots, ReleaseSlot, TypeOK, Zombies
<1>3. CASE Recover \/ RecoverWriteFails
  <2>1. PICK s \in todo :
          /\ UNCHANGED github \/ \E r \in DeleteResults : Delete(qmem[s], r)
          /\ KeepSlots \/ ReleaseSlot(s)
    BY <1>3 DEF Recover, RecoverWriteFails, DeleteResults, FreeZombie, KeepSlots
  <2>2. s \in Slots /\ qmem[s] # None /\ named[qmem[s]] \in {None, s}
    BY <1>0, <1>3 DEF Recover, RecoverWriteFails, WorklistFits, QuarantinedInMemory,
       NamesFit, TypeOK
  <2>3. s # t
    BY <2>2 DEF Shielded
  <2>4. CASE qmem[s] # j
    BY <1>0, <2>1, <2>3, <2>4, DeleteSpares DEF Kept, KeepSlots, ReleaseSlot, TypeOK
  <2>5. CASE qmem[s] = j
    <3>1. named[j] = None
      BY <1>0, <2>2, <2>3, <2>5, ReservedAssumption DEF TypeOK
    <3>2. QED
      BY <1>0, <2>1, <2>2, <2>3, <3>1
         DEF Kept, KeepSlots, ReleaseSlot, TypeOK, WorldTypeOK, Delete, Unregister
  <2>6. QED
    BY <2>4, <2>5
<1>4. CASE Path4Delete
  <2>1. PICK i \in todo : \/ \E r \in DeleteResults : Delete(i, r)
                          \/ \E healed \in BOOLEAN : ReclaimZombie(i, healed)
    BY <1>4 DEF Path4Delete, DeleteResults
  <2>2. /\ i \in Ids /\ snap.named[i] \in Slots
        /\ snap.named[i] = t => j # i
        /\ Registered(i) => snap.named[i] = named[i]
    BY <1>4 DEF Path4Delete, WorklistFits, SnapshotHolds, SnapPcs, PassPcs, Shielded
  <2>3. CASE i # j
    BY <1>0, <1>4, <2>1, <2>3, DeleteSpares, ReclaimSpares DEF Path4Delete, Kept
  <2>4. CASE i = j
    BY <1>0, <1>4, <2>1, <2>2, <2>4
       DEF Path4Delete, Kept, Registered, Delete, Unregister, ReclaimZombie, TypeOK, WorldTypeOK
  <2>5. QED
    BY <2>3, <2>4
<1>5. CASE Path3Delete
  <2>1. PICK i \in todo : \E r \in DeleteResults : Delete(i, r)
    BY <1>5 DEF Path3Delete
  <2>2. i # j
    BY <1>0, <1>5 DEF Path3Delete, WorklistFits, SnapshotHolds, SnapPcs, PassPcs, Shielded
  <2>3. QED
    BY <1>0, <1>5, <2>1, <2>2, DeleteSpares DEF Path3Delete, Kept
<1>6. QED
  BY <1>1, <1>2, <1>3, <1>4, <1>5 DEF ReleaseStaleSlots, ListFails, ListRunners,
     ListContainers, Path1WriteFails, LoadQuarantine, BeginRecovery, SaveQuarantine,
     Path4Plan, Path3Plan, EndPass, Kept

\* A release pass leaves a registration or reservation inside its grace window
\* alone, unless its start was witnessed or GitHub had it busy.
THEOREM GraceShields == SafeFaults => (Spec => GraceShieldsNewRunners)
<1> SUFFICES ASSUME SafeFaults PROVE Spec => GraceShieldsNewRunners
  OBVIOUS
<1>1. ASSUME IInv, [Next]_vars, DaemonStep, pc \in PassPcs, NEW s \in Slots, Shielded(s)
      PROVE  Kept(s)
  <2>1. CASE ReleaseStaleSlots
    BY <1>1, <2>1, ShieldedKept
  <2>2. CASE UNCHANGED <<asg, named>>
    BY <2>2 DEF Kept
  <2>3. CASE StartTick \/ Refill
    BY <1>1, <2>3 DEF PassPcs, StartTick, Refill, EndTick, BeginBatch, EndBatch,
       ReserveSlot, LimitsRefused, PreRm, JitSucceeds, JitConflict, HealConflict, JitFails,
       RecordRunnerId, AbandonStart, DockerRun, RecordContainerStarted, AncestryFails,
       CleanUpStart
  <2>4. CASE World
    BY <1>1, <2>4 DEF World, DaemonStep
  <2>5. QED
    BY <1>1, <2>1, <2>2, <2>3, <2>4
       DEF Next, Daemon, GraceExpires, Crash, CorruptQuarantine, vars
<1>2. IInv /\ [Next]_vars =>
        [DaemonStep /\ pc \in PassPcs => \A s \in fresh \ witnessed :
           LET i == asg[s] IN
           /\ i # None /\ qmem[s] = None
           /\ i \notin busy \cup snap.busy
           => asg'[s] = i /\ (i \in Ids => named'[i] = named[i])]_vars
  BY <1>1 DEF Shielded, Kept, IInv, Typed, TypeOK
<1>3. QED
  BY <1>2, SafetyInvariant, PTL DEF Spec, GraceShieldsNewRunners
=============================================================================
