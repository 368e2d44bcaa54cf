------------------------- MODULE FailureLadderProofs -------------------------
(***************************************************************************)
(* Theorems about FailureLadder, for every number of slots, every policy    *)
(* and every duration of starts and of pauses between ticks.                *)
(***************************************************************************)
EXTENDS FailureLadder, FiniteSetTheorems, TLAPS

USE PolicyAssumption, WorldAssumption

----------------------------------------------------------------------------
(* Cardinalities.                                                           *)

LEMMA SlotSets ==
  ASSUME NEW S \in SUBSET Slots
  PROVE  IsFiniteSet(S) /\ Cardinality(S) \in Nat /\ Cardinality(S) <= Count
<1>1. IsFiniteSet(Slots) /\ Cardinality(Slots) = Count
  BY FS_Interval, 1 \in Int, Count \in Int DEF Slots
<1>2. QED
  BY <1>1, FS_Subset, FS_CardinalityType

LEMMA AgeSets ==
  ASSUME NEW S \in SUBSET Ages
  PROVE  IsFiniteSet(S) /\ Cardinality(S) \in Nat
<1>1. IsFiniteSet(Ages)
  BY FS_Interval, 0 \in Int, Window \in Int DEF Ages
<1>2. QED
  BY <1>1, FS_Subset, FS_CardinalityType

\* The retained failures are among those there were, each a little older.
LEMMA RetainedFits ==
  ASSUME NEW ages \in SUBSET Ages, NEW d \in Nat
  PROVE  /\ Retained(ages, d) \in SUBSET Ages
         /\ Cardinality(Retained(ages, d)) <= Cardinality(ages)
<1> DEFINE younger == [age \in Retained(ages, d) |-> age - d]
<1>1. ASSUME NEW age \in Retained(ages, d)
      PROVE  age \in Int /\ age - d \in ages
  BY <1>1 DEF Retained, Ages
<1>2. younger \in [Retained(ages, d) -> ages]
  BY <1>1
<1>3. \A a, b \in Retained(ages, d) : younger[a] = younger[b] => a = b
  BY <1>1
<1>4. younger \in Injection(Retained(ages, d), ages)
  BY <1>2, <1>3 DEF Injection, IsInjective
<1>5. IsFiniteSet(ages)
  BY AgeSets
<1>6. Cardinality(Retained(ages, d)) <= Cardinality(ages)
  BY <1>4, <1>5, FS_Injection
<1>7. QED
  BY <1>6 DEF Retained

----------------------------------------------------------------------------
(* What time, a failure and a success do to a sound ledger.                 *)

Sound(l) == Storm(l) /\ BudgetLeft(l)

LEMMA OpenSets ==
  ASSUME NEW l, NEW m, OpenSlots(m) \subseteq OpenSlots(l)
  PROVE  /\ Cardinality(OpenSlots(l)) \in Nat
         /\ Cardinality(OpenSlots(m)) \in Nat
         /\ Cardinality(OpenSlots(m)) <= Cardinality(OpenSlots(l))
<1>1. OpenSlots(l) \in SUBSET Slots /\ OpenSlots(m) \in SUBSET Slots
  BY DEF OpenSlots
<1>2. QED
  BY <1>1, SlotSets, FS_Subset

LEMMA AgedType ==
  ASSUME NEW l \in Ledgers, NEW d \in Nat
  PROVE  Aged(l, d) \in Ledgers
<1>1. \A s \in Slots : Retained(l.strikes[s], d) \in SUBSET Ages
  BY DEF Ledgers, Retained
<1>2. \A s \in Slots : Left(l.openFor[s], d) \in 0 .. SlotCooldown
  BY DEF Ledgers, Left
<1>3. Left(l.fleetFor, d) \in 0 .. FleetCooldown
  BY DEF Ledgers, Left
<1>4. QED
  BY <1>1, <1>2, <1>3 DEF Aged, Ledgers

LEMMA AgedSound ==
  ASSUME NEW l \in Ledgers, NEW d \in Nat, Sound(l)
  PROVE  /\ Sound(Aged(l, d))
         /\ OpenSlots(Aged(l, d)) \subseteq OpenSlots(l)
         /\ ~FleetPaused(l) => ~FleetPaused(Aged(l, d))
<1> DEFINE m == Aged(l, d)
<1>1. /\ \A s \in Slots : /\ m.openFor[s] = Left(l.openFor[s], d)
                          /\ m.strikes[s] = Retained(l.strikes[s], d)
      /\ m.fleetFor = Left(l.fleetFor, d)
  BY DEF Aged
<1>2. /\ \A s \in Slots : l.openFor[s] \in Nat /\ l.strikes[s] \in SUBSET Ages
      /\ l.fleetFor \in Nat
  BY DEF Ledgers
<1>3. OpenSlots(m) \subseteq OpenSlots(l)
  BY <1>1, <1>2 DEF OpenSlots, SlotIsOpen, Left
<1>4. ~FleetPaused(l) => ~FleetPaused(m)
  BY <1>1, <1>2 DEF FleetPaused, Left
<1>5. Storm(m)
  <2> SUFFICES ASSUME Cardinality(OpenSlots(m)) >= FleetThreshold,
                      NEW s \in OpenSlots(m)
               PROVE  FleetCooldown + m.openFor[s] <= SlotCooldown + m.fleetFor
    BY DEF Storm
  <2>1. Cardinality(OpenSlots(l)) >= FleetThreshold
    BY <1>3, OpenSets DEF FleetThreshold
  <2>2. s \in Slots /\ s \in OpenSlots(l)
    BY <1>3 DEF OpenSlots
  <2>3. FleetCooldown + l.openFor[s] <= SlotCooldown + l.fleetFor
    BY <2>1, <2>2 DEF Sound, Storm
  <2>4. m.openFor[s] > 0
    BY DEF OpenSlots, SlotIsOpen
  <2>5. l.openFor[s] <= SlotCooldown
    BY <2>2 DEF Ledgers
  <2>6. QED
    BY <1>1, <1>2, <2>2, <2>3, <2>4, <2>5 DEF Left
<1>6. BudgetLeft(m)
  <2> SUFFICES ASSUME NEW s \in Slots
               PROVE  Cardinality(m.strikes[s]) < Threshold
    BY DEF BudgetLeft
  <2>1. Cardinality(l.strikes[s]) < Threshold /\ Cardinality(l.strikes[s]) \in Nat
    BY <1>2, AgeSets DEF Sound, BudgetLeft
  <2>2. /\ Cardinality(Retained(l.strikes[s], d)) <= Cardinality(l.strikes[s])
        /\ Cardinality(Retained(l.strikes[s], d)) \in Nat
    BY <1>2, RetainedFits, AgeSets
  <2>3. QED
    BY <1>1, <2>1, <2>2
<1>7. QED
  BY <1>3, <1>4, <1>5, <1>6 DEF Sound

\* A failure in a slot whose circuit is closed, outside a fleet pause.
LEMMA FailureSound ==
  ASSUME NEW l \in Ledgers, NEW s \in Slots, Sound(l),
         ~SlotIsOpen(l, s), ~FleetPaused(l)
  PROVE  /\ RecordFailure(l, s) \in Ledgers
         /\ Sound(RecordFailure(l, s))
         /\ OpenSlots(RecordFailure(l, s)) \subseteq OpenSlots(l) \cup {s}
<1> DEFINE m == RecordFailure(l, s)
<1>1. /\ l.strikes \in [Slots -> SUBSET Ages]
      /\ l.openFor \in [Slots -> 0 .. SlotCooldown]
      /\ l.fleetFor \in 0 .. FleetCooldown
  BY DEF Ledgers
<1>2. Strikes(l, s) \in SUBSET Ages
  BY <1>1 DEF Strikes, Ages
<1>3. m \in Ledgers
  BY <1>1, <1>2 DEF RecordFailure, Ledgers
<1>4. \A t \in Slots \ {s} : m.openFor[t] = l.openFor[t] /\ m.strikes[t] = l.strikes[t]
  BY <1>1 DEF RecordFailure
<1>5. OpenSlots(m) \subseteq OpenSlots(l) \cup {s}
  BY <1>4 DEF OpenSlots, SlotIsOpen
<1>6. CASE Opens(l, s)
  <2>1. m.openFor[s] = SlotCooldown /\ m.strikes[s] = {}
    BY <1>1, <1>6 DEF RecordFailure
  <2>2. OpenSlots(m) = OpenSlots(l) \cup {s}
    BY <1>4, <1>5, <2>1 DEF OpenSlots, SlotIsOpen
  <2>3. Storm(m)
    <3> SUFFICES ASSUME Cardinality(OpenSlots(m)) >= FleetThreshold,
                        NEW t \in OpenSlots(m)
                 PROVE  FleetCooldown + m.openFor[t] <= SlotCooldown + m.fleetFor
      BY DEF Storm
    <3>1. m.fleetFor = FleetCooldown
      BY <1>6, <2>2 DEF RecordFailure, FleetOpens
    <3>2. t \in Slots /\ m.openFor[t] \in 0 .. SlotCooldown
      BY <1>3 DEF Ledgers, OpenSlots
    <3>3. QED
      BY <3>1, <3>2
  <2>4. BudgetLeft(m)
    BY <1>4, <2>1, FS_EmptySet DEF Sound, BudgetLeft
  <2>5. QED
    BY <1>3, <1>5, <2>3, <2>4 DEF Sound
<1>7. CASE ~Opens(l, s)
  <2>1. /\ m.openFor = l.openFor /\ m.fleetFor = l.fleetFor
        /\ m.strikes[s] = Strikes(l, s)
    BY <1>1, <1>7 DEF RecordFailure, FleetOpens
  <2>2. OpenSlots(m) = OpenSlots(l)
    BY <2>1 DEF OpenSlots, SlotIsOpen
  <2>3. Storm(m)
    BY <2>1, <2>2 DEF Sound, Storm
  <2>4. Cardinality(Strikes(l, s)) < Threshold
    BY <1>2, <1>7, AgeSets DEF Opens
  <2>5. BudgetLeft(m)
    BY <1>4, <2>1, <2>4 DEF Sound, BudgetLeft
  <2>6. QED
    BY <1>3, <1>5, <2>3, <2>5 DEF Sound
<1>8. QED
  BY <1>6, <1>7

LEMMA SuccessSound ==
  ASSUME NEW l \in Ledgers, NEW s \in Slots, Sound(l)
  PROVE  /\ RecordSuccess(l, s) \in Ledgers
         /\ Sound(RecordSuccess(l, s))
         /\ OpenSlots(RecordSuccess(l, s)) \subseteq OpenSlots(l)
         /\ RecordSuccess(l, s).fleetFor = l.fleetFor
<1> DEFINE m == RecordSuccess(l, s)
<1>1. /\ l.strikes \in [Slots -> SUBSET Ages]
      /\ l.openFor \in [Slots -> 0 .. SlotCooldown]
      /\ l.fleetFor \in 0 .. FleetCooldown
  BY DEF Ledgers
<1>2. /\ m.strikes = [l.strikes EXCEPT ![s] = {}]
      /\ m.openFor = [l.openFor EXCEPT ![s] = 0]
      /\ m.fleetFor = l.fleetFor
  BY DEF RecordSuccess, Ledgers
<1>3. m \in Ledgers
  BY <1>1 DEF RecordSuccess, Ledgers
<1>4. OpenSlots(m) \subseteq OpenSlots(l)
  BY <1>1, <1>2 DEF OpenSlots, SlotIsOpen
<1>5. Storm(m)
  <2> SUFFICES ASSUME Cardinality(OpenSlots(m)) >= FleetThreshold,
                      NEW t \in OpenSlots(m)
               PROVE  FleetCooldown + m.openFor[t] <= SlotCooldown + m.fleetFor
    BY DEF Storm
  <2>1. Cardinality(OpenSlots(l)) >= FleetThreshold
    BY <1>4, OpenSets DEF FleetThreshold
  <2>2. t \in OpenSlots(l) /\ t \in Slots /\ m.openFor[t] = l.openFor[t]
    BY <1>1, <1>2, <1>4 DEF OpenSlots, SlotIsOpen
  <2>3. QED
    BY <1>2, <2>1, <2>2 DEF Sound, Storm
<1>6. BudgetLeft(m)
  BY <1>1, <1>2, FS_EmptySet DEF Sound, BudgetLeft
<1>7. QED
  BY <1>2, <1>3, <1>4, <1>5, <1>6 DEF Sound

----------------------------------------------------------------------------
(* The inductive invariant.                                                 *)

\* The batch's ledger is the durable one before every start, and its
\* failed_slots cover every open circuit, so that a start can only fail in a
\* slot whose circuit is closed.
BatchFits ==
  /\ pc \in {"next", "starting"} =>
       /\ ledger = disk /\ ~latch
       /\ OpenSlots(disk) \subseteq failed
       /\ ~FleetPaused(disk)
  /\ pc \in {"starting", "save"} => cur \in Slots
  /\ pc = "starting" => cur \notin failed
  /\ pc = "save" =>
       /\ ~latch
       /\ Sound(ledger)
       /\ OpenSlots(ledger) \subseteq failed
       /\ cur \notin failed => ~FleetPaused(ledger)

IInv == TypeOK /\ Sound(disk) /\ BatchFits

LEMMA EmptyLedgerType == EmptyLedger \in Ledgers
  BY DEF EmptyLedger, Ledgers

LEMMA IInvInit == Init => IInv
<1> SUFFICES ASSUME Init PROVE IInv
  OBVIOUS
<1>1. TypeOK
  BY EmptyLedgerType DEF Init, TypeOK, Pcs
<1>2. OpenSlots(disk) = {}
  BY DEF Init, EmptyLedger, OpenSlots, SlotIsOpen
<1>3. Storm(disk)
  BY <1>2 DEF Storm
<1>4. BudgetLeft(disk)
  BY FS_EmptySet DEF Init, EmptyLedger, BudgetLeft
<1>5. BatchFits
  BY DEF Init, BatchFits
<1>6. QED
  BY <1>1, <1>3, <1>4, <1>5 DEF IInv, Sound

USE DEF Goto, ladder, batch, fleet

LEMMA BatchOverFits ==
  ASSUME IInv, BatchOver, disk' \in Ledgers, Sound(disk'), latch' \in BOOLEAN,
         running' \in SUBSET Slots, taken' \in SUBSET Slots
  PROVE  IInv'
  BY EmptyLedgerType DEF IInv, BatchOver, TypeOK, Pcs, BatchFits, Sound, Storm,
     BudgetLeft, OpenSlots, SlotIsOpen

LEMMA DiskKept ==
  ASSUME Sound(disk), disk' = disk
  PROVE  Sound(disk')
  BY DEF Sound

LEMMA IInvStep == IInv /\ [Next]_vars => IInv'
<1> SUFFICES ASSUME IInv, [Next]_vars PROVE IInv'
  OBVIOUS
<1> USE DEF IInv
<1>1. CASE Sleep
  <2>1. PICK d \in Gaps : disk' = Aged(disk, d)
    BY <1>1 DEF Sleep
  <2>2. d \in Nat /\ disk \in Ledgers
    BY DEF TypeOK
  <2>3. disk' \in Ledgers /\ Sound(disk')
    BY <2>1, <2>2, AgedType, AgedSound
  <2>4. QED
    BY <1>1, <2>3 DEF Sleep, TypeOK, Pcs, BatchFits
<1>2. CASE SkipBatch
  BY <1>2, DiskKept DEF SkipBatch, TypeOK, Pcs, BatchFits
<1>3. CASE PreflightSaveFails
  BY <1>3, DiskKept DEF PreflightSaveFails, TypeOK, Pcs, BatchFits
<1>4. CASE BeginBatch
  <2>1. Missing \in Nat
    BY SlotSets DEF TypeOK, Missing
  <2>2. budget' \in Nat
    BY <1>4, <2>1 DEF BeginBatch
  <2>3. failed' \in SUBSET Slots
    BY <1>4 DEF BeginBatch, Excluded, OpenSlots
  <2>4. TypeOK'
    BY <1>4, <2>2, <2>3 DEF BeginBatch, TypeOK, Pcs
  <2>5. QED
    BY <1>4, <2>4, DiskKept DEF BeginBatch, BatchFits, Excluded
<1>5. CASE EndBatch
  BY <1>5, BatchOverFits, DiskKept DEF EndBatch, TypeOK
<1>6. CASE ReserveSlot
  <2>1. cur' \in Slots \ failed
    BY <1>6 DEF ReserveSlot, Allocatable
  <2>2. taken' \in SUBSET Slots /\ budget' \in Nat
    BY <1>6 DEF ReserveSlot, Allocatable, TypeOK
  <2>3. QED
    BY <1>6, <2>1, <2>2, DiskKept DEF ReserveSlot, TypeOK, Pcs, BatchFits
<1>7. CASE StartSucceeds
  <2>1. PICK d \in StartTimes : /\ disk' = Aged(disk, d)
                                /\ ledger' = RecordSuccess(Aged(ledger, d), cur)
    BY <1>7 DEF StartSucceeds
  <2>2. d \in Nat /\ disk \in Ledgers /\ cur \in Slots /\ ledger = disk
    BY <1>7 DEF StartSucceeds, TypeOK, BatchFits
  <2>3. /\ disk' \in Ledgers /\ Sound(disk')
        /\ OpenSlots(disk') \subseteq OpenSlots(disk)
        /\ ~FleetPaused(disk')
    BY <1>7, <2>1, <2>2, AgedType, AgedSound DEF StartSucceeds, BatchFits
  <2>4. ledger' = RecordSuccess(disk', cur)
    BY <2>1, <2>2
  <2>5. /\ ledger' \in Ledgers /\ Sound(ledger')
        /\ OpenSlots(ledger') \subseteq OpenSlots(disk')
        /\ ledger'.fleetFor = disk'.fleetFor
    BY <2>2, <2>3, <2>4, SuccessSound
  <2>6. TypeOK'
    BY <1>7, <2>2, <2>3, <2>5 DEF StartSucceeds, TypeOK, Pcs
  <2>7. BatchFits'
    BY <1>7, <2>2, <2>3, <2>5 DEF StartSucceeds, BatchFits, FleetPaused
  <2>8. QED
    BY <2>3, <2>6, <2>7
<1>8. CASE StartFails
  <2>1. PICK d \in StartTimes : /\ disk' = Aged(disk, d)
                                /\ ledger' = RecordFailure(Aged(ledger, d), cur)
    BY <1>8 DEF StartFails
  <2>2. d \in Nat /\ disk \in Ledgers /\ cur \in Slots /\ ledger = disk
    BY <1>8 DEF StartFails, TypeOK, BatchFits
  <2>3. /\ disk' \in Ledgers /\ Sound(disk')
        /\ OpenSlots(disk') \subseteq OpenSlots(disk)
        /\ ~FleetPaused(disk')
    BY <1>8, <2>1, <2>2, AgedType, AgedSound DEF StartFails, BatchFits
  <2>4. ledger' = RecordFailure(disk', cur)
    BY <2>1, <2>2
  <2>5. cur \notin OpenSlots(disk')
    BY <1>8, <2>3 DEF StartFails, BatchFits
  <2>6. ~SlotIsOpen(disk', cur)
    BY <2>2, <2>5 DEF OpenSlots
  <2>7. /\ ledger' \in Ledgers /\ Sound(ledger')
        /\ OpenSlots(ledger') \subseteq OpenSlots(disk') \cup {cur}
    BY <2>2, <2>3, <2>4, <2>6, FailureSound
  <2>8. TypeOK'
    BY <1>8, <2>2, <2>3, <2>7 DEF StartFails, TypeOK, Pcs
  <2>9. BatchFits'
    BY <1>8, <2>2, <2>3, <2>7 DEF StartFails, BatchFits
  <2>10. QED
    BY <2>3, <2>8, <2>9
<1>9. CASE StartRefused
  <2>1. PICK d \in StartTimes : disk' = Aged(disk, d)
    BY <1>9 DEF StartRefused
  <2>2. d \in Nat /\ disk \in Ledgers
    BY DEF TypeOK
  <2>3. disk' \in Ledgers /\ Sound(disk')
    BY <2>1, <2>2, AgedType, AgedSound
  <2>4. QED
    BY <1>9, <2>3, BatchOverFits DEF StartRefused, TypeOK
<1>10. CASE Save
  <2>1. disk' \in Ledgers /\ Sound(disk')
    BY <1>10 DEF Save, TypeOK, BatchFits
  <2>2. CASE cur \in failed /\ FleetPaused(ledger)
    BY <1>10, <2>1, <2>2, BatchOverFits DEF Save, TypeOK
  <2>3. CASE ~(cur \in failed /\ FleetPaused(ledger))
    BY <1>10, <2>1, <2>3 DEF Save, TypeOK, Pcs, BatchFits
  <2>4. QED
    BY <2>2, <2>3
<1>11. CASE SaveFails
  <2>1. disk' \in Ledgers /\ Sound(disk')
    BY <1>11 DEF SaveFails, TypeOK, BatchFits
  <2>2. QED
    BY <1>11, <2>1, BatchOverFits DEF SaveFails, TypeOK
<1>12. ASSUME NEW s \in Slots, ReleaseRow(s) \/ Finish(s) PROVE IInv'
  BY <1>12, DiskKept DEF ReleaseRow, Finish, TypeOK, BatchFits
<1>13. CASE Crash
  <2>1. disk' \in Ledgers /\ Sound(disk')
    BY <1>13 DEF Crash, TypeOK, BatchFits
  <2>2. running' \in SUBSET Slots
    BY <1>13 DEF Crash, TypeOK, BatchFits
  <2>3. QED
    BY <1>13, <2>1, <2>2, BatchOverFits DEF Crash, TypeOK
<1>14. CASE UNCHANGED vars
  BY <1>14, DiskKept DEF vars, TypeOK, BatchFits
<1>15. QED
  BY <1>1, <1>2, <1>3, <1>4, <1>5, <1>6, <1>7, <1>8, <1>9, <1>10, <1>11,
     <1>12, <1>13, <1>14 DEF Next, Daemon, Batch

LEMMA Inductive == Spec => []IInv
<1>1. IInv /\ [Next]_vars => IInv'
  BY IInvStep
<1>2. QED
  BY IInvInit, <1>1, PTL DEF Spec

----------------------------------------------------------------------------
(* The theorems.                                                            *)

\* Every variable of the admission batch and its ledger keeps its type.
THEOREM LadderTypeCorrect == Spec => []TypeOK
<1>1. IInv => TypeOK
  BY DEF IInv
<1>2. QED
  BY <1>1, Inductive, PTL

\* start_missing_runners_with_starter attempts a start only when every earlier
\* outcome of this daemon is durable.
THEOREM StartsAreRecorded == Spec => []NoUnrecordedStart
<1>1. IInv => NoUnrecordedStart
  BY DEF IInv, BatchFits, NoUnrecordedStart
<1>2. QED
  BY <1>1, Inductive, PTL

\* record_failure never leaves a slot at its threshold with a closed circuit.
THEOREM RetryBudgetIsLeft == Spec => []RetryBudgetLeft
<1>1. IInv => RetryBudgetLeft
  BY DEF IInv, Sound, RetryBudgetLeft
<1>2. QED
  BY <1>1, Inductive, PTL

\* However many circuits open and in whatever order, once there are enough of
\* them the fleet circuit covers each of their openings.
THEOREM StormsPause == Spec => []StormPauses
<1>1. IInv => StormPauses
  BY DEF IInv, Sound, StormPauses
<1>2. QED
  BY <1>1, Inductive, PTL

\* No start is admitted in a slot with an open circuit, or in a paused fleet.
THEOREM StartsAreAdmitted == Spec => StartsAdmitted
<1>1. ASSUME IInv, Next, pc = "next", pc' = "starting"
      PROVE  ~SlotIsOpen(disk, cur') /\ ~FleetPaused(disk)
  <2>1. ReserveSlot
    BY <1>1 DEF Next, Daemon, Batch, Sleep, SkipBatch, PreflightSaveFails,
       BeginBatch, EndBatch, StartSucceeds, StartFails, StartRefused, Save,
       SaveFails, ReleaseRow, Finish, Crash, BatchOver
  <2>2. cur' \in Slots \ failed
    BY <2>1 DEF ReserveSlot, Allocatable
  <2>3. QED
    BY <1>1, <2>2 DEF IInv, BatchFits, OpenSlots
<1>2. IInv /\ [Next]_vars =>
        [pc = "next" /\ pc' = "starting"
           => ~SlotIsOpen(disk, cur') /\ ~FleetPaused(disk)]_vars
  BY <1>1 DEF vars
<1>3. QED
  BY <1>2, Inductive, PTL DEF Spec, StartsAdmitted
=============================================================================
