---------------------------- MODULE FailureLadder ----------------------------
(***************************************************************************)
(* The failure circuits of runner admission: the durable ledger of          *)
(* src/failure_ladder.rs and the start batch of src/docker_backend.rs,      *)
(* start_missing_runners_with_starter, that consults and updates it.        *)
(*                                                                         *)
(* RunnerPool models what a start does to GitHub, docker and the slot file  *)
(* and lets the ladder exclude any slots ("gate"); here a start is its      *)
(* outcome, and the ladder is what is modelled.                             *)
(*                                                                         *)
(* The ledger holds epoch seconds; the model holds how long ago a failure   *)
(* was and how long a circuit still has to run, which is all the code       *)
(* compares.  A deadline in the past and no deadline are the same to        *)
(* is_open and fleet_admission_is_paused: both are 0.  A failure older than *)
(* the window is forgotten as it leaves it: record_failure drops it before  *)
(* it counts again, and nothing else reads it.  Failures of one slot are a  *)
(* set of ages, since a batch tries a slot once and batches are apart.      *)
(***************************************************************************)
EXTENDS Naturals, FiniteSets

CONSTANTS
  Count,             \* cfg.runner.count
  None,              \* no slot is being started
  Threshold,         \* slot_failure_threshold
  Window,            \* slot_window_secs
  SlotCooldown,      \* slot_cooldown_secs
  FleetOpenSlots,    \* fleet_open_slot_threshold, as configured
  FleetCooldown,     \* fleet_cooldown_secs
  Broken,            \* slots in which every start fails
  Budgets,           \* the sizes native admission may cut a batch to
  Gaps,              \* how long the daemon may be between two ticks
  StartTimes,        \* how long one start may take
  Faults             \* the failures this instance may produce

FaultKinds ==
  { "crash",     \* the daemon restarts between any two steps
    "load",      \* the ledger cannot be read or parsed
    "save",      \* the ledger cannot be persisted
    "preflight", \* a start is refused by an AdmissionPreflightError
    "gate",      \* a disk, memory or native admission gate skips the tick
    "flaky" }    \* a start in a slot that is not broken fails

Slots == 1 .. Count

\* FailureLadderPolicy::validate, and the count config.rs requires.
ASSUME PolicyAssumption ==
  /\ Count \in Nat \ {0}
  /\ Threshold \in Nat \ {0}
  /\ Window \in Nat \ {0}
  /\ SlotCooldown \in Nat \ {0}
  /\ FleetOpenSlots \in Nat \ {0}
  /\ FleetCooldown \in Nat \ {0}
ASSUME WorldAssumption ==
  /\ None \notin Nat
  /\ Broken \subseteq Slots
  /\ Budgets \subseteq Nat
  /\ Gaps \subseteq Nat \ {0}
  /\ StartTimes \subseteq Nat
  /\ Faults \subseteq FaultKinds

\* failure_ladder_policy: a small fleet can still open the fleet circuit.
FleetThreshold == IF FleetOpenSlots <= Count THEN FleetOpenSlots ELSE Count

VARIABLES
  ledger,     \* the batch's copy of the ledger
  disk,       \* failure_ladder.toml
  latch,      \* FAILURE_LADDER_PERSISTENCE_FAILED
  pc,         \* where the daemon is
  failed,     \* failed_slots of the batch
  budget,     \* starts the batch may still attempt
  cur,        \* slot being started
  running,    \* slots with a container
  taken       \* slots with a row in the slot file

ladder == <<ledger, disk, latch>>
batch  == <<pc, failed, budget, cur>>
fleet  == <<running, taken>>
vars   == <<ladder, batch, fleet>>

Ages == 0 .. Window
Ledgers == [strikes  : [Slots -> SUBSET Ages],
            openFor  : [Slots -> 0 .. SlotCooldown],
            fleetFor : 0 .. FleetCooldown]

EmptyLedger == [strikes  |-> [s \in Slots |-> {}],
                openFor  |-> [s \in Slots |-> 0],
                fleetFor |-> 0]

Pcs == {"idle", "tick", "next", "starting", "save"}

TypeOK ==
  /\ ledger \in Ledgers
  /\ disk \in Ledgers
  /\ latch \in BOOLEAN
  /\ pc \in Pcs
  /\ failed \in SUBSET Slots
  /\ budget \in Nat
  /\ cur \in Slots \cup {None}
  /\ running \in SUBSET Slots
  /\ taken \in SUBSET Slots

Init ==
  /\ ledger = EmptyLedger
  /\ disk = EmptyLedger
  /\ latch = FALSE
  /\ pc = "idle"
  /\ failed = {}
  /\ budget = 0
  /\ cur = None
  /\ running = {}
  /\ taken = {}

Goto(label) == pc' = label

----------------------------------------------------------------------------
(* The ledger.                                                              *)

\* mutant: a deadline is not saturated
LeftUnsaturated(deadline, d) == deadline - d

Left(deadline, d) == IF d <= deadline THEN deadline - d ELSE 0

\* mutant: only failures of this very moment are retained
OnlyNow(ages, d) == IF d = 0 THEN ages ELSE {}

Retained(ages, d) == {age + d : age \in ages} \cap Ages

\* A ledger d seconds later.
Aged(l, d) ==
  [strikes  |-> [s \in Slots |-> Retained(l.strikes[s], d)],
   openFor  |-> [s \in Slots |-> Left(l.openFor[s], d)],
   fleetFor |-> Left(l.fleetFor, d)]

SlotIsOpen(l, s) == l.openFor[s] > 0
OpenSlots(l) == {s \in Slots : SlotIsOpen(l, s)}
FleetPaused(l) == l.fleetFor > 0

\* The failures of slot s that count, the new one included.
Strikes(l, s) == l.strikes[s] \cup {0}

\* mutant: one failure more than the threshold is tolerated
OpensLate(l, s) == ~SlotIsOpen(l, s) /\ Cardinality(Strikes(l, s)) > Threshold
Opens(l, s) == ~SlotIsOpen(l, s) /\ Cardinality(Strikes(l, s)) >= Threshold

\* mutant: the circuit that has just opened is not counted
FleetOpensLate(l, s) ==
  Opens(l, s) /\ ~FleetPaused(l) /\ Cardinality(OpenSlots(l)) >= FleetThreshold
FleetOpens(l, s) ==
  /\ Opens(l, s) /\ ~FleetPaused(l)
  /\ Cardinality(OpenSlots(l) \cup {s}) >= FleetThreshold

\* A slot whose circuit opens gets a fresh retry budget.
RecordFailure(l, s) ==
  [strikes  |-> [l.strikes EXCEPT ![s] = IF Opens(l, s) THEN {} ELSE Strikes(l, s)],
   openFor  |-> [l.openFor EXCEPT ![s] = IF Opens(l, s) THEN SlotCooldown ELSE @],
   fleetFor |-> IF FleetOpens(l, s) THEN FleetCooldown ELSE l.fleetFor]

RecordSuccess(l, s) ==
  [strikes  |-> [l.strikes EXCEPT ![s] = {}],
   openFor  |-> [l.openFor EXCEPT ![s] = 0],
   fleetFor |-> l.fleetFor]

----------------------------------------------------------------------------
(* The serve loop around the batch: sleep, reconcile, refill.               *)

Sleep ==
  /\ pc = "idle"
  /\ \E d \in Gaps : disk' = Aged(disk, d)
  /\ Goto("tick")
  /\ UNCHANGED <<ledger, latch, failed, budget, cur, fleet>>

\* release_stale_slots frees a row whose container is gone, in its own time.
ReleaseRow(s) ==
  /\ pc = "tick"
  /\ s \in taken \ running
  /\ taken' = taken \ {s}
  /\ UNCHANGED <<ladder, batch, running>>

\* A container comes to its end.
Finish(s) ==
  /\ s \in running
  /\ running' = running \ {s}
  /\ UNCHANGED <<ladder, batch, taken>>

\* No batch, or one that returns before its first start: the fleet is full, a
\* gate pauses admission, persistence failed earlier in this process, the
\* ledger cannot be read, or the fleet circuit is open.
SkipBatch ==
  /\ pc = "tick"
  /\ \/ running = Slots
     \/ Faults \cap {"gate", "load"} # {}
     \/ latch
     \/ FleetPaused(disk)
  /\ Goto("idle")
  /\ UNCHANGED <<ladder, failed, budget, cur, fleet>>

\* The ledger cannot be saved even before the first start.
PreflightSaveFails ==
  /\ pc = "tick" /\ "save" \in Faults
  /\ running # Slots /\ ~latch /\ ~FleetPaused(disk)
  /\ latch' = TRUE
  /\ Goto("idle")
  /\ UNCHANGED <<ledger, disk, failed, budget, cur, fleet>>

Missing == Count - Cardinality(running)

\* mutant: open circuits are not excluded
NoneExcluded == {}
Excluded == OpenSlots(disk)

BeginBatch ==
  /\ pc = "tick"
  /\ running # Slots /\ ~latch /\ ~FleetPaused(disk)
  /\ ledger' = disk
  /\ failed' = Excluded
  /\ \E b \in Budgets : budget' = IF b <= Missing THEN b ELSE Missing
  /\ Goto("next")
  /\ UNCHANGED <<disk, latch, cur, fleet>>

\* Forget the batch.
BatchOver ==
  /\ ledger' = EmptyLedger
  /\ failed' = {} /\ budget' = 0 /\ cur' = None
  /\ Goto("idle")

Allocatable == Slots \ (taken \cup failed)

\* The batch is spent, no slot is free, or a shutdown request or an unreadable
\* slot file ("gate") stops it.
EndBatch ==
  /\ pc = "next"
  /\ budget = 0 \/ Allocatable = {} \/ "gate" \in Faults
  /\ BatchOver
  /\ UNCHANGED <<disk, latch, fleet>>

ReserveSlot ==
  /\ pc = "next" /\ budget > 0
  /\ \E s \in Allocatable :
       /\ \A t \in Allocatable : s <= t
       /\ cur' = s
       /\ taken' = taken \cup {s}
  /\ budget' = budget - 1
  /\ Goto("starting")
  /\ UNCHANGED <<ladder, failed, running>>

StartSucceeds ==
  /\ pc = "starting" /\ cur \notin Broken
  /\ \E d \in StartTimes :
       /\ disk' = Aged(disk, d)
       /\ ledger' = RecordSuccess(Aged(ledger, d), cur)
  /\ running' = running \cup {cur}
  /\ Goto("save")
  /\ UNCHANGED <<latch, failed, budget, cur, taken>>

\* The failed start may have freed its slot or left the row behind.
StartFails ==
  /\ pc = "starting"
  /\ cur \in Broken \/ "flaky" \in Faults
  /\ \E d \in StartTimes :
       /\ disk' = Aged(disk, d)
       /\ ledger' = RecordFailure(Aged(ledger, d), cur)
  /\ failed' = failed \cup {cur}
  /\ taken' \in {taken, taken \ {cur}}
  /\ Goto("save")
  /\ UNCHANGED <<latch, budget, cur, running>>

\* A preflight error ends the batch and charges nobody.
StartRefused ==
  /\ pc = "starting" /\ "preflight" \in Faults
  /\ \E d \in StartTimes : disk' = Aged(disk, d)
  /\ taken' \in {taken, taken \ {cur}}
  /\ BatchOver
  /\ UNCHANGED <<latch, running>>

\* After a failure, an open fleet circuit ends the batch.
Save ==
  /\ pc = "save"
  /\ disk' = ledger
  /\ IF cur \in failed /\ FleetPaused(ledger)
     THEN BatchOver
     ELSE cur' = None /\ Goto("next") /\ UNCHANGED <<ledger, failed, budget>>
  /\ UNCHANGED <<latch, fleet>>

\* mutant: the batch goes on after a failed save
SaveFailureIgnored ==
  /\ pc = "save" /\ "save" \in Faults
  /\ cur' = None
  /\ Goto("next")
  /\ UNCHANGED <<ladder, failed, budget, fleet>>

\* The save fails, before the rename or (syncing the directory) after it.
SaveFails ==
  /\ pc = "save" /\ "save" \in Faults
  /\ latch' = TRUE
  /\ disk' \in {disk, ledger}
  /\ BatchOver
  /\ UNCHANGED fleet

\* The daemon dies and a new one starts.  The container of an unfinished
\* start may have come up, and a save may have reached its rename.
Crash ==
  /\ "crash" \in Faults
  /\ latch' = FALSE
  /\ disk' \in IF pc = "save" THEN {disk, ledger} ELSE {disk}
  /\ running' \in IF pc = "starting" THEN {running, running \cup {cur}} ELSE {running}
  /\ BatchOver
  /\ UNCHANGED taken

Batch ==
  \/ BeginBatch \/ EndBatch \/ ReserveSlot
  \/ StartSucceeds \/ StartFails \/ StartRefused \/ Save \/ SaveFails

Daemon == Sleep \/ SkipBatch \/ PreflightSaveFails \/ Batch

Next ==
  \/ Daemon
  \/ \E s \in Slots : ReleaseRow(s) \/ Finish(s)
  \/ Crash

Spec == Init /\ [][Next]_vars

(***************************************************************************)
(* Fairness.  The daemon keeps ticking, and a row without a container is    *)
(* released by one of the passes it makes in every tick (RunnerPool,        *)
(* SlotsRefilled).  No container has to finish.                             *)
(***************************************************************************)
FairSpec ==
  /\ Spec
  /\ WF_vars(Daemon)
  /\ \A s \in Slots : SF_vars(ReleaseRow(s))

----------------------------------------------------------------------------
(* Safety.                                                                  *)

\* Admission: no start is attempted in a slot whose durable circuit is open,
\* or while the durable fleet circuit is: although both were read when the
\* batch began, and starts since then have taken time and changed the ledger.
StartsAdmitted ==
  [][pc = "next" /\ pc' = "starting"
       => ~SlotIsOpen(disk, cur') /\ ~FleetPaused(disk)]_vars

\* A start is attempted only by a daemon whose every earlier outcome is on
\* disk: what failed to be saved, once, stops all starts until a restart.
NoUnrecordedStart == pc = "starting" => ledger = disk /\ ~latch

\* The retry budget: no slot is ever left with Threshold failures inside the
\* window, across batches and restarts; the last of them opens its circuit.
BudgetLeft(l) == \A s \in Slots : Cardinality(l.strikes[s]) < Threshold
RetryBudgetLeft == BudgetLeft(disk)

\* A storm pauses the fleet: while FleetThreshold circuits are open, the fleet
\* circuit stays open for the fleet cooldown counted from the opening of each
\* of them, the youngest included.
Storm(l) ==
  Cardinality(OpenSlots(l)) >= FleetThreshold
    => \A s \in OpenSlots(l) :
         FleetCooldown + l.openFor[s] <= SlotCooldown + l.fleetFor
StormPauses == Storm(disk)

----------------------------------------------------------------------------
(* Liveness.                                                                *)

Healthy == Slots \ Broken

\* "Fail at the smallest possible layer": slots that always fail never keep
\* the fleet from having a healthy runner, however small the batches are.
FleetServes == running \cap Healthy = {} ~> running \cap Healthy # {} \/ latch

\* No circuit is a permanent stop: a slot without a container is tried again.
EverySlotTried == \A s \in Slots : s \notin running ~> cur = s \/ latch
=============================================================================
