--------------------------- MODULE RefillEvidence ---------------------------
(***************************************************************************)
(* What a refill tells of itself: the tail of ensure_count_outcome,        *)
(* docker_backend.rs, behind the admission gates, and what `ezgha start`   *)
(* makes of it.  A call counts the containers, starts a batch, releases    *)
(* the rows of runners that are gone, counts again and looks into the      *)
(* containers, while runners end their jobs and take their containers with *)
(* them.  It reads the slot table three times only for evidence: a slot it *)
(* reports as released makes the serve loop reconcile at once.  How a      *)
(* start and a release decide is module RunnerPool; here they do any of    *)
(* what they may.  A container that comes up after its start was given up  *)
(* is left out: it is in the run LateContainer.                            *)
(***************************************************************************)
EXTENDS Naturals, FiniteSets

CONSTANTS
    Berths,  \* the configured slots, 1..runner.count
    Strays,  \* containers of the prefix with a number beyond the count
    Sealable \* slots that may be quarantined

ASSUME EvidenceAssumption ==
    /\ IsFiniteSet(Berths) /\ IsFiniteSet(Strays)
    /\ Berths # {} /\ Berths = 1..Cardinality(Berths) /\ Sealable \subseteq Berths

NoTable == [s \in {} |-> "free"]   \* a table that could not be read

VARIABLES
    ledger,    \* the slot table: free, reserved for nobody, or a runner's id
    docked,    \* the containers docker ps lists
    shut,      \* slots whose circuit is open
    fleetShut, \* the fleet's circuit is open, or the ladder could not be saved
    sealed,    \* quarantined slots
    step,      \* where the call is
    witnesses, \* initial_witnesses
    missing,   \* the shortage before the batch
    quota,     \* starts the batch may still attempt
    beforeBatch, beforeRelease, afterRelease,   \* the snapshots of the table
    tried,     \* attempted_slots
    began,     \* started
    failures,  \* start_failures
    hopeless,  \* the allocator failed: last_err
    paused,    \* admission_paused_reason
    recounted, \* names of the post-refill count
    released,  \* post_refill_slots_released
    present,   \* history: what was docked when the containers were looked into
    account    \* the outcome that is returned

evidenceVars == <<ledger, docked, shut, fleetShut, sealed, step, witnesses, missing, quota,
                  beforeBatch, beforeRelease, afterRelease, tried, began, failures,
                  hopeless, paused, recounted, released, present, account>>

worldVars == <<ledger, docked, shut, fleetShut, sealed>>
snapshotVars == <<beforeBatch, beforeRelease, afterRelease>>
batchVars == <<tried, began, failures, hopeless, paused, quota>>

TheCount == Cardinality(Berths)
Row == {"free", "reserved", "id", "newid"}
HoldsId(row) == row \notin {"free", "reserved"}
Boats == Berths \cup Strays

NoAccount == [kind |-> "none", shortage |-> 0, lost |-> {}, blind |-> FALSE]

EvidenceTypeOK ==
    /\ ledger \in [Berths -> Row] /\ docked \subseteq Boats
    /\ shut \subseteq Berths /\ sealed \subseteq Berths /\ fleetShut \in BOOLEAN
    /\ step \in {"idle", "count", "open", "batch", "release", "recount", "probe", "told"}
    /\ witnesses \subseteq Berths /\ missing \in 0..TheCount /\ quota \in 0..TheCount
    /\ {beforeBatch, beforeRelease, afterRelease} \subseteq [Berths -> Row] \cup {NoTable}
    /\ tried \subseteq Berths /\ began \subseteq tried /\ failures \in 0..TheCount
    /\ hopeless \in BOOLEAN /\ paused \in BOOLEAN
    /\ recounted \subseteq Boats /\ released \subseteq Berths /\ present \subseteq Boats
    /\ account.kind \in {"none", "error", "outcome"} /\ account.lost \subseteq Berths

----------------------------------------------------------------------------
(* A runner ends its job and its container goes (docker run --rm); a       *)
(* circuit cools down, a quarantine is lifted or laid down between calls.  *)
BoatLeaves ==
    /\ \E c \in docked : docked' = docked \ {c}
    /\ UNCHANGED <<ledger, shut, fleetShut, sealed, step, witnesses, missing, snapshotVars,
                   batchVars, recounted, released, present, account>>

TimeHeals ==
    /\ \/ \E s \in shut : shut' = shut \ {s} /\ UNCHANGED <<fleetShut, sealed>>
       \/ fleetShut /\ fleetShut' = FALSE /\ UNCHANGED <<shut, sealed>>
       \/ step = "idle" /\ sealed' \in SUBSET Sealable /\ UNCHANGED <<shut, fleetShut>>
    /\ UNCHANGED <<ledger, docked, step, witnesses, missing, snapshotVars, batchVars,
                   recounted, released, present, account>>

(* release_stale_slots frees rows without a container, how many of them is *)
(* up to GitHub's answers and the graces, and to a failure on the way.     *)
FreedFrom(rows) == [s \in Berths |-> IF s \in rows THEN "free" ELSE ledger[s]]

Reclaim ==
    /\ step = "idle"
    /\ \E rows \in SUBSET (Berths \ docked) : ledger' = FreedFrom(rows)
    /\ step' = "count"
    /\ account' = NoAccount
    /\ UNCHANGED <<docked, shut, fleetShut, sealed, witnesses, missing, snapshotVars,
                   batchVars, recounted, released, present>>

(* Mutant: an evidence read recovers as the allocator's does, to an empty  *)
(* table.                                                                  *)
RecoveredSnapshots(table) == {table, [s \in Berths |-> "free"]}

(* release_slot_snapshot: the table, or nothing if it cannot be read. *)
Snapshots(table) == {table, NoTable}

(* managed_containers: every container of the prefix counts, only those of *)
(* configured slots are witnesses.                                         *)
CountFleet ==
    /\ step = "count"
    /\ witnesses' = docked \cap Berths
    /\ missing' = IF Cardinality(docked) < TheCount THEN TheCount - Cardinality(docked) ELSE 0
    /\ tried' = {} /\ began' = {} /\ failures' = 0
    /\ hopeless' = FALSE /\ paused' = FALSE /\ quota' = 0
    /\ recounted' = {} /\ released' = {} /\ present' = docked
    /\ IF missing' = 0
       THEN /\ step' = "told"
            /\ account' = [NoAccount EXCEPT !.kind = "outcome"]
            /\ UNCHANGED snapshotVars
       ELSE /\ step' = "open"
            /\ beforeBatch' \in Snapshots(ledger)
            /\ UNCHANGED <<beforeRelease, afterRelease, account>>
    /\ UNCHANGED worldVars

(* Ladder and native budget allow less than is missing, or nothing: a      *)
(* deliberate pause.                                                       *)
AdmitBatch ==
    /\ step = "open"
    /\ quota' \in IF fleetShut THEN {0} ELSE 0..missing
    /\ paused' = (quota' < missing)
    /\ step' = "batch"
    /\ UNCHANGED <<worldVars, witnesses, missing, snapshotVars, tried, began, failures,
                   hopeless, recounted, released, present, account>>

Candidates == {s \in Berths \ (sealed \cup shut \cup tried) : ledger[s] = "free"}

(* next_slot_excluding: the lowest one. *)
NextBerth == CHOOSE s \in Candidates : \A t \in Candidates : s <= t

(* A registration of this batch is not the one the row may have had before. *)
FreshId(s) == IF beforeBatch # NoTable /\ beforeBatch[s] = "id" THEN "newid" ELSE "id"

(* A start that succeeds, after which the ladder may fail to be saved: the *)
(* batch ends and pauses.                                                  *)
OneStarts ==
    /\ step = "batch" /\ quota > 0 /\ Candidates # {}
    /\ ledger' = [ledger EXCEPT ![NextBerth] = FreshId(NextBerth)]
    /\ docked' = docked \cup {NextBerth}
    /\ tried' = tried \cup {NextBerth} /\ began' = began \cup {NextBerth}
    /\ \/ quota' = quota - 1 /\ UNCHANGED <<fleetShut, paused>>
       \/ quota' = 0 /\ fleetShut' = TRUE /\ paused' = TRUE
    /\ UNCHANGED <<shut, sealed, step, witnesses, missing, snapshotVars, failures,
                   hopeless, recounted, released, present, account>>

(* A start that fails may keep its row.  A preflight error, a ladder that  *)
(* cannot be saved and the fleet's circuit end the batch and pause.        *)
OneFails ==
    /\ step = "batch" /\ quota > 0 /\ Candidates # {}
    /\ \E row \in {"free", "reserved", FreshId(NextBerth)} :
          ledger' = [ledger EXCEPT ![NextBerth] = row]
    /\ tried' = tried \cup {NextBerth}
    /\ failures' = failures + 1
    /\ \/ /\ shut' \in {shut, shut \cup {NextBerth}}   \* counted by the ladder
          /\ quota' = quota - 1
          /\ UNCHANGED <<fleetShut, paused>>
       \/ /\ shut' \in {shut, shut \cup {NextBerth}}
          /\ fleetShut' = TRUE
          /\ quota' = 0 /\ paused' = TRUE
       \/ /\ quota' = 0 /\ paused' = TRUE              \* preflight
          /\ UNCHANGED <<shut, fleetShut>>
    /\ UNCHANGED <<docked, sealed, step, witnesses, missing, snapshotVars, began, hopeless,
                   recounted, released, present, account>>

(* No slot is free, or the allocator fails. *)
NoBerth ==
    /\ step = "batch" /\ quota > 0
    /\ \/ Candidates = {} /\ paused' = (paused \/ shut # {}) /\ UNCHANGED <<failures, hopeless>>
       \/ failures' = failures + 1 /\ hopeless' = TRUE /\ UNCHANGED paused
    /\ quota' = 0
    /\ UNCHANGED <<worldVars, step, witnesses, missing, snapshotVars, tried, began,
                   recounted, released, present, account>>

(* The batch is over, or a shutdown ends it. *)
EndBatch ==
    /\ step = "batch"
    /\ beforeRelease' \in Snapshots(ledger)
    /\ quota' = 0
    /\ step' = "release"
    /\ UNCHANGED <<worldVars, witnesses, missing, beforeBatch, afterRelease, tried, began,
                   failures, hopeless, paused, recounted, released, present, account>>

(* The trailing release.  One that failed, or a quarantine table that did  *)
(* not read before it, leaves no evidence.                                 *)
Release ==
    /\ step = "release"
    /\ \E rows \in SUBSET (Berths \ docked) : ledger' = FreedFrom(rows)
    /\ afterRelease' \in Snapshots(ledger')
    /\ IF hopeless /\ began = {}
       THEN step' = "told" /\ account' = [NoAccount EXCEPT !.kind = "error"]
       ELSE step' = "recount" /\ UNCHANGED account
    /\ UNCHANGED <<docked, shut, fleetShut, sealed, witnesses, missing, beforeBatch,
                   beforeRelease, batchVars, recounted, released, present>>

(* post_refill_released_slots: slots of a registered runner that the       *)
(* release freed, without a container, and that the allocator would take.  *)
Allocatable(s) == s \notin sealed \cup shut /\ ~fleetShut

SlotsReleased(names, readable) ==
    IF NoTable \in {beforeBatch, beforeRelease, afterRelease} \/ ~readable
    THEN {}
    ELSE {s \in Berths \ (tried \cup names) :
             /\ HoldsId(beforeBatch[s]) /\ beforeRelease[s] = beforeBatch[s]
             /\ afterRelease[s] = "free"
             /\ Allocatable(s)}

Recount ==
    /\ step = "recount"
    /\ \/ /\ step' = "told"                             \* docker ps failed
          /\ account' = [NoAccount EXCEPT !.kind = "error"]
          /\ UNCHANGED <<recounted, released>>
       \/ /\ recounted' = docked
          /\ \E readable \in BOOLEAN : released' = SlotsReleased(docked, readable)
          /\ step' = "probe"
          /\ UNCHANGED account
    /\ beforeBatch' = NoTable /\ beforeRelease' = NoTable /\ afterRelease' = NoTable
    /\ UNCHANGED <<worldVars, witnesses, missing, batchVars, present>>

(* executing_runner_count_from_containers: how many of the containers of   *)
(* the recount hold a runner (module Readiness).                           *)
ReadyCounts == 0..Cardinality(recounted \cap docked)

Short(n) == IF n < TheCount THEN TheCount - n ELSE 0

LookInto ==
    /\ step = "probe"
    /\ present' = docked
    /\ \E shortage \in {Short(n) : n \in ReadyCounts} :
          account' = [kind |-> "outcome", shortage |-> shortage, blind |-> FALSE,
                      lost |-> witnesses \ recounted]
    /\ step' = "told"
    /\ UNCHANGED <<worldVars, witnesses, missing, snapshotVars, batchVars, recounted, released>>

(* The pass was not complete: the shortage is that of the containers.      *)
LookFails ==
    /\ step = "probe"
    /\ present' = docked
    /\ account' = [kind |-> "outcome", shortage |-> Short(Cardinality(recounted)),
                   blind |-> TRUE, lost |-> witnesses \ recounted]
    /\ step' = "told"
    /\ UNCHANGED <<worldVars, witnesses, missing, snapshotVars, batchVars, recounted, released>>

CallAgain ==
    /\ step = "told"
    /\ step' = "idle"
    /\ witnesses' = {} /\ missing' = 0 /\ quota' = 0
    /\ beforeBatch' = NoTable /\ beforeRelease' = NoTable /\ afterRelease' = NoTable
    /\ tried' = {} /\ began' = {} /\ failures' = 0 /\ hopeless' = FALSE /\ paused' = FALSE
    /\ recounted' = {} /\ released' = {} /\ present' = {} /\ account' = NoAccount
    /\ UNCHANGED worldVars

(* start_command_disposition: what `ezgha start` says; the last two and a  *)
(* pause end it with an error.                                             *)
Disposition ==
    CASE paused -> "AdmissionPaused"
      [] ~paused /\ (failures > 0 \/ account.blind \/ account.lost # {} \/ released # {}) ->
            "Incomplete"
      [] OTHER -> CASE began # {}           -> "Started"
                    [] account.shortage = 0 -> "AtCapacity"
                    [] OTHER                -> "PendingShortage"

StartSucceeds ==
    step = "told" /\ account.kind = "outcome" /\ Disposition \in {"Started", "AtCapacity"}

EvidenceInit ==
    /\ ledger = [s \in Berths |-> "free"] /\ docked \in SUBSET Strays
    /\ shut = {} /\ fleetShut = FALSE /\ sealed = {}
    /\ step = "idle"
    /\ witnesses = {} /\ missing = 0 /\ quota = 0
    /\ beforeBatch = NoTable /\ beforeRelease = NoTable /\ afterRelease = NoTable
    /\ tried = {} /\ began = {} /\ failures = 0 /\ hopeless = FALSE /\ paused = FALSE
    /\ recounted = {} /\ released = {} /\ present = {} /\ account = NoAccount

EvidenceNext ==
    \/ BoatLeaves \/ TimeHeals
    \/ Reclaim \/ CountFleet \/ AdmitBatch \/ OneStarts \/ OneFails \/ NoBerth \/ EndBatch
    \/ Release \/ Recount \/ LookInto \/ LookFails \/ CallAgain

EvidenceSpec == EvidenceInit /\ [][EvidenceNext]_evidenceVars

----------------------------------------------------------------------------
(* A slot that is reported as released can be started in: its row is free  *)
(* and has no container, and it was not barred when the table was read,    *)
(* nor since.  The serve loop reconciles at once for it, and would do so   *)
(* again and again for a slot the allocator does not take.                 *)
ReleasedAreAllocatable ==
    \A s \in released :
        ledger[s] = "free" /\ s \notin docked \cup tried \cup sealed \cup shut /\ ~fleetShut

(* A runner that was there when the call began and is gone when its        *)
(* container is looked into is told: as lost, by the shortage, or by the   *)
(* readiness evidence being incomplete.                                    *)
LossesTold ==
    step = "told" /\ account.kind = "outcome" /\ ~(witnesses \subseteq present) =>
        account.lost # {} \/ account.blind \/ account.shortage > 0

(* `ezgha start` exits well only if every start it attempted succeeded and *)
(* no runner was lost before the recount, and says the fleet is complete   *)
(* only if as many containers are there as are configured.                 *)
StartTellsTruth ==
    StartSucceeds =>
        /\ tried = began
        /\ recounted # {} => witnesses \subseteq recounted
        /\ Disposition = "AtCapacity" => Cardinality(present) >= TheCount
=============================================================================
