--------------------------- MODULE MCFailureLadder ---------------------------
(***************************************************************************)
(* FailureLadder for TLC, in two sizes; a behaviour picks one of them, its *)
(* part.  "safe": every fault and gap, and short times.  "serves": slots   *)
(* that always fail, one start per batch, and times whose proportions are  *)
(* those of the source.  The unit of time is the poll interval.            *)
(***************************************************************************)
EXTENDS FailureLadder

VARIABLES part, ledger2, disk2, latch2, pc2, failed2, budget2, cur2, running2, taken2

vars2 == <<ledger2, disk2, latch2, pc2, failed2, budget2, cur2, running2, taken2>>

OnePoll == {1}
ShortStarts == {0, 1}
\* A poll interval, or a stop of the daemon that outlasts the window but not
\* a slot's cooldown, or everything.
AnyGap == {1, Window + 1, SlotCooldown + FleetCooldown}
OneStart == {1}
AnyBatch == 0 .. Count

Serves == INSTANCE FailureLadder WITH
            Window <- 8, SlotCooldown <- 16, FleetOpenSlots <- 3, FleetCooldown <- 6,
            Broken <- {1, 2}, Budgets <- OneStart, Gaps <- OnePoll, Faults <- {"save"},
            ledger <- ledger2, disk <- disk2, latch <- latch2, pc <- pc2,
            failed <- failed2, budget <- budget2, cur <- cur2, running <- running2,
            taken <- taken2

LadderInit == part \in {"safe", "serves"} /\ Init /\ Serves!Init

LadderNext ==
  \/ part = "safe" /\ Next /\ UNCHANGED <<part, vars2>>
  \/ part = "serves" /\ Serves!Next /\ UNCHANGED <<part, vars>>

LadderSpec ==
  /\ LadderInit /\ [][LadderNext]_<<part, vars, vars2>>
  /\ WF_vars2(part = "serves" /\ Serves!Daemon)
  /\ \A s \in Slots : SF_vars2(part = "serves" /\ Serves!ReleaseRow(s))

(* FleetServes and EverySlotTried of module FailureLadder: broken siblings *)
(* keep no slot that works from being served, and none is given up.        *)
LadderServes == part = "serves" => Serves!FleetServes /\ Serves!EverySlotTried
=============================================================================
