---------------------------- MODULE MCRunnerPool -----------------------------
(* RunnerPool for TLC: runner ids are interchangeable. *)
EXTENDS RunnerPool, TLC
Symmetry == Permutations(Ids)

(***************************************************************************)
(* A fleet with one broken slot: slot 1 is free in the slot file, but      *)
(* GitHub keeps its last runner registered, offline and busy.  (Slot 1's   *)
(* runner takes a job and dies between the list and the docker ps of one   *)
(* pass: Path 1 releases the row it saw as offline and idle, and Path 4's  *)
(* delete is then refused.)  BrokenSlotSpec are the fair behaviours from   *)
(* there in which GitHub does not let go and no container dies.            *)
(***************************************************************************)
BrokenSlot == CHOOSE i \in Ids : TRUE

BrokenSlotInit ==
  /\ named = [i \in Ids |-> IF i = BrokenSlot THEN 1 ELSE None]
  /\ online = {}
  /\ busy = {BrokenSlot}
  /\ container = [s \in Slots |-> None]
  /\ phase = [s \in Slots |-> "off"]
  /\ DaemonInit

QuietWorld ==
  \/ \E s \in Slots : Connect(s) \/ AssignJob(s) \/ CompleteJob(s) \/ ExitUnregistered(s)
  \/ \E i \in Ids : LoseHeartbeat(i)

QuietNext ==
  \/ Daemon
  \/ QuietWorld /\ UNCHANGED daemon
  \/ \E s \in Slots : GraceExpires(s)

BrokenSlotSpec == BrokenSlotInit /\ [][QuietNext]_vars /\ Fairness
=============================================================================
