---------------------------- MODULE MCPoolWorlds ----------------------------
(***************************************************************************)
(* RunnerPool in worlds that differ in their failures, for TLC.  A         *)
(* behaviour picks one of the worlds, its part, for good.                  *)
(***************************************************************************)
EXTENDS MCRunnerPool

VARIABLE part

----------------------------------------------------------------------------
(* What two slots are safe from: a daemon that dies between any two steps  *)
(* while responses are lost and docker runs fail, or a daemon whose        *)
(* probes, deletes and docker commands fail while runners lose their       *)
(* connection.                                                             *)
Blips == INSTANCE RunnerPool WITH Faults <- {"ps", "probe", "delete", "partition", "rm"}

PoolSafeNext ==
  /\ UNCHANGED part
  /\ \/ part = "restarts" /\ Next
     \/ part = "blips" /\ Blips!Next

PoolSafeInit == Init /\ part \in {"restarts", "blips"}

PoolSafeSpec == PoolSafeInit /\ [][PoolSafeNext]_<<vars, part>>

----------------------------------------------------------------------------
(* One slot: what it is safe from, every failure at once, and what the     *)
(* daemon recovers from.  A slot is refilled whatever crashes left behind; *)
(* a registration is tidied up also if responses are lost and containers   *)
(* fail to start; a quarantine ends if nothing fails.                      *)
Calm == INSTANCE RunnerPool WITH Faults <- {}
Crashing == INSTANCE RunnerPool WITH Faults <- {"crash"}
Rough == INSTANCE RunnerPool WITH Faults <- {"crash", "lost", "run", "timeout"}

OneSlotNext ==
  /\ UNCHANGED part
  /\ \/ part = "endures" /\ Next
     \/ part = "heals" /\ Crashing!Next
     \/ part = "tidies" /\ Rough!Next
     \/ part = "unlocks" /\ Calm!Next

ADaemonStep ==
  \/ part = "heals" /\ Crashing!Daemon
  \/ part = "tidies" /\ Rough!Daemon
  \/ part = "unlocks" /\ Calm!Daemon

OneSlotInit == Init /\ part \in {"endures", "heals", "tidies", "unlocks"}

OneSlotWorlds == OneSlotInit /\ [][OneSlotNext]_<<vars, part>>

(* LockSpec of module RunnerPool, whose world does not depend on the part. *)
OneSlotSpec ==
  /\ OneSlotWorlds
  /\ WF_vars(ADaemonStep)
  /\ \A s \in Slots :
       /\ WF_vars(Connect(s) /\ UNCHANGED daemon)
       /\ WF_vars(CompleteJob(s) /\ UNCHANGED daemon)
       /\ WF_vars(ExitUnregistered(s) /\ UNCHANGED daemon)
       /\ WF_vars(GraceExpires(s))
  /\ \A i \in Ids : /\ WF_vars(LoseHeartbeat(i) /\ ~Housed(i) /\ UNCHANGED daemon)
                    /\ WF_vars(ReleaseLock(i) /\ UNCHANGED daemon)

(* RowHoldsRunner and NoLiveRunnerDeregistered of module RunnerPool, under *)
(* every failure of the configuration at once.                             *)
OneSlotSafe ==
  /\ [](part = "endures" => RowHoldsRunner)
  /\ [][part = "endures" => LiveKeepsRegistration]_vars

(* SlotsRefilled of module RunnerPool. *)
PoolHeals == part = "heals" => SlotsRefilled

(* OrphansReaped and QuarantineLifted of module RunnerPool. *)
PoolTidies ==
  /\ part = "tidies" => OrphansReaped
  /\ part = "unlocks" => QuarantineLifted
=============================================================================
