----------------------------- MODULE StateFile -----------------------------
(***************************************************************************)
(* A state file of the daemon, step by step: the slot table, the table of  *)
(* quarantined slots, or the ledger of the failure ladder.  The commands   *)
(* that change it (serve, start, stop) hold serve.lock while they read it, *)
(* change a row and write it back through a temporary file; any of them    *)
(* may be killed between two system calls, the host may lose power, and    *)
(* somebody else may damage the file.                                      *)
(***************************************************************************)
EXTENDS Naturals, FiniteSets

CONSTANTS Processes,     \* processes that change state of one state directory
          Rows,         \* rows of the table, one per slot
          Nobody,       \* no process
          FileFaults,   \* subset of {"kill", "power", "damage", "write"}
          MaxHarms      \* bound on losses of power and damages

ASSUME StateFileAssumption == Nobody \notin Processes /\ MaxHarms \in Nat

VARIABLES kind,         \* "slots", "quarantine" or "ledger"
          file,         \* what the path holds
          aside,        \* damaged files were put aside, not lost
          scratch,      \* the temporary file of each process
          durable,      \* what the path may hold after a loss of power
          lock,         \* holder of serve.lock
          at,           \* where each process is
          copy,         \* the rows each process works on
          since,        \* the versions of the rows since the last one reported saved
          losses,       \* of power, so far
          damages       \* done to the file, so far

stateVars == <<kind, file, aside, scratch, durable, lock, at, copy, since, losses, damages>>

Kinds == {"slots", "quarantine", "ledger"}
Whole(t) == [state |-> "whole", rows |-> t]
Torn == [state |-> "torn", rows |-> {}]
Empty == [state |-> "empty", rows |-> {}]
Missing == [state |-> "missing", rows |-> {}]
Contents == {Whole(t) : t \in SUBSET Rows} \cup {Torn, Empty, Missing}

Points == {"idle", "held", "loaded", "writing", "written", "synced", "renamed"}

StateTypeOK ==
    /\ kind \in Kinds /\ file \in Contents /\ durable \in SUBSET Contents
    /\ aside \in BOOLEAN /\ scratch \in [Processes -> Contents]
    /\ lock \in Processes \cup {Nobody} /\ at \in [Processes -> Points]
    /\ copy \in [Processes -> SUBSET Rows] /\ since \in SUBSET SUBSET Rows
    /\ losses \in Nat /\ damages \in Nat /\ losses + damages <= MaxHarms

StateInit ==
    /\ kind \in Kinds /\ file = Missing /\ durable = {Missing} /\ aside = FALSE
    /\ scratch = [p \in Processes |-> Missing]
    /\ lock = Nobody /\ at = [p \in Processes |-> "idle"]
    /\ copy = [p \in Processes |-> {}] /\ since = {{}} /\ losses = 0 /\ damages = 0

Goto(p, pt) == at' = [at EXCEPT ![p] = pt]

-----------------------------------------------------------------------------
(* A command.                                                              *)

(* flock without waiting: a command that finds the lock held gives up.     *)
LockFreeAlways(p) == TRUE                     \* mutant of LockFree
LockFree(p) == lock = Nobody

AcquireServeLock(p) ==
    /\ at[p] = "idle" /\ LockFree(p)
    /\ lock' = p /\ Goto(p, "held")
    /\ UNCHANGED <<kind, file, aside, scratch, durable, copy, since, losses, damages>>

(* A slot file that does not parse is put aside and taken for empty; a     *)
(* quarantine table that does not parse is taken for empty where it is,    *)
(* and the next save replaces it; a ledger that does not parse stops the   *)
(* start it was read for.                                                  *)
Load(p) ==
    /\ at[p] = "held" /\ Goto(p, "loaded")
    /\ kind = "ledger" => file # Torn
    /\ copy' = [copy EXCEPT ![p] = file.rows]
    /\ IF kind = "slots" /\ file = Torn
       THEN aside' = TRUE /\ file' = Missing /\ durable' = durable \cup {Missing}
       ELSE UNCHANGED <<aside, file, durable>>
    /\ UNCHANGED <<kind, scratch, lock, since, losses, damages>>

(* The temporary file bears the id of the process.                         *)
Written(p) == scratch' = [scratch EXCEPT ![p] = Torn] /\ UNCHANGED <<file, durable>>

BeginWrite(p) ==
    /\ at[p] = "loaded" /\ Goto(p, "writing")
    /\ \E r \in Rows : copy' = [copy EXCEPT ![p] = IF r \in @ THEN @ \ {r} ELSE @ \cup {r}]
    /\ Written(p)
    /\ UNCHANGED <<kind, aside, lock, since, losses, damages>>

EndWrite(p) ==
    /\ at[p] = "writing" /\ Goto(p, "written")
    /\ scratch' = [scratch EXCEPT ![p] = Whole(copy[p])]
    /\ UNCHANGED <<kind, file, aside, durable, lock, copy, since, losses, damages>>

WriteFails(p) ==
    /\ "write" \in FileFaults /\ at[p] \in {"writing", "written", "synced", "renamed"}
    /\ Goto(p, "held")
    /\ UNCHANGED <<kind, file, aside, scratch, durable, lock, copy, since, losses, damages>>

(* Only the ledger is flushed, before the rename and (its directory) after; *)
(* what is not may be found empty after a loss of power.                    *)
Flushed(p) == kind = "ledger"
Unflushed(p) == IF Flushed(p) THEN {} ELSE {Empty}

SyncFile(p) ==
    /\ at[p] = "written" /\ Flushed(p) /\ Goto(p, "synced")
    /\ UNCHANGED <<kind, file, aside, scratch, durable, lock, copy, since, losses, damages>>

Rename(p) ==
    /\ at[p] = IF Flushed(p) THEN "synced" ELSE "written"
    /\ file' = scratch[p] /\ scratch' = [scratch EXCEPT ![p] = Missing]
    /\ durable' = durable \cup {scratch[p]} \cup Unflushed(p)
    /\ IF kind = "ledger"
       THEN Goto(p, "renamed") /\ since' = since \cup {scratch[p].rows}
       ELSE Goto(p, "held") /\ since' = {scratch[p].rows}
    /\ UNCHANGED <<kind, aside, lock, copy, losses, damages>>

SyncDirectory(p) ==
    /\ at[p] = "renamed" /\ Goto(p, "held")
    /\ durable' = {file} \cup Unflushed(p) /\ since' = {file.rows}
    /\ UNCHANGED <<kind, file, aside, scratch, lock, copy, losses, damages>>

(* The kernel drops the lock of a process that ends.  Its temporary file   *)
(* may stay, but nobody reads it and it is forgotten here.                 *)
End(p) ==
    /\ Goto(p, "idle") /\ lock' = IF lock = p THEN Nobody ELSE lock
    /\ scratch' = [scratch EXCEPT ![p] = Missing] /\ copy' = [copy EXCEPT ![p] = {}]

Return(p) ==
    /\ at[p] = "held" /\ End(p)
    /\ UNCHANGED <<kind, file, aside, durable, since, losses, damages>>

-----------------------------------------------------------------------------
(* What may happen to it.                                                  *)

Kill(p) ==
    /\ "kill" \in FileFaults /\ at[p] # "idle" /\ End(p)
    /\ UNCHANGED <<kind, file, aside, durable, since, losses, damages>>

WriteBack ==
    /\ durable # {file} /\ durable' = {file}
    /\ UNCHANGED <<kind, file, aside, scratch, lock, at, copy, since, losses, damages>>

PowerLoss ==
    /\ "power" \in FileFaults /\ losses + damages < MaxHarms /\ losses' = losses + 1
    /\ file' \in durable /\ durable' = {file'} /\ since' = {file'.rows}
    /\ lock' = Nobody /\ at' = [p \in Processes |-> "idle"]
    /\ scratch' = [p \in Processes |-> Missing] /\ copy' = [p \in Processes |-> {}]
    /\ UNCHANGED <<kind, aside, damages>>

Damage ==
    /\ "damage" \in FileFaults /\ losses + damages < MaxHarms /\ damages' = damages + 1
    /\ file.state = "whole" /\ lock = Nobody
    /\ file' = Torn /\ durable' = {Torn} /\ since' = {{}}
    /\ UNCHANGED <<kind, aside, scratch, lock, at, copy, losses>>

CommandStep(p) ==
    \/ AcquireServeLock(p) \/ Load(p) \/ BeginWrite(p) \/ EndWrite(p) \/ WriteFails(p)
    \/ SyncFile(p) \/ Rename(p) \/ SyncDirectory(p) \/ Return(p) \/ Kill(p)

StateNext == (\E p \in Processes : CommandStep(p)) \/ WriteBack \/ PowerLoss \/ Damage

StateSpec == StateInit /\ [][StateNext]_stateVars

-----------------------------------------------------------------------------
(* The file keeps the promise of an atomic table: updates of commands that *)
(* overlap are never lost, no reader finds half of a version, a killed     *)
(* command leaves the old version or the new one, and of the ledger even a *)
(* loss of power leaves no version older than the one last reported saved. *)
Table == INSTANCE AtomicTable
           WITH lasting <- kind = "ledger", table <- file.rows
TableIsAtomic == Table!Spec

(* A damaged ledger is never replaced, so no start forgets an open circuit; *)
(* a damaged slot table is replaced only after it was put aside.            *)
DamageIsKept ==
    [][file = Torn /\ file' # Torn => kind = "quarantine" \/ (kind = "slots" /\ aside')]_stateVars

=============================================================================
