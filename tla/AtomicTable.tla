---------------------------- MODULE AtomicTable ----------------------------
(***************************************************************************)
(* What a state file promises the commands that share it: a set of rows    *)
(* that changes one row at a time, whole, and of which the version that    *)
(* was last reported as saved outlives a process.  A durable one outlives  *)
(* a loss of power as well; any other may then be found in any state, as   *)
(* may a file that somebody else damages.                                  *)
(***************************************************************************)
EXTENDS Naturals

CONSTANT Rows
VARIABLES lasting,   \* whether it is durable
          table,     \* the rows, as a reader finds them
          since,     \* the versions since the last one reported as saved
          losses,    \* of power, so far
          damages    \* done to the file by others, so far

Flip(t, r) == IF r \in t THEN t \ {r} ELSE t \cup {r}

Init == lasting \in BOOLEAN /\ table = {} /\ since = {{}} /\ losses = 0 /\ damages = 0

Update ==
    /\ \E r \in Rows : table' = Flip(table, r)
    /\ since' \in {{table'}, since \cup {table'}}
    /\ UNCHANGED <<lasting, losses, damages>>

Save == since' = {table} /\ UNCHANGED <<lasting, table, losses, damages>>

PowerLoss ==
    /\ table' \in IF lasting THEN since ELSE SUBSET Rows
    /\ since' = {table'} /\ losses' = losses + 1
    /\ UNCHANGED <<lasting, damages>>

Damage ==
    /\ table' = {} /\ since' = {{}} /\ damages' = damages + 1
    /\ UNCHANGED <<lasting, losses>>

Next == Update \/ Save \/ PowerLoss \/ Damage

Spec == Init /\ [][Next]_<<lasting, table, since, losses, damages>>
=============================================================================
