---------------------------- MODULE PacedFlight ----------------------------
(***************************************************************************)
(* What a background monitor promises the serve loop: a worker is launched *)
(* only when no other is in flight, and two launches are at least Gap      *)
(* apart.  The schedulers of src/queue_monitor.rs and src/canary.rs        *)
(* implement it (modules Monitors and Canary).                             *)
(***************************************************************************)
EXTENDS Naturals

CONSTANT Gap

VARIABLES
    flight,  \* "none", "flying" or "landed" (finished, not yet collected)
    since    \* time since the last launch, saturating at Gap

Finish == flight = "flying" /\ flight' = "landed" /\ since' = since

Collect == flight = "landed" /\ flight' = "none" /\ since' = since

(* A launch, which may fail; a finished worker is collected first. *)
Launch ==
    /\ flight # "flying"
    /\ since >= Gap
    /\ flight' \in {"none", "flying"}
    /\ since' = 0

Pass == since' \in since..Gap /\ flight' = flight

Init == flight = "none" /\ since \in {0, Gap}

Next == Finish \/ Collect \/ Launch \/ Pass

Spec == Init /\ [][Next]_<<flight, since>>
=============================================================================
