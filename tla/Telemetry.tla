----------------------------- MODULE Telemetry -----------------------------
(***************************************************************************)
(* What the daemon remembers of its runners for the operator               *)
(* (src/docker_backend.rs): the peak memory of each container, polled in   *)
(* every reconciliation and reported when the container is gone, and the   *)
(* last decisions of the reconciliation on each slot.  Both live in the    *)
(* memory of the process and end with it.                                  *)
(***************************************************************************)
EXTENDS Naturals, Sequences, SequencesExt

CONSTANTS
    Boxnames,      \* names of containers, one per slot
    Usages,        \* what docker stats may say of a container, in MB
    Debounce,      \* PEAK_RSS_POLL_DEBOUNCE
    RingCap,       \* RECLAIM_RING_CAP
    MaxDecisions   \* bound on the decisions on a slot

NotUp == 0

ASSUME TelemetryAssumption ==
    /\ Usages \subseteq Nat \ {NotUp} /\ MaxDecisions \in Nat
    /\ {Debounce, RingCap} \subseteq Nat \ {0}

VARIABLES
    usage,     \* Docker: the memory each container uses, or NotUp
    changed,   \* Docker: a container ended since the tick listed them
    tickAt,    \* where the tick is: "idle", "listed", "polled", "reaped"
    names,     \* the containers the tick listed
    peaks,     \* PEAK_RSS_MB: an entry for some names, 0 for the others
    pollAge,   \* time since LAST_PEAK_RSS_POLL, Debounce and more is one
    readings,  \* history: what was read of each name since its last report
    ring,      \* reclaim_ring: the decisions kept of each slot
    decisions  \* history: all of them

telemetryVars == <<usage, changed, tickAt, names, peaks, pollAge, readings, ring,
                   decisions>>

TelemetryTypeOK ==
    /\ usage \in [Boxnames -> Usages \cup {NotUp}] /\ changed \in BOOLEAN
    /\ tickAt \in {"idle", "listed", "polled", "reaped"} /\ names \subseteq Boxnames
    /\ peaks \in [Boxnames -> Usages \cup {0}] /\ pollAge \in 0..Debounce
    /\ \A n \in Boxnames : Len(ring[n]) <= RingCap /\ Len(decisions[n]) <= MaxDecisions

UpNow == {n \in Boxnames : usage[n] # NotUp}

-----------------------------------------------------------------------------
(* Docker: a container starts, uses more memory or less, and ends.         *)
Use ==
    /\ \E n \in Boxnames, m \in Usages : usage' = [usage EXCEPT ![n] = m]
    /\ UNCHANGED <<changed, tickAt, names, peaks, pollAge, readings, ring, decisions>>

Vanish ==
    /\ \E n \in UpNow : usage' = [usage EXCEPT ![n] = NotUp]
    /\ changed' = TRUE
    /\ UNCHANGED <<tickAt, names, peaks, pollAge, readings, ring, decisions>>

-----------------------------------------------------------------------------
(* release_stale_slots: a listing that fails leaves the peaks alone.       *)
ListContainers ==
    /\ tickAt = "idle"
    /\ names' = UpNow /\ tickAt' = "listed" /\ changed' = FALSE
    /\ UNCHANGED <<usage, peaks, pollAge, readings, ring, decisions>>

Raised(n, m) == IF m > peaks[n] THEN m ELSE peaks[n]

(* poll_peak_rss: not twice within the debounce window, not for an empty   *)
(* listing; docker stats fails as a whole when a container it is asked for *)
(* is gone, or when it does not answer in time.                            *)
PollPeak ==
    /\ tickAt = "listed" /\ tickAt' = "polled"
    /\ pollAge' = IF pollAge < Debounce THEN pollAge ELSE 0
    /\ \/ /\ pollAge = Debounce /\ names # {} /\ ~changed
          /\ peaks' = [n \in Boxnames |->
                         IF n \in names THEN Raised(n, usage[n]) ELSE peaks[n]]
          /\ readings' = [n \in Boxnames |->
                            IF n \in names THEN readings[n] \cup {usage[n]} ELSE readings[n]]
       \/ UNCHANGED <<peaks, readings>>
    /\ UNCHANGED <<usage, changed, names, ring, decisions>>

(* reap_stale_peak_rss_entries *)
Gone(n) == peaks[n] # 0 /\ n \notin names

ReapEntries ==
    /\ tickAt = "polled" /\ tickAt' = "reaped"
    /\ peaks' = [n \in Boxnames |-> IF Gone(n) THEN 0 ELSE peaks[n]]
    /\ readings' = [n \in Boxnames |-> IF Gone(n) THEN {} ELSE readings[n]]
    /\ UNCHANGED <<usage, changed, names, pollAge, ring, decisions>>

(* record_reclaim: the oldest decision on the slot makes room.  A decision *)
(* is told from the others by its number.                                  *)
Kept(s) == IF Len(s) >= RingCap THEN Tail(s) ELSE s

Decide ==
    /\ tickAt = "reaped"
    /\ \E n \in Boxnames :
          LET record == Len(decisions[n]) + 1
          IN  /\ record <= MaxDecisions
              /\ ring' = [ring EXCEPT ![n] = Append(Kept(@), record)]
              /\ decisions' = [decisions EXCEPT ![n] = Append(@, record)]
    /\ UNCHANGED <<usage, changed, tickAt, names, peaks, pollAge, readings>>

EndTick ==
    /\ tickAt = "reaped" /\ tickAt' = "idle"
    /\ UNCHANGED <<usage, changed, names, peaks, pollAge, readings, ring, decisions>>

TimePasses ==
    /\ pollAge < Debounce /\ pollAge' = pollAge + 1
    /\ UNCHANGED <<usage, changed, tickAt, names, peaks, readings, ring, decisions>>

TelemetryInit ==
    /\ usage = [n \in Boxnames |-> NotUp] /\ changed = FALSE
    /\ tickAt = "idle" /\ names = {}
    /\ peaks = [n \in Boxnames |-> 0] /\ pollAge = Debounce
    /\ readings = [n \in Boxnames |-> {}]
    /\ ring = [n \in Boxnames |-> << >>] /\ decisions = [n \in Boxnames |-> << >>]

TelemetryNext ==
    \/ Use \/ Vanish
    \/ ListContainers \/ PollPeak \/ ReapEntries \/ Decide \/ EndTick \/ TimePasses

TelemetrySpec == TelemetryInit /\ [][TelemetryNext]_telemetryVars

-----------------------------------------------------------------------------
(* snapshot_reclaim of one slot: newest first. *)
Snapshot(n) == Reverse(ring[n])

(* The history of a slot is that of its last decisions, none skipped, and  *)
(* the peak kept of a name is the highest reading since the name was last  *)
(* reported, across the polls that are skipped and those that fail; names  *)
(* that are gone are not kept.                                             *)
TelemetryTrue ==
    /\ \A n \in Boxnames :
          /\ IsPrefix(Snapshot(n), Reverse(decisions[n]))
          /\ Len(decisions[n]) <= RingCap => Len(ring[n]) = Len(decisions[n])
          /\ peaks[n] \in readings[n] \cup {0}
          /\ \A m \in readings[n] : m <= peaks[n]
    /\ tickAt = "reaped" => {n \in Boxnames : peaks[n] # 0} \subseteq names
=============================================================================
