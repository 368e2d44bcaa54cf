--------------------------- MODULE AdmissionGates ---------------------------
(***************************************************************************)
(* The gates a refill passes before it may start a runner, in the order of *)
(* ensure_count_outcome, src/docker_backend.rs: host containment, a fleet  *)
(* that is full, host disk, docker disk, memory pressure.  What they keep  *)
(* from one tick to the next are process-wide statics: the strikes of a    *)
(* docker disk nobody could measure, the window of pressure readings, the  *)
(* source they were read from, and the episode of a pause.                 *)
(***************************************************************************)
EXTENDS Naturals, Sequences

CONSTANTS
  Strikes,     \* DISK_MEASURE_STRIKES
  AlertAfter,  \* ADMISSION_PAUSE_ALERT_AFTER
  WindowSize,  \* the length of PRESSURE_WINDOW
  Levels,      \* the pressures that can be read, 0 among them
  TooHigh,     \* above this a reading refuses by itself
  Sources,     \* the places pressure can be read from
  HostReserve  \* is runner.host_reserve_mb configured?

ASSUME GatesAssumption ==
  /\ Strikes \in Nat \ {0} /\ AlertAfter \in Nat \ {0}
  /\ WindowSize \in Nat \ {0}
  /\ 0 \in Levels /\ Levels \subseteq Nat /\ TooHigh \in Nat
  /\ HostReserve \in BOOLEAN

VARIABLES
  nones,     \* CONSECUTIVE_DISK_NONE
  window,    \* PRESSURE_WINDOW, oldest first, without its None entries; what a
             \* reading came from is history
  source,    \* LAST_PRESSURE_SOURCE
  episode,   \* ADMISSION_PAUSE_EPISODE: its age and whether it alerted
  verdict,   \* how the last tick ended
  idle,      \* history: time since a tick was admitted or found the fleet full
  reported,  \* history: the headroom alert was sent since then
  alert,     \* history: the last tick sent it
  unmeasured \* history: refills admitted since docker's disk was last measured

gateVars == <<nones, window, source, episode, verdict, idle, reported, alert, unmeasured>>

NoSource == "none"
NoPause == [age |-> 0, alerted |-> FALSE, open |-> FALSE]
Readings == [level : Levels, from : Sources]

GatesTypeOK ==
  /\ nones \in 0..Strikes
  /\ window \in Seq(Readings) /\ Len(window) <= WindowSize
  /\ source \in Sources \cup {NoSource}
  /\ episode \in [age : 0..AlertAfter, alerted : BOOLEAN, open : BOOLEAN]
  /\ verdict \in {"none", "full", "refused", "starved", "paused", "admitted"}
  /\ idle \in 0..AlertAfter
  /\ reported \in BOOLEAN /\ alert \in BOOLEAN
  /\ unmeasured \in 0..Strikes

----------------------------------------------------------------------------
(* Operators of the source. *)

Push(w, reading) ==
  IF Len(w) < WindowSize THEN Append(w, reading) ELSE Append(Tail(w), reading)

\* All readings are there and each is above the one before.
Rising(w) ==
  /\ Len(w) = WindowSize
  /\ \A k \in 1..(WindowSize - 1) : w[k].level < w[k + 1].level

\* eval_admission: a pressure too high, or too little memory for one more runner.
Refuses(level, memory) == level > TooHigh \/ memory = "scarce"

\* log_pressure_source_change: a new source starts a new window.
WindowFor(src) == IF src = source THEN window ELSE <<>>

\* Mutant: each tick of the pause forgets that it alerted.
EpisodeAfterForgetting(paused, due) ==
  IF ~paused THEN NoPause
  ELSE [open |-> TRUE, age |-> IF episode.open THEN episode.age ELSE 0, alerted |-> due]

\* admission_pause_alert_due
EpisodeAfter(paused, due) ==
  IF ~paused THEN NoPause
  ELSE [open |-> TRUE,
        age |-> IF episode.open THEN episode.age ELSE 0,
        alerted |-> due \/ (episode.open /\ episode.alerted)]

AlertDue(paused, headroom) ==
  /\ paused /\ headroom
  /\ episode.open /\ ~episode.alerted
  /\ episode.age = AlertAfter

MoreUnmeasured(n) == IF n < Strikes THEN n + 1 ELSE n

Quietly == alert' = FALSE /\ UNCHANGED <<episode, idle, reported>>

Serving ==
  /\ episode' = NoPause
  /\ idle' = 0 /\ reported' = FALSE /\ alert' = FALSE

----------------------------------------------------------------------------
(* ensure_count_outcome, one action per way it can end before the refill. *)

\* Host containment fails, or docker ps does.
Barred ==
  /\ verdict' = "refused"
  /\ Quietly
  /\ UNCHANGED <<nones, window, source, unmeasured>>

\* The source is resolved before the full-fleet return.
Full(src) ==
  /\ source' = src /\ window' = WindowFor(src)
  /\ verdict' = "full"
  /\ Serving
  /\ UNCHANGED <<nones, unmeasured>>

\* The host's disk is below the floor or cannot be measured.
HostDiskRefuses(src) ==
  /\ source' = src /\ window' = WindowFor(src)
  /\ verdict' = "refused"
  /\ Quietly
  /\ UNCHANGED <<nones, unmeasured>>

\* Docker's disk is below the floor.
DiskFloorRefuses(src) ==
  /\ source' = src /\ window' = WindowFor(src)
  /\ nones' = 0
  /\ unmeasured' = 0
  /\ verdict' = "refused"
  /\ Quietly

\* Docker's disk could not be measured, for the last time.
StruckOut(n) == n >= Strikes

DiskUnknownRefuses(src) ==
  /\ StruckOut(nones + 1)
  /\ nones' = IF nones < Strikes THEN nones + 1 ELSE nones
  /\ source' = src /\ window' = WindowFor(src)
  /\ verdict' = "refused"
  /\ Quietly
  /\ UNCHANGED unmeasured

\* Docker's disk is measured and fine, or the guard is off for this cycle.
DiskPasses(measured) ==
  IF measured THEN nones' = 0
  ELSE /\ ~StruckOut(nones + 1)
       /\ nones' = nones + 1

\* The gate reads a pressure, 0 when the runner cgroup is not near memory.high,
\* and the memory available.  A reading that refuses by itself, or too little
\* memory, leaves the window alone.
MemoryGate(src, measured, level, memory) ==
  LET pushed == Push(WindowFor(src), [level |-> level, from |-> src])
      refused == Refuses(level, memory)
      paused == refused \/ Rising(pushed)
      due == AlertDue(paused, memory = "ample")
  IN
  /\ DiskPasses(measured)
  /\ source' = src
  /\ window' = IF refused THEN WindowFor(src) ELSE pushed
  /\ unmeasured' = IF measured THEN 0 ELSE IF paused THEN unmeasured ELSE MoreUnmeasured(unmeasured)
  /\ IF paused
     THEN /\ verdict' = IF memory = "ample" THEN "starved" ELSE "paused"
          /\ episode' = EpisodeAfter(TRUE, due)
          /\ alert' = due
          /\ reported' = (reported \/ due)
          /\ UNCHANGED idle
     ELSE /\ verdict' = "admitted"
          /\ Serving

\* The probe fails: a zero reading, and a refusal if a reserve is configured.
ProbeFails(src, measured) ==
  /\ DiskPasses(measured)
  /\ source' = src
  /\ window' = Push(WindowFor(src), [level |-> 0, from |-> src])
  /\ unmeasured' = IF measured THEN 0 ELSE IF HostReserve THEN unmeasured ELSE MoreUnmeasured(unmeasured)
  /\ IF HostReserve
     THEN /\ verdict' = "paused"
          /\ episode' = EpisodeAfter(TRUE, FALSE)
          /\ alert' = FALSE
          /\ UNCHANGED <<idle, reported>>
     ELSE /\ verdict' = "admitted"
          /\ Serving

EnsureTick ==
  \/ Barred
  \/ \E src \in Sources :
       \/ Full(src)
       \/ HostDiskRefuses(src)
       \/ DiskFloorRefuses(src)
       \/ DiskUnknownRefuses(src)
       \/ \E measured \in BOOLEAN :
            \/ \E level \in Levels, memory \in {"scarce", "enough", "ample"} :
                 MemoryGate(src, measured, level, memory)
            \/ ProbeFails(src, measured)

\* Time between ticks.
Older(n) == IF n < AlertAfter THEN n + 1 ELSE n

GateElapse ==
  /\ idle' = Older(idle)
  /\ episode' = IF episode.open THEN [episode EXCEPT !.age = Older(@)] ELSE episode
  /\ UNCHANGED <<nones, window, source, verdict, reported, alert, unmeasured>>

GatesInit ==
  /\ nones = 0
  /\ window = <<>>
  /\ source = NoSource
  /\ episode = NoPause
  /\ verdict = "none"
  /\ idle = 0
  /\ reported = FALSE /\ alert = FALSE
  /\ unmeasured = 0

GatesNext == EnsureTick \/ GateElapse

GatesFairness == WF_gateVars(EnsureTick) /\ WF_gateVars(GateElapse)

GatesSpec == GatesInit /\ [][GatesNext]_gateVars /\ GatesFairness

----------------------------------------------------------------------------
(* Properties. *)

\* The headroom alert says that admission has been paused for ten minutes: when
\* it is sent no tick was admitted, and none found the fleet full, for as long,
\* and it was not sent before in that time.
HeadroomAlertTrue ==
  [][(alert' /\ ~alert) => (idle = AlertAfter /\ ~reported)]_gateVars

\* A fleet that ticks paused with headroom for ever is reported.
StarvationTold == <>[](verdict = "starved") => <>reported

\* The disk guard fails open for fewer than Strikes refills between two
\* measurements of docker's disk, whatever ticks come between.
BlindRefillsBounded == unmeasured < Strikes
=============================================================================
