--------------------------- MODULE WatcherProofs ---------------------------
(***************************************************************************)
(* Proofs about the monitors, the canary, the sample of the queue, the     *)
(* ages of its jobs and the delivery of alerts, and about their            *)
(* composition.  Each has an inductive invariant, what its initial states  *)
(* and its steps do to it, and what it implies.                            *)
(***************************************************************************)
EXTENDS MCWatchers, SequenceTheorems, FiniteSetTheorems, WellFoundedInduction, TLAPS

-----------------------------------------------------------------------------
(* Monitors                                                                *)

MonitorNumbers ==
  /\ ServeTick \in Nat /\ CheckEvery \in Nat /\ SampleEvery \in Nat /\ HitThreshold \in Nat
  /\ SkipTicks \in Nat /\ AlertAfter \in Nat /\ Quiet \in Nat
  /\ ServeTick > 0 /\ HitThreshold > 0 /\ AlertAfter > 0

LEMMA MonitorsNumbered == MonitorNumbers
  BY MonitorsAssumption DEF MonitorNumbers

\* The worker is at work exactly while it flies.
WorkFlies ==
  /\ flight = "flying" <=> work \in {"gate", "probe", "fetch", "queue", "sample"}
  /\ flight = "none" => work = "none"

MonitorInv == MonitorsTypeOK /\ WorkFlies

LEMMA Capped ==
  ASSUME NEW n \in Nat, NEW most \in Nat
  PROVE  Cap(n, most) \in 0..most /\ (n <= most => Cap(n, most) = n) /\ Cap(n, most) <= n
         /\ (n >= most => Cap(n, most) = most)
  BY DEF Cap

LEMMA MonitorInitInv == MonitorsInit => MonitorInv /\ Flight!Init
<1>1. /\ CheckEvery \in 0..CheckEvery /\ SampleEvery \in 0..SampleEvery
      /\ 0 \in 0..(2 * AlertAfter) /\ 0 \in 0..HitThreshold /\ 0 \in 0..SkipTicks
      /\ ServeTick \in 0..ServeTick /\ Quiet \in 0..Quiet
  BY MonitorsNumbered DEF MonitorNumbers
<1>2. QED
  BY <1>1 DEF MonitorsInit, MonitorInv, MonitorsTypeOK, WorkFlies, Flight!Init

\* What a step says of the counters.
StreakKept == bad' < bad => bad' = 0 /\ (work = "panicked" \/ (work = "queue" /\ QueueDue))

FlightSteps == [Flight!Next]_<<flight, attempt>>

LEMMA MonitorStepInv ==
  MonitorInv /\ [MonitorsNext]_monitorVars => MonitorInv' /\ StreakKept /\ FlightSteps
<1> SUFFICES ASSUME MonitorInv, [MonitorsNext]_monitorVars
             PROVE  MonitorInv' /\ StreakKept /\ FlightSteps
  OBVIOUS
<1> USE DEF MonitorInv, FlightSteps
<1>n. MonitorNumbers
  BY MonitorsNumbered
<1>t. /\ queueAge \in 0..CheckEvery /\ sampleAge \in 0..SampleEvery /\ bad \in 0..(2 * AlertAfter)
      /\ hits \in 0..HitThreshold /\ skip \in 0..SkipTicks /\ attempt \in 0..ServeTick
      /\ quiet \in 0..Quiet
  BY DEF MonitorsTypeOK
<1>z. /\ 0 \in 0..CheckEvery /\ 0 \in 0..SampleEvery /\ 0 \in 0..(2 * AlertAfter)
      /\ 0 \in 0..HitThreshold /\ 0 \in 0..SkipTicks /\ 0 \in 0..ServeTick /\ 0 \in 0..Quiet
      /\ CheckEvery \in 0..CheckEvery /\ SampleEvery \in 0..SampleEvery
  BY <1>n DEF MonitorNumbers
<1>b. ~(bad < bad)
  BY <1>t
<1>1. CASE CollectFinished
  <2>1. MonitorsTypeOK'
    BY <1>1, <1>z DEF CollectFinished, Reset, state, MonitorsTypeOK
  <2>2. WorkFlies'
    BY <1>1 DEF CollectFinished, WorkFlies
  <2>3. StreakKept
    BY <1>1, <1>b DEF CollectFinished, Reset, state, StreakKept
  <2>4. FlightSteps
    BY <1>1 DEF CollectFinished, Flight!Next, Flight!Collect
  <2>5. QED
    BY <2>1, <2>2, <2>3, <2>4
<1>2. CASE Dispatch
  <2>1. MonitorsTypeOK'
    BY <1>2, <1>z DEF Dispatch, state, MonitorsTypeOK
  <2>2. WorkFlies'
    BY <1>2 DEF Dispatch, WorkFlies
  <2>3. StreakKept
    BY <1>2, <1>b DEF Dispatch, state, StreakKept
  <2>4. FlightSteps
    <3>1. attempt >= ServeTick
      BY <1>2, <1>n DEF Dispatch, Paced, MonitorNumbers
    <3>2. flight # "flying" /\ flight' \in {"none", "flying"} /\ attempt' = 0
      BY <1>2 DEF Dispatch
    <3>3. QED
      BY <3>1, <3>2 DEF Flight!Next, Flight!Launch
  <2>5. QED
    BY <2>1, <2>2, <2>3, <2>4
<1>3. CASE Tick
  <2>1. /\ attempt' \in 0..ServeTick /\ queueAge' \in 0..CheckEvery
        /\ sampleAge' \in 0..SampleEvery /\ quiet' \in 0..Quiet
    <3>1. /\ attempt + 1 \in Nat /\ queueAge + 1 \in Nat /\ sampleAge + 1 \in Nat
          /\ quiet + 1 \in Nat
      BY <1>t
    <3>2. QED
      BY <1>3, <1>n, <3>1, Capped DEF Tick, MonitorNumbers
  <2>2. MonitorsTypeOK' /\ WorkFlies'
    BY <1>3, <2>1 DEF Tick, MonitorsTypeOK, WorkFlies
  <2>3. StreakKept
    BY <1>3, <1>b DEF Tick, StreakKept
  <2>4. attempt' \in attempt..ServeTick
    BY <1>3, <1>n, <1>t DEF Tick, Cap, MonitorNumbers
  <2>5. FlightSteps
    BY <1>3, <2>4 DEF Tick, Flight!Next, Flight!Pass
  <2>6. QED
    BY <2>2, <2>3, <2>5
<1>4. ASSUME Worker
      PROVE  MonitorInv' /\ StreakKept /\ FlightSteps
  <2>1. UNCHANGED <<held, attempt, calm>> /\ alarmed' \subseteq {"tail", "invariant"}
    BY <1>4 DEF Worker, Alarms
  <2> DEFINE Flies == /\ flight = "flying"
                      /\ \/ flight' = "flying"
                            /\ work' \in {"gate", "probe", "fetch", "queue", "sample"}
                         \/ flight' = "landed" /\ work' \in {"none", "panicked"}
  <2>2. ASSUME Flies,
               queueAge' \in 0..CheckEvery, sampleAge' \in 0..SampleEvery,
               bad' \in 0..(2 * AlertAfter), hits' \in 0..HitThreshold,
               skip' \in 0..SkipTicks, quiet' \in 0..Quiet
        PROVE  MonitorInv' /\ FlightSteps
    <3>1. FlightSteps
      BY <2>1, <2>2 DEF Flight!Next, Flight!Finish
    <3>2. MonitorsTypeOK' /\ WorkFlies'
      BY <2>1, <2>2 DEF MonitorsTypeOK, WorkFlies
    <3>3. QED
      BY <3>1, <3>2
  <2>3. CASE SkipProbe \/ Probe
    <3>1. skip' \in 0..SkipTicks
      BY <1>t, <1>n, <2>3 DEF SkipProbe, Probe, state, MonitorNumbers
    <3>2. UNCHANGED <<queueAge, sampleAge, bad, hits, quiet>>
      BY <2>3 DEF SkipProbe, Probe, state
    <3>3. Flies
      BY <2>3 DEF SkipProbe, Probe, Finish, WorkFlies
    <3>4. QED
      BY <1>b, <1>t, <2>2, <3>1, <3>2, <3>3 DEF StreakKept
  <2>4. CASE BudgetLow \/ BudgetUnknown \/ BudgetHealthy
    <3>1. hits' \in 0..HitThreshold
      <4>1. hits + 1 \in Nat /\ HitThreshold \in Nat
        BY <1>n, <1>t DEF MonitorNumbers
      <4>2. Cap(hits + 1, HitThreshold) \in 0..HitThreshold
        BY <4>1, Capped
      <4>3. QED
        BY <1>t, <1>z, <2>4, <4>2 DEF BudgetLow, BudgetUnknown, BudgetHealthy, state
    <3>2. skip' \in 0..SkipTicks /\ quiet' \in 0..Quiet
      <4>1. SkipTicks \in 0..SkipTicks
        BY <1>n DEF MonitorNumbers
      <4>2. SkipAfter(hits') \in 0..SkipTicks
        BY <4>1, <1>t DEF SkipAfter
      <4>3. QED
        BY <1>t, <1>z, <2>4, <4>2 DEF BudgetLow, BudgetUnknown, BudgetHealthy, state
    <3>3. UNCHANGED <<queueAge, sampleAge, bad>>
      BY <2>4 DEF BudgetLow, BudgetUnknown, BudgetHealthy, state
    <3>4. Flies
      BY <2>4 DEF BudgetLow, BudgetUnknown, BudgetHealthy, Finish, WorkFlies
    <3>5. QED
      BY <1>b, <1>t, <2>2, <3>1, <3>2, <3>3, <3>4 DEF StreakKept
  <2>5. CASE Fetch \/ Panic
    <3>1. UNCHANGED state /\ UNCHANGED quiet
      BY <2>5 DEF Fetch, Panic
    <3>2. Flies
      BY <2>5 DEF Fetch, Panic, Finish, WorkFlies
    <3>3. QED
      BY <1>b, <1>t, <2>2, <3>1, <3>2 DEF StreakKept, state
  <2>6. CASE CheckQueue
    <3>1. bad' \in 0..(2 * AlertAfter) /\ queueAge' \in 0..CheckEvery
      <4>1. bad + 1 \in Nat
        BY <1>t
      <4>2. 2 * AlertAfter \in Nat
        BY <1>n DEF MonitorNumbers
      <4>3. Cap(bad + 1, 2 * AlertAfter) \in 0..(2 * AlertAfter)
        BY <4>1, <4>2, Capped
      <4>4. QED
        BY <1>t, <1>z, <2>6, <4>3 DEF CheckQueue
    <3>2. UNCHANGED <<sampleAge, hits, skip, quiet>>
      BY <2>6 DEF CheckQueue
    <3>3. Flies
      BY <2>6 DEF CheckQueue, Finish, WorkFlies
    <3>4. StreakKept
      <4>1. work = "queue" /\ (~QueueDue => bad' = bad)
        BY <2>6 DEF CheckQueue
      <4>2. QueueDue => bad' \in {0, Cap(bad + 1, 2 * AlertAfter)}
        BY <2>6 DEF CheckQueue
      <4>3. ~(Cap(bad + 1, 2 * AlertAfter) < bad)
        BY <1>t, <1>n DEF Cap, MonitorNumbers
      <4>4. QED
        BY <1>b, <4>1, <4>2, <4>3 DEF StreakKept
    <3>5. QED
      BY <1>t, <2>2, <3>1, <3>2, <3>3, <3>4
  <2>7. CASE Sample
    <3>1. UNCHANGED <<queueAge, bad, hits, skip, quiet>> /\ sampleAge' \in {0, sampleAge}
      BY <2>7 DEF Sample
    <3>2. Flies
      BY <2>7 DEF Sample, Finish, WorkFlies
    <3>3. QED
      BY <1>b, <1>t, <1>z, <2>2, <3>1, <3>2 DEF StreakKept
  <2>8. QED
    BY <1>4, <2>3, <2>4, <2>5, <2>6, <2>7 DEF Worker
<1>5. CASE Calm \/ UNCHANGED monitorVars
  BY <1>5, <1>b DEF Calm, monitorVars, state, MonitorsTypeOK, WorkFlies, StreakKept
<1>6. QED
  BY <1>1, <1>2, <1>3, <1>4, <1>5 DEF MonitorsNext, Scheduler

\* While the budget was low too often, the time since then pays for the serve
\* ticks whose probes were skipped.
Skipped == (SkipTicks - skip) * ServeTick

BackoffPays ==
  /\ work = "probe" => skip = 0
  /\ hits >= HitThreshold =>
       quiet = Quiet \/ quiet + (IF work = "gate" THEN 0 ELSE ServeTick) >= Skipped + attempt

ProbesRare == work = "gate" /\ work' = "probe" /\ hits >= HitThreshold
                => quiet >= SkipTicks * ServeTick

LEMMA TicksSkipped ==
  ASSUME NEW a \in Int, NEW b \in Int
  PROVE  a * b \in Int /\ 0 * b = 0 /\ (a + 1) * b = (a * b) + b
  OBVIOUS

LEMMA SkippedIs ==
  ASSUME MonitorsTypeOK
  PROVE  /\ Skipped \in Int
         /\ skip = 0 => Skipped = SkipTicks * ServeTick
         /\ skip = SkipTicks => Skipped = 0
         /\ skip' = skip => Skipped' = Skipped
         /\ skip' = skip - 1 => Skipped' = Skipped + ServeTick
         /\ skip' = SkipTicks => Skipped' = 0
<1>1. SkipTicks - skip \in Int /\ ServeTick \in Int /\ SkipTicks \in Int /\ skip \in Int
  BY MonitorsNumbered DEF MonitorsTypeOK, MonitorNumbers
<1>2. Skipped \in Int
  BY <1>1, TicksSkipped DEF Skipped
<1>3. skip = 0 => Skipped = SkipTicks * ServeTick
  BY <1>1 DEF Skipped
<1>4. /\ skip = SkipTicks => Skipped = 0
      /\ skip' = SkipTicks => Skipped' = 0
  <2>1. SkipTicks - SkipTicks = 0
    BY <1>1
  <2>2. QED
    BY <1>1, <2>1, TicksSkipped DEF Skipped
<1>5. skip' = skip - 1 => Skipped' = Skipped + ServeTick
  <2> SUFFICES ASSUME skip' = skip - 1
               PROVE  Skipped' = Skipped + ServeTick
    OBVIOUS
  <2>1. SkipTicks - skip' = (SkipTicks - skip) + 1
    BY <1>1
  <2>2. ((SkipTicks - skip) + 1) * ServeTick = ((SkipTicks - skip) * ServeTick) + ServeTick
    BY <1>1, TicksSkipped
  <2>3. QED
    BY <2>1, <2>2 DEF Skipped
<1>6. QED
  BY <1>2, <1>3, <1>4, <1>5 DEF Skipped

LEMMA BackoffInit == MonitorsInit => BackoffPays
<1>1. ~(0 >= HitThreshold)
  BY MonitorsNumbered DEF MonitorNumbers
<1>2. QED
  BY <1>1 DEF MonitorsInit, BackoffPays

LEMMA BackoffStep ==
  MonitorInv /\ BackoffPays /\ [MonitorsNext]_monitorVars => BackoffPays' /\ ProbesRare
<1> SUFFICES ASSUME MonitorsTypeOK, BackoffPays, [MonitorsNext]_monitorVars
             PROVE  BackoffPays' /\ ProbesRare
  BY DEF MonitorInv
<1>n. MonitorNumbers /\ Quiet >= SkipTicks * ServeTick /\ SkipTicks * ServeTick \in Int
  <2>1. SkipTicks \in Int /\ ServeTick \in Int
    BY MonitorsNumbered DEF MonitorNumbers
  <2>2. QED
    BY <2>1, MonitorsNumbered, MonitorsAssumption, TicksSkipped
<1>t. /\ hits \in 0..HitThreshold /\ skip \in 0..SkipTicks /\ attempt \in 0..ServeTick
      /\ quiet \in 0..Quiet /\ Skipped \in Int
      /\ ServeTick \in Int /\ Quiet \in Int /\ ServeTick > 0 /\ HitThreshold \in Int
  BY <1>n, SkippedIs DEF MonitorsTypeOK, MonitorNumbers
<1>s. /\ skip' = skip => Skipped' = Skipped
      /\ skip' = skip - 1 => Skipped' = Skipped + ServeTick
      /\ skip' = SkipTicks => Skipped' = 0
  BY SkippedIs
<1>1. ASSUME UNCHANGED <<skip, hits, quiet, attempt>>, work # "gate" => work' # "gate",
             work' = "probe" => work = "probe"
      PROVE  BackoffPays' /\ ProbesRare
  <2>1. Skipped' = Skipped
    BY <1>1, <1>s
  <2>2. BackoffPays'
    BY <1>1, <1>t, <2>1 DEF BackoffPays
  <2>3. QED
    BY <1>1, <2>2 DEF ProbesRare
<1>2. CASE CollectFinished
  <2>1. CASE work = "panicked"
    <3>1. hits' = 0 /\ work' = "none" /\ ~(0 >= HitThreshold)
      BY <1>2, <1>n, <2>1 DEF CollectFinished, Reset, MonitorNumbers
    <3>2. QED
      BY <3>1 DEF BackoffPays, ProbesRare
  <2>2. CASE work # "panicked"
    BY <1>1, <1>2, <2>2 DEF CollectFinished, state
  <2>3. QED
    BY <2>1, <2>2
<1>3. CASE Dispatch
  <2>1. attempt = ServeTick /\ attempt' = 0 /\ UNCHANGED <<skip, hits, quiet>>
        /\ work' \in {"gate", work}
    BY <1>3 DEF Dispatch, Paced, state
  <2>2. Skipped' = Skipped
    BY <2>1, <1>s
  <2>3. BackoffPays'
    BY <1>t, <2>1, <2>2 DEF BackoffPays
  <2>4. QED
    BY <2>1, <2>3 DEF ProbesRare
<1>4. CASE Tick
  <2>1. /\ attempt' = Cap(attempt + 1, ServeTick) /\ quiet' = Cap(quiet + 1, Quiet)
        /\ UNCHANGED <<skip, hits, work>>
    BY <1>4 DEF Tick
  <2>2. /\ attempt' <= attempt + 1 /\ attempt' \in Int
        /\ quiet' = Quiet \/ quiet' = quiet + 1
        /\ quiet = Quiet => quiet' = Quiet
    BY <1>t, <2>1 DEF Cap
  <2>3. Skipped' = Skipped
    BY <2>1, <1>s
  <2>4. CASE quiet' = Quiet
    BY <2>1, <2>4 DEF BackoffPays, ProbesRare
  <2>5. CASE quiet' = quiet + 1 /\ quiet # Quiet
    BY <1>t, <2>1, <2>2, <2>3, <2>5 DEF BackoffPays, ProbesRare
  <2>6. QED
    BY <2>2, <2>4, <2>5
<1>5. CASE Worker
  <2>u. attempt' = attempt
    BY <1>5 DEF Worker
  <2>1. CASE SkipProbe
    <3>1. /\ work = "gate" /\ skip' = skip - 1 /\ UNCHANGED <<hits, quiet>> /\ work' = "none"
      BY <2>1 DEF SkipProbe, Finish
    <3>2. Skipped' = Skipped + ServeTick
      BY <3>1, <1>s
    <3>3. QED
      BY <1>t, <2>u, <3>1, <3>2 DEF BackoffPays, ProbesRare
  <2>2. CASE Probe
    <3>1. /\ work = "gate" /\ skip = 0 /\ UNCHANGED <<skip, hits, quiet>> /\ work' = "probe"
      BY <2>2 DEF Probe, state
    <3>2. Skipped' = Skipped /\ Skipped = SkipTicks * ServeTick
      BY <3>1, SkippedIs
    <3>3. BackoffPays'
      BY <1>t, <2>u, <3>1, <3>2 DEF BackoffPays
    <3>4. ProbesRare
      BY <1>t, <1>n, <3>1, <3>2 DEF BackoffPays, ProbesRare
    <3>5. QED
      BY <3>3, <3>4
  <2>3. CASE BudgetLow
    <3>1. /\ work = "probe" /\ quiet' = 0 /\ skip' = SkipAfter(hits') /\ work' = "none"
          /\ skip = 0
      BY <2>3 DEF BudgetLow, Finish, BackoffPays
    <3>2. hits' >= HitThreshold => skip' = SkipTicks
      BY <3>1 DEF SkipAfter
    <3>3. BackoffPays'
      BY <1>t, <1>s, <2>u, <3>1, <3>2 DEF BackoffPays
    <3>4. QED
      BY <3>1, <3>3 DEF ProbesRare
  <2>4. CASE BudgetHealthy
    <3>1. hits' = 0 /\ work' = "fetch" /\ ~(0 >= HitThreshold)
      BY <1>n, <2>4 DEF BudgetHealthy, MonitorNumbers
    <3>2. QED
      BY <3>1 DEF BackoffPays, ProbesRare
  <2>5. CASE BudgetUnknown \/ Fetch \/ Panic
    <3>1. UNCHANGED <<skip, hits, quiet>> /\ work' \in {"none", "queue", "panicked"}
      BY <2>5 DEF BudgetUnknown, Fetch, Panic, Finish, state
    <3>2. QED
      BY <1>1, <2>u, <3>1
  <2>6. CASE CheckQueue \/ Sample
    <3>1. UNCHANGED <<skip, hits, quiet>> /\ work' \in {"none", "sample"}
      BY <2>6 DEF CheckQueue, Sample, Finish
    <3>2. QED
      BY <1>1, <2>u, <3>1
  <2>7. QED
    BY <1>5, <2>1, <2>2, <2>3, <2>4, <2>5, <2>6 DEF Worker
<1>6. CASE Calm \/ UNCHANGED monitorVars
  BY <1>1, <1>6 DEF Calm, monitorVars, state
<1>7. QED
  BY <1>2, <1>3, <1>4, <1>5, <1>6 DEF MonitorsNext, Scheduler

-----------------------------------------------------------------------------
(* AlertDelivery                                                           *)

Sends == [key : Keys, stage : {"rest", "slack", "email", "log", "end"},
          took : 0..SendLimit, since : 0..2 * SendLimit, outside : BOOLEAN, inLog : BOOLEAN]

\* The record of a key's cooldown is the age of its last delivery; a delivery
\* in progress is of a key whose cooldown is over, in the thread that owns it;
\* and it takes a time limit a transport at most.
SendHolds(t) ==
  /\ send[t].stage # "rest" => KeyOwner[send[t].key] = t /\ sentAge[send[t].key] = Cooldown
  /\ send[t].stage = "rest" => send[t].took = 0 /\ send[t].since = 0
  /\ send[t].stage = "slack" => send[t].since <= send[t].took
  /\ send[t].stage = "email" => send[t].since <= SendLimit + send[t].took

AlertInv ==
  /\ AlertTypeOK
  /\ sentAge = lastHeard
  /\ \A t \in Senders : SendHolds(t)

LEMMA AlertNumbers ==
  /\ Cooldown \in Nat /\ SendLimit \in Nat /\ Deadline \in Nat
  /\ 2 * SendLimit \in Nat /\ 2 * SendLimit = SendLimit + SendLimit
  /\ Cooldown > 0 /\ SendLimit > 0
  /\ 0 \in 0..Cooldown /\ Cooldown \in 0..Cooldown /\ 0 \in 0..SendLimit
  /\ 0 \in 0..2 * SendLimit /\ 0 \in 0..Deadline
  BY AlertAssumption

LEMMA RestingIsSend ==
  /\ Resting \in Sends
  /\ \A k \in Keys : [Resting EXCEPT !.key = k, !.stage = "slack"] \in Sends
  BY AlertNumbers, AlertAssumption DEF Resting, Sends

LEMMA OlderIsNoLess ==
  ASSUME NEW most \in Nat, NEW n \in 0..most
  PROVE  Older(n, most) \in 0..most /\ (n = most => Older(n, most) = most)
  BY DEF Older

LEMMA AlertInitInv == AlertInit => AlertInv
<1> SUFFICES ASSUME AlertInit
             PROVE  AlertInv
  OBVIOUS
<1>1. AlertTypeOK
  BY RestingIsSend, AlertNumbers DEF AlertInit, AlertTypeOK, Sends
<1>2. \A t \in Senders : SendHolds(t)
  BY DEF AlertInit, SendHolds, Resting
<1>3. QED
  BY <1>1, <1>2 DEF AlertInit, AlertInv

\* What a step says of deliveries.
HeardOnce == \A k \in heardNow' : lastHeard[k] = Cooldown

LogCountsNot ==
  \A t \in Senders :
    send[t].stage = "end" /\ send'[t].stage = "rest" /\ External /\ ~send[t].outside
      => sentAge'[send[t].key] = sentAge[send[t].key] /\ pipeAge' = pipeAge

AlertSteps == AlertInv' /\ HeardOnce /\ LogCountsNot

LEMMA AlertStepInv == AlertInv /\ [AlertNext]_alertVars =>
                        AlertInv' /\ ((HeardOnce /\ LogCountsNot) \/ UNCHANGED alertVars)
<1> SUFFICES ASSUME AlertInv, AlertNext
             PROVE  AlertSteps
  <2>1. AlertInv /\ UNCHANGED alertVars => AlertInv'
    BY DEF AlertInv, AlertTypeOK, SendHolds, alertVars, HasSlack
  <2>2. QED
    BY <2>1 DEF AlertSteps
<1>t. /\ setup \in Setups /\ healed \in BOOLEAN /\ sentAge \in [Keys -> 0..Cooldown]
      /\ pipeAge \in 0..Deadline /\ send \in [Senders -> Sends]
      /\ heardNow \subseteq Keys /\ lastHeard \in [Keys -> 0..Cooldown] /\ sentAge = lastHeard
  BY DEF AlertInv, AlertTypeOK, Sends
<1>h. \A t \in Senders : SendHolds(t)
  BY DEF AlertInv
<1>f. \A t \in Senders :
        /\ send[t].stage = "rest" => send[t].took = 0
        /\ send[t].took \in 0..SendLimit /\ send[t].since \in 0..2 * SendLimit
        /\ send[t].key \in Keys
  BY <1>t, <1>h DEF Sends, SendHolds
<1>q. ASSUME setup' \in Setups, healed' \in BOOLEAN, sentAge' \in [Keys -> 0..Cooldown],
             pipeAge' \in 0..Deadline, send' \in [Senders -> Sends], heardNow' \subseteq Keys,
             lastHeard' = sentAge', \A t \in Senders : SendHolds(t)',
             HeardOnce, LogCountsNot
      PROVE  AlertSteps
  BY <1>q DEF AlertSteps, AlertInv, AlertTypeOK, Sends
\* A step that moves one delivery on, and delivers nothing.
<1>o. ASSUME NEW t \in Senders, NEW s \in Sends, send' = [send EXCEPT ![t] = s],
             UNCHANGED <<setup, healed, sentAge, pipeAge, lastHeard>>, heardNow' = {},
             s.stage # "rest",
             KeyOwner[s.key] = t /\ sentAge[s.key] = Cooldown,
             s.stage = "slack" => s.since <= s.took,
             s.stage = "email" => s.since <= SendLimit + s.took
      PROVE  AlertSteps
  <2>1. send' \in [Senders -> Sends]
    BY <1>o, <1>t
  <2>2. \A u \in Senders : SendHolds(u)'
    BY <1>o, <1>h, <1>t DEF SendHolds
  <2>3. HeardOnce
    BY <1>o DEF HeardOnce
  <2>4. LogCountsNot
    BY <1>o, <1>t DEF LogCountsNot
  <2>5. QED
    BY <1>o, <1>q, <1>t, <2>1, <2>2, <2>3, <2>4
<1>1. ASSUME NEW t \in Senders, NEW k \in Keys, Raise(t, k)
      PROVE  AlertSteps
  <2> DEFINE s == [Resting EXCEPT !.key = k, !.stage = "slack"]
  <2>1. s \in Sends
    BY RestingIsSend
  <2>2. /\ s.stage = "slack" /\ s.key = k /\ s.took = 0 /\ s.since = 0
    BY DEF Resting
  <2>3. /\ send' = [send EXCEPT ![t] = s] /\ heardNow' = {}
        /\ UNCHANGED <<setup, healed, sentAge, pipeAge, lastHeard>>
        /\ KeyOwner[k] = t /\ sentAge[k] = Cooldown
    BY <1>1 DEF Raise, ShouldSend
  <2> HIDE DEF s
  <2>4. s.since <= s.took /\ s.stage # "rest" /\ s.stage # "email"
        /\ KeyOwner[s.key] = t /\ sentAge[s.key] = Cooldown
    BY <2>2, <2>3
  <2>5. QED
    BY <1>o, <2>1, <2>3, <2>4
<1>2. ASSUME NEW t \in Senders, SendSlack(t) \/ SendEmail(t) \/ SendLog(t)
      PROVE  AlertSteps
  <2>1. PICK s : /\ send' = [send EXCEPT ![t] = s]
                 /\ s.took = 0 /\ s.since = send[t].since /\ s.key = send[t].key
                 /\ s.outside \in BOOLEAN /\ s.inLog \in BOOLEAN
                 /\ \/ send[t].stage = "slack" /\ s.stage = "email"
                    \/ send[t].stage = "email" /\ s.stage = "log"
                    \/ send[t].stage = "log" /\ s.stage = "end"
                 /\ s \in Sends
    <3>1. CASE SendSlack(t)
      <4>1. PICK ok \in BOOLEAN :
              send' = [send EXCEPT ![t] = [Moved(t, "email") EXCEPT !.outside = ok]]
        BY <3>1 DEF SendSlack, Outcomes
      <4>2. send[t] \in Sends /\ send[t].stage = "slack"
        BY <3>1, <1>t DEF SendSlack
      <4>3. WITNESS [Moved(t, "email") EXCEPT !.outside = ok]
      <4>4. QED
        BY <4>1, <4>2, AlertNumbers DEF Moved, Sends
    <3>2. CASE SendEmail(t)
      <4>1. PICK ok \in BOOLEAN :
              send' = [send EXCEPT ![t] = [Moved(t, "log") EXCEPT !.outside = @ \/ ok]]
        BY <3>2 DEF SendEmail, Outcomes
      <4>2. send[t] \in Sends /\ send[t].stage = "email"
        BY <3>2, <1>t DEF SendEmail
      <4>3. WITNESS [Moved(t, "log") EXCEPT !.outside = @ \/ ok]
      <4>4. QED
        BY <4>1, <4>2, AlertNumbers DEF Moved, Sends
    <3>3. CASE SendLog(t)
      <4>1. PICK ok \in BOOLEAN :
              send' = [send EXCEPT ![t] = [Moved(t, "end") EXCEPT !.inLog = ok]]
        BY <3>3 DEF SendLog, Outcomes
      <4>2. send[t] \in Sends /\ send[t].stage = "log"
        BY <3>3, <1>t DEF SendLog
      <4>3. WITNESS [Moved(t, "end") EXCEPT !.inLog = ok]
      <4>4. QED
        BY <4>1, <4>2, AlertNumbers DEF Moved, Sends
    <3>4. QED
      BY <1>2, <3>1, <3>2, <3>3
  <2>2. UNCHANGED <<setup, healed, sentAge, pipeAge, lastHeard>> /\ heardNow' = {}
    BY <1>2 DEF SendSlack, SendEmail, SendLog
  <2>3. KeyOwner[s.key] = t /\ sentAge[s.key] = Cooldown
    BY <2>1, <1>h DEF SendHolds
  <2>4. s.stage = "email" => s.since <= SendLimit + s.took
    <3>1. send[t].stage = "slack" => send[t].since <= send[t].took
      BY <1>h DEF SendHolds
    <3>2. QED
      BY <2>1, <1>f, <3>1, AlertNumbers
  <2>5. s.stage # "rest" /\ s.stage # "slack"
    BY <2>1
  <2>6. QED
    BY <1>o, <2>1, <2>2, <2>3, <2>4, <2>5
<1>3. ASSUME NEW t \in Senders, Conclude(t)
      PROVE  AlertSteps
  <2> DEFINE k == send[t].key
             ok == Counts(send[t])
  <2>1. /\ send[t].stage = "end" /\ send' = [send EXCEPT ![t] = Resting]
        /\ UNCHANGED <<setup, healed>>
        /\ sentAge' = RecordSent(k, ok)
        /\ pipeAge' = IF ok /\ k = DeadmanKey THEN Earlier(send[t].since, Deadline) ELSE pipeAge
        /\ heardNow' = (IF ok THEN {k} ELSE {})
        /\ lastHeard' = IF ok THEN [lastHeard EXCEPT ![k] = 0] ELSE lastHeard
    BY <1>3 DEF Conclude
  <2>2. k \in Keys /\ KeyOwner[k] = t /\ sentAge[k] = Cooldown
    BY <1>f, <1>h, <2>1 DEF SendHolds
  <2>3. /\ \A t2 \in Senders : External /\ ~send[t2].outside => ~Counts(send[t2])
    BY DEF Counts
  <2> HIDE DEF k, ok
  <2>4. sentAge' = (IF ok THEN [sentAge EXCEPT ![k] = 0] ELSE sentAge)
        /\ lastHeard' = sentAge'
    BY <1>t, <2>1 DEF RecordSent
  <2>5. sentAge' \in [Keys -> 0..Cooldown] /\ heardNow' \subseteq Keys
    BY <1>t, <2>1, <2>2, <2>4, AlertNumbers
  <2>6. pipeAge' \in 0..Deadline
    <3>1. Earlier(send[t].since, Deadline) \in 0..Deadline
      BY <1>f, AlertNumbers DEF Earlier
    <3>2. QED
      BY <1>t, <2>1, <3>1
  <2>7. send' \in [Senders -> Sends]
    BY <1>t, <2>1, RestingIsSend
  <2>8. ASSUME NEW u \in Senders
        PROVE  SendHolds(u)'
    <3>1. CASE u = t
      <4>1. send'[u] = Resting
        BY <1>t, <2>1, <3>1
      <4>2. QED
        BY <4>1 DEF SendHolds, Resting
    <3>2. CASE u # t
      <4>1. send'[u] = send[u] /\ SendHolds(u)
        BY <1>t, <1>h, <2>1, <3>2
      <4>2. send[u].stage # "rest" => send[u].key # k
        BY <4>1, <2>2, <3>2 DEF SendHolds
      <4>3. send[u].stage # "rest" => sentAge'[send[u].key] = sentAge[send[u].key]
        BY <1>f, <1>t, <2>4, <4>2
      <4>4. QED
        BY <4>1, <4>3 DEF SendHolds
    <3>3. QED
      BY <3>1, <3>2
  <2>9. HeardOnce
    BY <1>t, <2>1, <2>2 DEF HeardOnce
  <2>10. LogCountsNot
    <3> SUFFICES ASSUME NEW u \in Senders, send[u].stage = "end", send'[u].stage = "rest",
                        External, ~send[u].outside
                 PROVE  sentAge'[send[u].key] = sentAge[send[u].key] /\ pipeAge' = pipeAge
      BY DEF LogCountsNot
    <3>1. u = t
      BY <1>t, <2>1
    <3>2. ~ok
      BY <2>3, <3>1 DEF ok
    <3>3. QED
      BY <2>1, <2>4, <3>2
  <2>11. QED
    BY <1>q, <1>t, <2>1, <2>4, <2>5, <2>6, <2>7, <2>8, <2>9, <2>10
<1>4. CASE Credit \/ Heal
  <2>1. /\ UNCHANGED <<setup, sentAge, send, lastHeard>> /\ heardNow' = {}
        /\ healed' \in {healed, TRUE} /\ pipeAge' \in {pipeAge, 0}
    BY <1>4 DEF Credit, Heal
  <2>2. \A t \in Senders : SendHolds(t)'
    BY <1>h, <2>1 DEF SendHolds
  <2>3. HeardOnce /\ LogCountsNot
    BY <2>1 DEF HeardOnce, LogCountsNot
  <2>4. QED
    BY <1>q, <1>t, <2>1, <2>2, <2>3, AlertNumbers
<1>5. CASE AlertTime
  <2>1. /\ \A t \in Senders : send[t].took < SendLimit
        /\ sentAge' = [k \in Keys |-> Older(sentAge[k], Cooldown)]
        /\ lastHeard' = [k \in Keys |-> Older(lastHeard[k], Cooldown)]
        /\ pipeAge' = Older(pipeAge, Deadline)
        /\ heardNow' = {} /\ UNCHANGED <<setup, healed>>
    BY <1>5 DEF AlertTime
  <2>2. sentAge' \in [Keys -> 0..Cooldown] /\ pipeAge' \in 0..Deadline /\ lastHeard' = sentAge'
    BY <1>t, <2>1, AlertNumbers, OlderIsNoLess
  <2>3. ASSUME NEW t \in Senders
        PROVE  send'[t] \in Sends /\ SendHolds(t)' /\ send'[t].stage = send[t].stage
    <3>0. send[t] \in Sends /\ SendHolds(t) /\ send[t].took < SendLimit
      BY <1>t, <1>h, <2>1
    <3>4. ASSUME NEW k \in Keys, sentAge[k] = Cooldown
          PROVE  sentAge'[k] = Cooldown
      BY <1>t, <2>1, <3>4, AlertNumbers, OlderIsNoLess
    <3>1. CASE send[t].stage \in {"slack", "email"}
      <4>1. send'[t] = [send[t] EXCEPT !.took = @ + 1, !.since = @ + 1]
        BY <1>5, <3>1 DEF AlertTime
      <4>2. send[t].took + 1 \in 0..SendLimit /\ send[t].since + 1 \in 0..2 * SendLimit
        BY <3>0, <3>1, <1>f, AlertNumbers DEF SendHolds
      <4>3. /\ send'[t] \in Sends /\ send'[t].stage = send[t].stage
            /\ send'[t].key = send[t].key
            /\ send'[t].took = send[t].took + 1 /\ send'[t].since = send[t].since + 1
        BY <3>0, <4>1, <4>2 DEF Sends
      <4>4. sentAge'[send[t].key] = Cooldown
        BY <3>0, <3>1, <3>4, <1>f DEF SendHolds
      <4>5. SendHolds(t)'
        BY <3>0, <3>1, <1>f, <4>3, <4>4, AlertNumbers DEF SendHolds
      <4>6. QED
        BY <4>3, <4>5
    <3>2. CASE send[t].stage \notin {"slack", "email"}
      <4>1. send'[t] = send[t]
        BY <1>5, <3>2 DEF AlertTime
      <4>2. send[t].stage # "rest" => sentAge'[send[t].key] = Cooldown
        BY <3>0, <3>4, <1>f DEF SendHolds
      <4>3. QED
        BY <3>0, <4>1, <4>2 DEF SendHolds
    <3>3. QED
      BY <3>1, <3>2
  <2>4. send' \in [Senders -> Sends]
    <3>1. send' = [t \in Senders |-> send'[t]]
      BY <1>5 DEF AlertTime
    <3>2. QED
      BY <2>3, <3>1
  <2>5. HeardOnce /\ LogCountsNot
    BY <2>1, <2>3 DEF HeardOnce, LogCountsNot
  <2>6. QED
    BY <1>q, <1>t, <2>1, <2>2, <2>3, <2>4, <2>5
<1>6. QED
  BY <1>1, <1>2, <1>3, <1>4, <1>5 DEF AlertNext, SendStep

-----------------------------------------------------------------------------
(* Canary                                                                  *)

CanaryTyped ==
  /\ thread \in {"none", "flying", "landed"}
  /\ phase \in {"none", "read", "judge", "record", "ended", "failed"}
  /\ spent \in 0..Horizon /\ createdAt \in 0..Never /\ startedAt \in 0..Never
  /\ run \in {"none", "queued", "started", "completed"}
  /\ runner \in {"nobody", "ours", "foreign"} /\ success \in BOOLEAN
  /\ seen \in [status : {"dispatched", "queued", "started", "completed", "timeout"},
               wait : 0..Never, ours : BOOLEAN, success : BOOLEAN, breached : BOOLEAN]
  /\ warned \in BOOLEAN
  /\ last \in 0..CanaryEvery /\ due \in 0..(Horizon + PollEvery)

\* A verdict of completion is what GitHub still says of the run.
VerdictStands == seen.status = "completed" => run = "completed" /\ seen = Result

\* A deadline that was missed is a breach of the objective.
LateIsBreach == seen.status = "timeout" => seen.breached

\* The thread ends with a verdict only, and raises the alert it calls for.
EndsWithVerdict ==
  /\ phase \in {"record", "ended"} => seen.status \in {"completed", "timeout"}
  /\ phase = "ended" => warned = ShouldAlert
  /\ phase \in {"read", "judge", "record"} => thread = "flying"

CanaryInv == CanaryTyped /\ VerdictStands /\ LateIsBreach /\ EndsWithVerdict

LEMMA CanaryTimes ==
  /\ Horizon \in Nat /\ Never \in Nat /\ Never \in 0..Never /\ Never = Horizon + 1
  /\ CanaryEvery \in Nat /\ StartSlo \in Nat /\ PollTimeout \in Nat /\ PollEvery \in Nat
  /\ Horizon = PollTimeout + PollEvery + 1 /\ CanaryEvery > 0
  BY CanaryAssumption DEF Horizon, Never

LEMMA ResultFields ==
  ASSUME CanaryTyped
  PROVE  /\ Result.status \in {"queued", "started", "completed"}
         /\ Result.status = "completed" <=> run = "completed"
         /\ Result.wait = TimeToStart
         /\ TimeToStart \in 0..Never
         /\ Result.ours = Correlated
         /\ Result.success = (run = "completed" /\ success)
         /\ Result.breached = IF TimeToStart # Never THEN TimeToStart > StartSlo
                              ELSE run = "completed"
         /\ Result = [status |-> Result.status, wait |-> Result.wait,
                      ours |-> Result.ours, success |-> Result.success,
                      breached |-> Result.breached]
<1>1. createdAt \in 0..Never /\ startedAt \in 0..Never /\ Never \in Nat
  BY CanaryTimes DEF CanaryTyped
<1>2. Result.wait = TimeToStart
  BY DEF Result
<1>3. TimeToStart \in 0..Never
  BY <1>1 DEF TimeToStart
<1>4. /\ Result.status = IF run = "completed" THEN "completed"
                         ELSE IF Correlated THEN "started" ELSE "queued"
      /\ Result.ours = Correlated
      /\ Result.success = (run = "completed" /\ success)
  BY Zenon DEF Result
<1>5. Result.breached = IF TimeToStart # Never THEN TimeToStart > StartSlo
                        ELSE run = "completed"
  BY Zenon DEF Result
<1>6. Result = [status |-> Result.status, wait |-> Result.wait,
                ours |-> Result.ours, success |-> Result.success,
                breached |-> Result.breached]
  BY SMT DEF Result
<1>7. QED
  BY <1>2, <1>3, <1>4, <1>5, <1>6

LEMMA ResultTyped ==
  ASSUME CanaryTyped
  PROVE  Result \in [status : {"dispatched", "queued", "started", "completed", "timeout"},
                     wait : 0..Never, ours : BOOLEAN, success : BOOLEAN,
                     breached : BOOLEAN]
<1>1. Correlated \in BOOLEAN /\ (run = "completed" /\ success) \in BOOLEAN
  BY DEF CanaryTyped, Correlated
<1>2. Result.breached \in BOOLEAN
  <2>1. TimeToStart \in Nat /\ StartSlo \in Nat
    BY ResultFields, CanaryTimes
  <2>2. (TimeToStart > StartSlo) \in BOOLEAN /\ (run = "completed") \in BOOLEAN
    BY <2>1
  <2>3. QED
    BY <2>2, ResultFields, Zenon
<1>3. Result.ours \in BOOLEAN /\ Result.success \in BOOLEAN
  BY <1>1, ResultFields
<1>4. QED
  BY <1>2, <1>3, ResultFields

LEMMA CanaryInitInv == CanaryInit => CanaryInv
<1> SUFFICES ASSUME CanaryInit
             PROVE  CanaryInv
  OBVIOUS
<1>1. seen \in [status : {"dispatched", "queued", "started", "completed", "timeout"},
                wait : 0..Never, ours : BOOLEAN, success : BOOLEAN, breached : BOOLEAN]
  <2>1. Never \in 0..Never
    BY CanaryTimes
  <2>2. QED
    BY <2>1, SMT DEF CanaryInit, Unseen
<1>2. seen.status = "dispatched"
  BY DEF CanaryInit, Unseen
<1>3. CanaryTyped
  <2>1. createdAt \in 0..Never /\ startedAt \in 0..Never /\ spent \in 0..Horizon
        /\ last \in 0..CanaryEvery /\ due \in 0..(Horizon + PollEvery)
    BY CanaryTimes DEF CanaryInit
  <2>2. QED
    BY <1>1, <2>1 DEF CanaryInit, CanaryTyped
<1>4. QED
  BY <1>2, <1>3 DEF CanaryInit, CanaryInv, VerdictStands, LateIsBreach, EndsWithVerdict

LEMMA CanaryStepTyped == CanaryTyped /\ [CanaryNext]_canaryVars => CanaryTyped'
<1> SUFFICES ASSUME CanaryTyped, [CanaryNext]_canaryVars
             PROVE  CanaryTyped'
  OBVIOUS
<1>1. CASE Start
  <2>1. Unseen \in [status : {"dispatched", "queued", "started", "completed", "timeout"},
                    wait : 0..Never, ours : BOOLEAN, success : BOOLEAN,
                    breached : BOOLEAN]
    BY CanaryTimes, SMT DEF Unseen
  <2>2. 0 \in 0..Horizon /\ Never \in 0..Never
        /\ 0 \in 0..CanaryEvery /\ 0 \in 0..(Horizon + PollEvery)
    BY CanaryTimes
  <2>3. QED
    BY <1>1, <2>1, <2>2 DEF Start, CanaryTyped
<1>2. CASE Read
  <2>1. seen' \in [status : {"dispatched", "queued", "started", "completed", "timeout"},
                   wait : 0..Never, ours : BOOLEAN, success : BOOLEAN,
                   breached : BOOLEAN]
    BY <1>2, ResultTyped DEF Read, CanaryTyped
  <2>2. QED
    BY <1>2, <2>1 DEF Read, CanaryTyped, github
<1>3. CASE Judge
  <2>1. due' \in 0..(Horizon + PollEvery)
    BY <1>3, CanaryTimes DEF Judge, CanaryTyped
  <2>2. seen' = seen \/ seen' = [seen EXCEPT !.status = "timeout", !.breached = TRUE]
    BY <1>3 DEF Judge
  <2>3. seen' \in [status : {"dispatched", "queued", "started", "completed", "timeout"},
                   wait : 0..Never, ours : BOOLEAN, success : BOOLEAN, breached : BOOLEAN]
    BY <2>2 DEF CanaryTyped
  <2>4. phase' \in {"read", "record"} /\ UNCHANGED <<last, thread, spent, github, warned>>
    BY <1>3 DEF Judge
  <2>5. QED
    BY <2>1, <2>3, <2>4 DEF CanaryTyped, github
<1>4. CASE Record
  <2>1. ShouldAlert \in BOOLEAN
    BY DEF ShouldAlert, CanaryTyped
  <2>2. QED
    BY <1>4, <2>1 DEF Record, CanaryTyped, github
<1>5. CASE Elapse
  <2>1. spent' \in 0..Horizon /\ last' \in 0..CanaryEvery
    BY <1>5, CanaryTimes DEF Elapse, CanaryTyped
  <2>2. QED
    BY <1>5, <2>1 DEF Elapse, CanaryTyped, github
<1>6. CASE RunGoesOn
  <2>1. createdAt' \in 0..Never /\ startedAt' \in 0..Never
    BY <1>6, CanaryTimes DEF RunGoesOn, CanaryTyped, Never
  <2>2. QED
    BY <1>6, <2>1 DEF RunGoesOn, CanaryTyped
<1>7. CASE Collect \/ ReadFails \/ Land \/ CanaryPanics \/ UNCHANGED canaryVars
  BY <1>7 DEF Collect, ReadFails, Land, CanaryPanics, canaryVars, CanaryTyped, github
<1>8. QED
  BY <1>1, <1>2, <1>3, <1>4, <1>5, <1>6, <1>7 DEF CanaryNext, CanaryStep

\* The verdict is a function of what GitHub says of the run.
LEMMA ResultOfRun ==
  ASSUME UNCHANGED github
  PROVE  Result' = Result
  BY DEF github, Result, TimeToStart, Correlated

LEMMA CanaryStepInv == CanaryInv /\ [CanaryNext]_canaryVars => CanaryInv'
<1> SUFFICES ASSUME CanaryInv, [CanaryNext]_canaryVars
             PROVE  CanaryInv'
  OBVIOUS
<1> USE DEF CanaryInv
<1>t. CanaryTyped'
  BY CanaryStepTyped
<1>1. CASE Start
  BY <1>t, <1>1 DEF Start, Unseen, VerdictStands, LateIsBreach, EndsWithVerdict
<1>2. CASE Read
  <2>1. Result' = Result /\ run' = run
    BY <1>2, ResultOfRun DEF Read, github
  <2>2. VerdictStands'
    BY <1>2, <2>1, ResultFields DEF Read, VerdictStands
  <2>3. LateIsBreach'
    BY <1>2, ResultFields DEF Read, LateIsBreach
  <2>4. EndsWithVerdict'
    BY <1>2 DEF Read, EndsWithVerdict
  <2>5. QED
    BY <1>t, <2>2, <2>3, <2>4
<1>3. CASE Judge
  <2>1. Result' = Result /\ run' = run
    BY <1>3, ResultOfRun DEF Judge, github
  <2>2. CASE seen' = seen /\ phase' = "read"
    BY <1>t, <1>3, <2>1, <2>2
       DEF Judge, VerdictStands, LateIsBreach, EndsWithVerdict
  <2>3. CASE seen' = [seen EXCEPT !.status = "timeout", !.breached = TRUE]
             /\ phase' = "record"
    <3>1. seen'.status = "timeout" /\ seen'.breached
      BY <2>3 DEF CanaryTyped
    <3>2. QED
      BY <1>t, <1>3, <2>3, <3>1
         DEF Judge, VerdictStands, LateIsBreach, EndsWithVerdict
  <2>4. QED
    BY <1>3, <2>2, <2>3 DEF Judge
<1>4. CASE Record
  <2>1. Result' = Result /\ run' = run /\ seen' = seen
    BY <1>4, ResultOfRun DEF Record, github
  <2>2. ShouldAlert' = ShouldAlert
    BY <2>1 DEF ShouldAlert
  <2>3. QED
    BY <1>t, <1>4, <2>1, <2>2
       DEF Record, VerdictStands, LateIsBreach, EndsWithVerdict
<1>5. CASE RunGoesOn
  <2>1. run # "completed" /\ UNCHANGED <<seen, phase, thread, warned>>
    BY <1>5 DEF RunGoesOn
  <2>2. ShouldAlert' = ShouldAlert
    BY <2>1 DEF ShouldAlert
  <2>3. QED
    BY <1>t, <2>1, <2>2 DEF VerdictStands, LateIsBreach, EndsWithVerdict
<1>6. CASE Collect \/ ReadFails \/ Land \/ CanaryPanics \/ Elapse \/ UNCHANGED canaryVars
  <2>1. UNCHANGED github /\ UNCHANGED <<seen, warned>>
    BY <1>6 DEF Collect, ReadFails, Land, CanaryPanics, Elapse, canaryVars, github
  <2>2. Result' = Result /\ run' = run /\ ShouldAlert' = ShouldAlert
    BY <2>1, ResultOfRun DEF github, ShouldAlert
  <2>3. EndsWithVerdict'
    BY <1>6, <2>1, <2>2 DEF Collect, ReadFails, Land, CanaryPanics, Elapse, canaryVars,
       EndsWithVerdict
  <2>4. QED
    BY <1>t, <2>1, <2>2, <2>3 DEF VerdictStands, LateIsBreach
<1>7. QED
  BY <1>1, <1>2, <1>3, <1>4, <1>5, <1>6 DEF CanaryNext, CanaryStep

LEMMA CanaryFlightInit == CanaryInit => CanaryFlight!Init
  BY DEF CanaryInit, CanaryFlight!Init

LEMMA CanaryFlies ==
  CanaryInv /\ [CanaryNext]_canaryVars => [CanaryFlight!Next]_<<thread, last>>
<1> SUFFICES ASSUME CanaryInv, [CanaryNext]_canaryVars
             PROVE  [CanaryFlight!Next]_<<thread, last>>
  OBVIOUS
<1> USE DEF CanaryInv, CanaryTyped, CanaryFlight!Next
<1>1. CASE Start
  BY <1>1 DEF Start, CanaryFlight!Launch
<1>2. CASE Collect
  BY <1>2 DEF Collect, CanaryFlight!Collect
<1>3. CASE Land
  BY <1>3 DEF Land, CanaryFlight!Finish
<1>4. CASE Elapse
  BY <1>4, CanaryTimes DEF Elapse, CanaryFlight!Pass
<1>5. CASE Read \/ ReadFails \/ Judge \/ Record \/ CanaryPanics \/ RunGoesOn
           \/ UNCHANGED canaryVars
  BY <1>5 DEF Read, ReadFails, Judge, Record, CanaryPanics, RunGoesOn, canaryVars
<1>6. QED
  BY <1>1, <1>2, <1>3, <1>4, <1>5 DEF CanaryNext, CanaryStep

LEMMA CanaryInvSays == CanaryInv => CanaryTypeOK /\ SilenceIsGood
<1> SUFFICES ASSUME CanaryInv
             PROVE  CanaryTypeOK /\ SilenceIsGood
  OBVIOUS
<1>1. CanaryTypeOK
  BY DEF CanaryInv, CanaryTyped, CanaryTypeOK
<1>2. SilenceIsGood
  <2> SUFFICES ASSUME phase = "ended", ~warned
               PROVE  /\ run = "completed" /\ success /\ runner = "ours"
                      /\ startedAt # Never /\ startedAt <= createdAt + StartSlo
    BY DEF SilenceIsGood
  <2>1. ~ShouldAlert /\ seen.status = "completed"
    BY DEF CanaryInv, EndsWithVerdict, LateIsBreach, ShouldAlert
  <2>2. run = "completed" /\ seen = Result /\ ~Result.breached /\ Result.success
        /\ Result.ours
    BY <2>1 DEF CanaryInv, VerdictStands, ShouldAlert
  <2>3. Correlated /\ success
    BY <2>2, ResultFields DEF CanaryInv
  <2>4. TimeToStart # Never /\ ~(TimeToStart > StartSlo)
    BY <2>2, <2>3, ResultFields DEF CanaryInv
  <2>5. createdAt \in Nat /\ startedAt \in Nat /\ StartSlo \in Nat
    BY CanaryTimes DEF CanaryInv, CanaryTyped
  <2>6. QED
    BY <2>2, <2>3, <2>4, <2>5 DEF Correlated, TimeToStart
<1>3. QED
  BY <1>1, <1>2

-----------------------------------------------------------------------------
(* QueueHealth                                                             *)

\* What the operations on sequences do to the members of one.
LEMMA MembersOf ==
  ASSUME NEW S, NEW s \in Seq(S)
  PROVE  /\ ToSet(s) \subseteq S
         /\ ToSet(s) = {s[i] : i \in 1..Len(s)}
         /\ s = << >> => ToSet(s) = {}
  BY DEF ToSet

LEMMA MembersOfTail ==
  ASSUME NEW S, NEW s \in Seq(S), s # << >>
  PROVE  /\ Head(s) \in S /\ Tail(s) \in Seq(S) /\ Len(Tail(s)) = Len(s) - 1
         /\ ToSet(s) \subseteq {Head(s)} \cup ToSet(Tail(s))
<1>0. /\ ToSet(s) = {s[i] : i \in 1..Len(s)}
      /\ ToSet(Tail(s)) = {Tail(s)[i] : i \in 1..Len(Tail(s))}
  <2>1. Tail(s) \in Seq(S)
    BY HeadTailProperties
  <2>2. \A u \in Seq(S) : ToSet(u) = {u[i] : i \in 1..Len(u)}
    BY DEF ToSet
  <2>3. QED
    BY <2>1, <2>2, Zenon
<1>1. /\ Head(s) \in S /\ Tail(s) \in Seq(S) /\ Len(Tail(s)) = Len(s) - 1
      /\ \A i \in 1..Len(Tail(s)) : Tail(s)[i] = s[i + 1]
  BY HeadTailProperties
<1>2. ASSUME NEW i \in 1..Len(s)
      PROVE  s[i] \in {Head(s)} \cup ToSet(Tail(s))
  <2>1. CASE i = 1
    BY <2>1, Head(s) = s[1]
  <2>2. CASE i # 1
    <3>1. i - 1 \in 1..Len(Tail(s)) /\ s[i] = Tail(s)[i - 1]
      BY <1>1, <2>2
    <3>2. QED
      BY <1>0, <3>1
  <2>3. QED
    BY <2>1, <2>2
<1>3. QED
  BY <1>0, <1>1, <1>2

LEMMA MembersOfAppend ==
  ASSUME NEW S, NEW s \in Seq(S), NEW e \in S
  PROVE  Append(s, e) \in Seq(S) /\ ToSet(Append(s, e)) = ToSet(s) \cup {e}
<1>1. /\ Append(s, e) \in Seq(S) /\ Len(Append(s, e)) = Len(s) + 1
      /\ \A i \in 1..Len(s) : Append(s, e)[i] = s[i]
      /\ Append(s, e)[Len(s) + 1] = e
  BY AppendProperties
<1>2. Len(s) \in Nat
  OBVIOUS
<1>3. /\ ToSet(s) = {s[i] : i \in 1..Len(s)}
      /\ ToSet(Append(s, e)) = {Append(s, e)[i] : i \in 1..(Len(s) + 1)}
  BY <1>1 DEF ToSet
<1>4. ToSet(Append(s, e)) \subseteq ToSet(s) \cup {e}
  BY <1>1, <1>2, <1>3
<1>5. ToSet(s) \subseteq ToSet(Append(s, e)) /\ e \in ToSet(Append(s, e))
  <2>1. \A i \in 1..Len(s) : i \in 1..(Len(s) + 1)
    BY <1>2
  <2>2. Len(s) + 1 \in 1..(Len(s) + 1)
    BY <1>2
  <2>3. QED
    BY <1>1, <1>3, <2>1, <2>2
<1>6. QED
  BY <1>1, <1>4, <1>5

LEMMA MembersOfConcat ==
  ASSUME NEW S, NEW s \in Seq(S), NEW t \in Seq(S)
  PROVE  /\ s \o t \in Seq(S) /\ Len(s \o t) = Len(s) + Len(t)
         /\ ToSet(s \o t) = ToSet(s) \cup ToSet(t)
<1>1. /\ s \o t \in Seq(S) /\ Len(s \o t) = Len(s) + Len(t)
      /\ \A i \in 1..(Len(s) + Len(t)) :
           (s \o t)[i] = IF i <= Len(s) THEN s[i] ELSE t[i - Len(s)]
  BY ConcatProperties
<1>2. Len(s) \in Nat /\ Len(t) \in Nat
  OBVIOUS
<1>3. /\ ToSet(s) = {s[i] : i \in 1..Len(s)} /\ ToSet(t) = {t[i] : i \in 1..Len(t)}
      /\ ToSet(s \o t) = {(s \o t)[i] : i \in 1..(Len(s) + Len(t))}
  BY <1>1 DEF ToSet
<1>4. ASSUME NEW i \in 1..(Len(s) + Len(t))
      PROVE  (s \o t)[i] \in ToSet(s) \cup ToSet(t)
  <2>1. i <= Len(s) \/ i - Len(s) \in 1..Len(t)
    BY <1>2
  <2>2. QED
    BY <1>1, <1>2, <1>3, <2>1
<1>5. ASSUME NEW i \in 1..Len(s)
      PROVE  s[i] \in ToSet(s \o t)
  <2>1. i \in 1..(Len(s) + Len(t)) /\ i <= Len(s)
    BY <1>2
  <2>2. QED
    BY <1>1, <1>3, <2>1
<1>6. ASSUME NEW i \in 1..Len(t)
      PROVE  t[i] \in ToSet(s \o t)
  <2>1. i + Len(s) \in 1..(Len(s) + Len(t)) /\ ~(i + Len(s) <= Len(s))
        /\ (i + Len(s)) - Len(s) = i
    BY <1>2
  <2>2. (s \o t)[i + Len(s)] = t[i]
    BY <1>1, <2>1
  <2>3. QED
    BY <1>3, <2>1, <2>2
<1>7. ToSet(s \o t) \subseteq ToSet(s) \cup ToSet(t)
  BY <1>3, <1>4
<1>8. ToSet(s) \subseteq ToSet(s \o t) /\ ToSet(t) \subseteq ToSet(s \o t)
  BY <1>3, <1>5, <1>6
<1>9. ToSet(s \o t) = ToSet(s) \cup ToSet(t)
  BY <1>7, <1>8, Zenon
<1>10. QED
  BY <1>1, <1>9

LEMMA MembersOfSubSeq ==
  ASSUME NEW S, NEW s \in Seq(S), NEW m \in Nat, NEW n \in Nat, m >= 1, n <= Len(s)
  PROVE  /\ SubSeq(s, m, n) \in Seq(S)
         /\ Len(SubSeq(s, m, n)) = IF m <= n THEN n - m + 1 ELSE 0
         /\ ToSet(SubSeq(s, m, n)) \subseteq ToSet(s)
<1>0. Len(s) \in Nat /\ \A i \in m..n : s[i] \in S
  OBVIOUS
<1>1. /\ SubSeq(s, m, n) \in Seq(S)
      /\ Len(SubSeq(s, m, n)) = IF m <= n THEN n - m + 1 ELSE 0
      /\ \A i \in 1..(n - m + 1) : SubSeq(s, m, n)[i] = s[m + i - 1]
  <2>1. m \in Int /\ n \in Int
    OBVIOUS
  <2>2. QED
    BY <1>0, <2>1, SubSeqProperties
<1>2. ASSUME NEW i \in 1..Len(SubSeq(s, m, n))
      PROVE  SubSeq(s, m, n)[i] \in ToSet(s)
  <2>1. i \in 1..(n - m + 1) /\ m + i - 1 \in 1..Len(s)
    BY <1>0, <1>1
  <2>2. QED
    BY <1>1, <2>1 DEF ToSet
<1>3. ToSet(SubSeq(s, m, n)) = {SubSeq(s, m, n)[i] : i \in 1..Len(SubSeq(s, m, n))}
  <2>1. \A u \in Seq(S) : ToSet(u) = {u[i] : i \in 1..Len(u)}
    BY DEF ToSet
  <2>2. QED
    BY <1>1, <2>1, Zenon
<1>4. QED
  BY <1>1, <1>2, <1>3

LEMMA RemovedAt ==
  ASSUME NEW S, NEW s \in Seq(S), NEW i \in 1..Len(s)
  PROVE  /\ RemoveAt(s, i) \in Seq(S) /\ Len(RemoveAt(s, i)) = Len(s) - 1
         /\ ToSet(RemoveAt(s, i)) \subseteq ToSet(s)
<1>0. Len(s) \in Nat /\ i - 1 \in Nat /\ i + 1 \in Nat /\ i - 1 <= Len(s)
  OBVIOUS
<1> DEFINE a == SubSeq(s, 1, i - 1)
           b == SubSeq(s, i + 1, Len(s))
<1>1. a \in Seq(S) /\ Len(a) = (IF 1 <= i - 1 THEN (i - 1) - 1 + 1 ELSE 0)
      /\ ToSet(a) \subseteq ToSet(s)
  BY <1>0, MembersOfSubSeq
<1>2. b \in Seq(S) /\ Len(b) = (IF i + 1 <= Len(s) THEN Len(s) - (i + 1) + 1 ELSE 0)
      /\ ToSet(b) \subseteq ToSet(s)
  BY <1>0, MembersOfSubSeq
<1>3. RemoveAt(s, i) = a \o b
  BY DEF RemoveAt
<1> HIDE DEF a, b
<1>4. a \o b \in Seq(S) /\ Len(a \o b) = Len(a) + Len(b) /\ ToSet(a \o b) = ToSet(a) \cup ToSet(b)
  BY <1>1, <1>2, MembersOfConcat
<1>5. Len(a) + Len(b) = Len(s) - 1
  <2>1. Len(a) = i - 1
    BY <1>0, <1>1
  <2>2. Len(b) = Len(s) - i
    BY <1>0, <1>2
  <2>3. QED
    BY <1>0, <2>1, <2>2
<1>6. QED
  BY <1>1, <1>2, <1>3, <1>4, <1>5

\* Every set of naturals has a least element, every finite one a greatest.
LEMMA NatLeast ==
  ASSUME NEW T, T \subseteq Nat, T # {}
  PROVE  \E x \in T : \A y \in T : x <= y
<1>1. PICK x \in T : \A y \in T : ~(<<y, x>> \in OpToRel(<, Nat))
  BY NatLessThanWellFounded, WFMin
<1>2. \A y \in T : ~(y < x)
  BY <1>1 DEF OpToRel
<1>3. QED
  BY <1>2

LEMMA HasMost ==
  ASSUME NEW S, S \subseteq Nat, IsFiniteSet(S), S # {}
  PROVE  \E a \in S : \A b \in S : b <= a
<1> DEFINE Above(a) == {b \in S : b > a}
           T == {Cardinality(Above(a)) : a \in S}
<1>1. \A a \in S : IsFiniteSet(Above(a)) /\ Cardinality(Above(a)) \in Nat
  BY FS_Subset, FS_CardinalityType
<1>2. PICK a \in S : \A b \in S : Cardinality(Above(a)) <= Cardinality(Above(b))
  <2>1. T \subseteq Nat /\ T # {}
    BY <1>1
  <2>2. PICK x \in T : \A y \in T : x <= y
    BY <2>1, NatLeast
  <2>3. QED
    BY <2>2
<1>3. ASSUME NEW b \in S, b > a
      PROVE  FALSE
  <2>1. Above(b) \subseteq Above(a) /\ b \in Above(a) /\ b \notin Above(b)
    <3>1. a \in Nat /\ b \in Nat /\ ~(b > b)
      OBVIOUS
    <3>2. ASSUME NEW c \in S, c > b
          PROVE  c > a
      <4>1. c \in Nat
        OBVIOUS
      <4>2. QED
        BY <1>3, <3>1, <3>2, <4>1
    <3>3. QED
      BY <1>3, <3>1, <3>2
  <2>2. Cardinality(Above(b)) < Cardinality(Above(a))
    BY <1>1, <2>1, FS_Subset
  <2>3. QED
    BY <1>1, <1>2, <2>2
<1>4. QED
  BY <1>3

LEMMA MostIsMost ==
  ASSUME NEW S, S \subseteq Nat, IsFiniteSet(S)
  PROVE  Most(S) \in Nat /\ \A b \in S : b <= Most(S)
<1>1. CASE S = {}
  BY <1>1 DEF Most
<1>2. CASE S # {}
  <2>1. \E a \in S : \A b \in S : b <= a
    BY <1>2, HasMost
  <2>2. Most(S) \in S /\ \A b \in S : b <= Most(S)
    BY <1>2, <2>1 DEF Most
  <2>3. QED
    BY <2>2
<1>3. QED
  BY <1>1, <1>2

QueueTyped ==
  /\ newest \in 0..MaxRun /\ hosted \subseteq Runs /\ snapshot \subseteq 1..newest
  /\ queue \in Seq(1..newest) /\ Len(queue) <= newest
  /\ late \in BOOLEAN /\ capped \in BOOLEAN
  /\ step \in {"first", "walk", "jobs", "running", "report", "done", "error"}
  /\ page \in 0..MaxRun /\ (step = "walk" => page >= 1)
  /\ firstPage \in Seq(Runs) /\ kept \in Seq(Runs) /\ jobs \in Seq(Runs)
  /\ running \in RunningAges \cup {0}
  /\ sample.inv1 \in BOOLEAN /\ sample.inv2 \in BOOLEAN

\* A snapshot that is not called partial has every waiting run among the runs
\* still to be asked for and the jobs.
NothingLeftOut ==
  ~capped =>
    /\ step = "jobs" => Waiting \subseteq ToSet(kept) \cup ToSet(jobs)
    /\ step \in {"running", "report", "done"} => Waiting \subseteq ToSet(jobs)

\* What the report says follows from the jobs.
ReportHolds ==
  step = "done" =>
    /\ sample.inv1 /\ sample.busy < Expected => jobs = << >> /\ ~capped
    /\ sample.inv2 => \A i \in 1..Len(jobs) : Age[jobs[i]] <= TooOld
    /\ sample.idle > 0 /\ (\E i \in 1..Len(jobs) : Age[jobs[i]] < StaleAge)
         => "idle_runner_mismatch" \in sample.alerts

QueueInv == QueueTyped /\ NothingLeftOut /\ ReportHolds

LEMMA QueueNumbers ==
  /\ MaxRun \in Nat /\ Age \in [Runs -> Nat] /\ RunningAges \subseteq Nat
  /\ PageSize \in Nat /\ JobCap \in Nat /\ Expected \in Nat
  /\ PageSize > 0 /\ JobCap > 0 /\ Expected > 0 /\ JobCap <= PageSize
  /\ StaleAge \in Nat /\ TailWarn \in Nat /\ TooOld \in Nat
  /\ \A n \in 0..MaxRun : 1..n \subseteq Runs
  BY QueueAssumption DEF Runs

LEMMA PagesAreFew ==
  ASSUME NEW n \in Nat, NEW p \in Nat, n >= 1, p >= 1
  PROVE  (n + p - 1) \div p \in 1..n
<1>1. (n + p - 1) \div p \in Nat /\ (n + p - 1) \div p <= n
  OBVIOUS
<1>2. (n + p - 1) \div p >= 1
  OBVIOUS
<1>3. QED
  BY <1>1, <1>2

LEMMA QueueInitInv == QueueInit => QueueInv
<1> SUFFICES ASSUME QueueInit
             PROVE  QueueInv
  OBVIOUS
<1>1. newest \in 0..MaxRun
  BY QueueNumbers DEF QueueInit, Runs
<1>2. queue \in Seq(1..newest) /\ Len(queue) = newest
  <2>1. \A i \in 1..newest : newest + 1 - i \in 1..newest
    BY <1>1
  <2>2. QED
    BY <1>1, <2>1 DEF QueueInit
<1>3. QueueTyped
  <2>1. 0 \in 0..MaxRun
    BY QueueNumbers
  <2>2. sample.inv1 \in BOOLEAN /\ sample.inv2 \in BOOLEAN
    BY DEF QueueInit, NoSample
  <2>3. firstPage \in Seq(Runs) /\ kept \in Seq(Runs) /\ jobs \in Seq(Runs)
    BY DEF QueueInit
  <2>4. page \in 0..MaxRun /\ (step = "walk" => page >= 1)
    BY <2>1 DEF QueueInit
  <2>5. Len(queue) <= newest
    BY <1>1, <1>2
  <2>6. QED
    BY <1>1, <1>2, <2>2, <2>3, <2>4, <2>5 DEF QueueInit, QueueTyped
<1>4. QED
  BY <1>3 DEF QueueInit, QueueInv, NothingLeftOut, ReportHolds

\* Ages of a snapshot.
LEMMA AgesKnown ==
  ASSUME QueueTyped
  PROVE  /\ Ages \subseteq Nat /\ IsFiniteSet(Ages)
         /\ Fresh \cup StaleOnes = Ages
         /\ \A i \in 1..Len(jobs) : Age[jobs[i]] \in Ages
         /\ OldestQueued \in Nat /\ \A i \in 1..Len(jobs) : Age[jobs[i]] <= OldestQueued
<1>1. \A i \in 1..Len(jobs) : jobs[i] \in Runs /\ Age[jobs[i]] \in Nat
  BY QueueNumbers DEF QueueTyped
<1>2. Ages = {Age[jobs[i]] : i \in 1..Len(jobs)}
  <2>1. DOMAIN jobs = 1..Len(jobs)
    BY DEF QueueTyped
  <2>2. QED
    BY <2>1 DEF Ages
<1>3. IsFiniteSet(Ages)
  <2> DEFINE f == [i \in 1..Len(jobs) |-> Age[jobs[i]]]
  <2>1. Len(jobs) \in Nat
    BY DEF QueueTyped
  <2>2. IsFiniteSet(1..Len(jobs))
    BY <2>1, FS_Interval
  <2>3. f \in Surjection(1..Len(jobs), Ages)
    BY <1>2 DEF Surjection
  <2>4. QED
    BY <2>2, <2>3, FS_Surjection
<1>4. Fresh \cup StaleOnes = Ages
  BY DEF Fresh, StaleOnes
<1>5. OldestQueued \in Nat /\ \A b \in Ages : b <= OldestQueued
  BY <1>1, <1>2, <1>3, <1>4, MostIsMost DEF OldestQueued
<1>6. QED
  BY <1>1, <1>2, <1>3, <1>4, <1>5

LEMMA RunnersCounted ==
  ASSUME NEW fleet, NEW S
  PROVE  Runners(fleet, S) \in Nat
<1>1. IsFiniteSet(1..Expected)
  BY QueueNumbers, FS_Interval
<1>2. IsFiniteSet({n \in 1..Expected : fleet[n] \in S})
  BY <1>1, FS_Subset
<1>3. QED
  BY <1>2, FS_CardinalityType DEF Runners

\* A run that was waiting and still is was waiting before.
LEMMA WaitingShrinks ==
  ASSUME UNCHANGED <<snapshot, hosted>>,
         \A r \in snapshot : r \in ToSet(queue') => r \in ToSet(queue)
  PROVE  Waiting' \subseteq Waiting
  BY DEF Waiting

LEMMA QueueStepTyped == QueueTyped /\ [QueueNext]_queueVars => QueueTyped'
<1> SUFFICES ASSUME QueueTyped, [QueueNext]_queueVars
             PROVE  QueueTyped'
  OBVIOUS
<1>t. /\ newest \in 0..MaxRun /\ snapshot \subseteq 1..newest
      /\ queue \in Seq(1..newest) /\ Len(queue) <= newest /\ Len(queue) \in Nat
      /\ page \in 0..MaxRun /\ MaxRun \in Nat /\ newest \in Nat
      /\ firstPage \in Seq(Runs) /\ kept \in Seq(Runs) /\ jobs \in Seq(Runs)
      /\ queue \in Seq(Runs)
  <2>1. 1..newest \subseteq Runs
    BY QueueNumbers DEF QueueTyped
  <2>2. queue \in Seq(Runs)
    BY <2>1, SeqMonotonic DEF QueueTyped
  <2>3. QED
    BY <2>2, QueueNumbers DEF QueueTyped
<1>p. \A p \in Nat : p >= 1 => Page(queue, p) \in Seq(Runs)
  <2> SUFFICES ASSUME NEW p \in Nat, p >= 1
               PROVE  Page(queue, p) \in Seq(Runs)
    OBVIOUS
  <2>1. /\ (p - 1) * PageSize + 1 \in Nat /\ (p - 1) * PageSize + 1 >= 1
        /\ p * PageSize \in Nat
    BY QueueNumbers
  <2>2. Least(p * PageSize, Len(queue)) \in Nat /\ Least(p * PageSize, Len(queue)) <= Len(queue)
    BY <1>t, <2>1 DEF Least
  <2>3. QED
    BY <1>t, <2>1, <2>2, MembersOfSubSeq DEF Page
<1>r. \A s \in Seq(Runs) : Truncated(s) \in Seq(Runs)
  <2> SUFFICES ASSUME NEW s \in Seq(Runs)
               PROVE  Truncated(s) \in Seq(Runs)
    OBVIOUS
  <2>1. Least(JobCap, Len(s)) \in Nat /\ Least(JobCap, Len(s)) <= Len(s)
    BY QueueNumbers DEF Least
  <2>2. QED
    BY <2>1, MembersOfSubSeq DEF Truncated
<1>1. CASE Arrive
  <2>1. newest' = newest + 1 /\ newest' \in Runs /\ queue' = <<newest + 1>> \o queue
        /\ UNCHANGED <<hosted, late, step, page, firstPage, kept, jobs, running, capped,
                       sample, snapshot>>
    BY <1>1 DEF Arrive
  <2>2. newest' \in 0..MaxRun /\ newest' \in 1..newest'
    BY <1>t, <2>1 DEF Runs
  <2>3. queue \in Seq(1..newest') /\ snapshot \subseteq 1..newest'
    <3>1. 1..newest \subseteq 1..newest'
      BY <1>t, <2>1
    <3>2. QED
      BY <1>t, <3>1, SeqMonotonic
  <2>4. <<newest'>> \in Seq(1..newest') /\ Len(<<newest'>>) = 1
    BY <2>2
  <2>5. queue' \in Seq(1..newest') /\ Len(queue') = 1 + Len(queue)
    BY <2>1, <2>3, <2>4, MembersOfConcat
  <2>6. Len(queue') <= newest'
    BY <1>t, <2>1, <2>5
  <2>7. QED
    BY <2>1, <2>2, <2>3, <2>5, <2>6 DEF QueueTyped
<1>2. CASE Depart
  <2>1. PICK i \in 1..Len(queue) : queue' = RemoveAt(queue, i)
    BY <1>2, <1>t DEF Depart
  <2>2. queue' \in Seq(1..newest) /\ Len(queue') = Len(queue) - 1
    BY <1>t, <2>1, RemovedAt
  <2>3. Len(queue') <= newest
    BY <1>t, <2>2
  <2>4. QED
    BY <1>2, <2>2, <2>3 DEF Depart, QueueTyped
<1>3. CASE DeadlinePasses \/ CallFails
  BY <1>3 DEF DeadlinePasses, CallFails, QueueTyped
<1>4. CASE ReadFirstPage
  <2>1. snapshot' \subseteq 1..newest
    BY <1>4, <1>t, MembersOf DEF ReadFirstPage
  <2>2. Page(queue, 1) \in Seq(Runs)
    BY <1>p
  <2>3. page' \in 0..MaxRun /\ (step' = "walk" => page' >= 1)
    <3>1. CASE Len(queue) <= JobCap
      BY <1>4, <1>t, <3>1 DEF ReadFirstPage
    <3>2. CASE ~(Len(queue) <= JobCap)
      <4>1. page' = (Len(queue) + PageSize - 1) \div PageSize /\ Len(queue) >= 1
        BY <1>4, <1>t, <3>2, QueueNumbers DEF ReadFirstPage, Pages
      <4>2. Len(queue) \in Nat /\ PageSize \in Nat /\ PageSize >= 1
        BY <1>t, QueueNumbers
      <4>3. page' \in 1..Len(queue)
        BY <4>1, <4>2, PagesAreFew
      <4>4. QED
        BY <1>t, <4>3
    <3>3. QED
      BY <3>1, <3>2
  <2>4. kept' \in {Page(queue, 1), << >>} /\ firstPage' = Page(queue, 1)
        /\ step' \in {"jobs", "walk"}
    BY <1>4 DEF ReadFirstPage
  <2>5. << >> \in Seq(Runs)
    OBVIOUS
  <2>6. kept' \in Seq(Runs) /\ firstPage' \in Seq(Runs)
    BY <2>2, <2>4, <2>5
  <2>7. UNCHANGED <<queue, newest, hosted, late, jobs, running, capped, sample>>
    BY <1>4 DEF ReadFirstPage
  <2>8. QED
    BY <2>1, <2>3, <2>4, <2>6, <2>7 DEF QueueTyped
<1>5. CASE WalkPage
  <2> DEFINE more == kept \o (IF page = 1 THEN firstPage ELSE Page(queue, page))
  <2>1. /\ \/ kept' = Truncated(more) /\ capped' = TRUE /\ step' = "jobs" /\ UNCHANGED page
           \/ page # 1 /\ kept' = more /\ page' = page - 1 /\ UNCHANGED <<capped, step>>
        /\ UNCHANGED <<queue, newest, hosted, late, firstPage, jobs, running, sample, snapshot>>
    BY <1>5 DEF WalkPage
  <2>2. page >= 1 /\ page \in Nat
    BY <1>5, <1>t DEF WalkPage, QueueTyped
  <2>3. more \in Seq(Runs)
    <3>1. (IF page = 1 THEN firstPage ELSE Page(queue, page)) \in Seq(Runs)
      BY <1>t, <1>p, <2>2
    <3>2. QED
      BY <1>t, <3>1, MembersOfConcat
  <2>4. Truncated(more) \in Seq(Runs)
    BY <1>r, <2>3
  <2> HIDE DEF more
  <2>5. kept' \in Seq(Runs) /\ capped' \in BOOLEAN
        /\ step' \in {"first", "walk", "jobs", "running", "report", "done", "error"}
    BY <2>1, <2>3, <2>4 DEF QueueTyped
  <2>6. page' \in 0..MaxRun /\ (step' = "walk" => page' >= 1)
    BY <1>t, <2>1, <2>2
  <2>7. QED
    BY <2>1, <2>5, <2>6 DEF QueueTyped
<1>6. CASE WalkStops
  <2>1. kept' \in Seq(Runs)
    BY <1>6, <1>t, <1>r DEF WalkStops
  <2>2. QED
    BY <1>6, <2>1 DEF WalkStops, QueueTyped
<1>7. CASE AskJobs
  <2>1. kept # << >> /\ kept' = Tail(kept) /\ jobs' \in {jobs, Append(jobs, Head(kept))}
        /\ UNCHANGED <<queue, newest, hosted, late, step, page, firstPage, running, capped,
                       sample, snapshot>>
    BY <1>7 DEF AskJobs
  <2>2. Head(kept) \in Runs /\ kept' \in Seq(Runs)
    BY <1>t, <2>1, MembersOfTail
  <2>3. Append(jobs, Head(kept)) \in Seq(Runs)
    BY <1>t, <2>2, MembersOfAppend
  <2>4. jobs' \in Seq(Runs)
    BY <1>t, <2>1, <2>3
  <2>5. QED
    BY <2>1, <2>2, <2>4 DEF QueueTyped
<1>8. CASE JobsEnd
  BY <1>8 DEF JobsEnd, Bails, QueueTyped
<1>9. CASE AskRunning
  BY <1>9 DEF AskRunning, QueueTyped
<1>10. CASE Report
  <2>1. PICK fleet \in [1..Expected -> Status], low \in 0..2 * AlertFrom :
          sample' = [inv1 |-> UtilisationHolds(Busy(fleet), capped), inv2 |-> DurationHolds,
                     busy |-> Busy(fleet), idle |-> Idle(fleet), oldest |-> OldestQueued,
                     class |-> IF UtilisationHolds(Busy(fleet), capped)
                               THEN "none" ELSE FailureClass(fleet),
                     alerts |-> Alerts(fleet, low, UtilisationHolds(Busy(fleet), capped)
                                                     /\ DurationHolds)]
    BY <1>10, Zenon DEF Report
  <2>2. UtilisationHolds(Busy(fleet), capped) \in BOOLEAN /\ DurationHolds \in BOOLEAN
    BY DEF UtilisationHolds, DurationHolds
  <2>3. sample'.inv1 \in BOOLEAN /\ sample'.inv2 \in BOOLEAN
    BY <2>1, <2>2, Zenon
  <2>4. step' = "done" /\ UNCHANGED <<queue, newest, hosted, late, page, firstPage, kept, jobs,
                                     running, capped, snapshot>>
    BY <1>10 DEF Report
  <2>5. QED
    BY <2>3, <2>4 DEF QueueTyped
<1>11. CASE UNCHANGED queueVars
  BY <1>11 DEF queueVars, QueueTyped
<1>12. QED
  BY <1>1, <1>2, <1>3, <1>4, <1>5, <1>6, <1>7, <1>8, <1>9, <1>10, <1>11
     DEF QueueNext, SampleStep

LEMMA WholeFirstPage ==
  ASSUME QueueTyped, Len(queue) <= JobCap
  PROVE  Page(queue, 1) = queue
<1>1. queue \in Seq(1..newest) /\ Len(queue) \in Nat
  BY DEF QueueTyped
<1>2. (1 - 1) * PageSize + 1 = 1 /\ Least(1 * PageSize, Len(queue)) = Len(queue)
  BY <1>1, QueueNumbers DEF Least
<1>3. Page(queue, 1) = SubSeq(queue, 1, Len(queue))
  BY <1>2 DEF Page
<1>4. QED
  BY <1>1, <1>3, SubSeqFull

LEMMA QueueStepLeavesNothing ==
  QueueTyped /\ NothingLeftOut /\ [QueueNext]_queueVars => NothingLeftOut'
<1> SUFFICES ASSUME QueueTyped, NothingLeftOut, [QueueNext]_queueVars
             PROVE  NothingLeftOut'
  OBVIOUS
<1>t. newest \in Nat /\ snapshot \subseteq 1..newest /\ queue \in Seq(1..newest)
      /\ kept \in Seq(Runs) /\ jobs \in Seq(Runs)
  BY QueueNumbers DEF QueueTyped
<1>1. CASE Arrive
  <2>1. newest + 1 \in Runs /\ queue' = <<newest + 1>> \o queue
        /\ UNCHANGED <<hosted, step, kept, jobs, capped, snapshot>>
    BY <1>1 DEF Arrive
  <2>2. queue \in Seq(Nat) /\ <<newest + 1>> \in Seq(Nat)
    <3>1. 1..newest \subseteq Nat
      OBVIOUS
    <3>2. queue \in Seq(Nat)
      BY <1>t, <3>1, SeqMonotonic
    <3>3. newest + 1 \in Nat
      BY <1>t
    <3>4. QED
      BY <3>2, <3>3
  <2>3. ToSet(queue') = ToSet(<<newest + 1>>) \cup ToSet(queue)
    BY <2>1, <2>2, MembersOfConcat
  <2>4. ToSet(<<newest + 1>>) = {newest + 1}
    BY DEF ToSet
  <2>5. newest + 1 \notin snapshot
    BY <1>t
  <2>6. Waiting' \subseteq Waiting
    BY <2>1, <2>3, <2>4, <2>5 DEF Waiting
  <2>7. QED
    BY <2>1, <2>6 DEF NothingLeftOut
<1>2. CASE Depart
  <2>1. PICK i \in DOMAIN queue : queue' = RemoveAt(queue, i)
    BY <1>2 DEF Depart
  <2>2. i \in 1..Len(queue)
    BY <1>t, <2>1
  <2>3. ToSet(queue') \subseteq ToSet(queue)
    BY <1>t, <2>1, <2>2, RemovedAt
  <2>4. UNCHANGED <<hosted, step, kept, jobs, capped, snapshot>>
    BY <1>2 DEF Depart
  <2>5. Waiting' \subseteq Waiting
    BY <2>3, <2>4 DEF Waiting
  <2>6. QED
    BY <2>4, <2>5 DEF NothingLeftOut
<1>3. CASE DeadlinePasses \/ CallFails \/ UNCHANGED queueVars
  <2>1. UNCHANGED <<hosted, queue, kept, jobs, capped, snapshot>>
        /\ (step' = step \/ step' = "error")
    BY <1>3 DEF DeadlinePasses, CallFails, queueVars
  <2>2. Waiting' = Waiting
    BY <2>1 DEF Waiting
  <2>3. QED
    BY <2>1, <2>2 DEF NothingLeftOut
<1>4. CASE ReadFirstPage
  <2>1. CASE Len(queue) <= JobCap
    <3>1. kept' = queue /\ step' = "jobs" /\ UNCHANGED queue
      BY <1>4, <2>1, WholeFirstPage DEF ReadFirstPage
    <3>2. Waiting' \subseteq ToSet(kept')
      BY <3>1 DEF Waiting
    <3>3. QED
      BY <3>1, <3>2 DEF NothingLeftOut
  <2>2. CASE ~(Len(queue) <= JobCap)
    BY <1>4, <2>2 DEF ReadFirstPage, NothingLeftOut
  <2>3. QED
    BY <2>1, <2>2
<1>5. CASE WalkPage \/ WalkStops
  <2>1. capped' \/ step' = "walk"
    BY <1>5 DEF WalkPage, WalkStops
  <2>2. QED
    BY <2>1 DEF NothingLeftOut
<1>6. CASE AskJobs
  <2>1. kept # << >> /\ kept' = Tail(kept)
        /\ jobs' = (IF Head(kept) \in hosted \cap ToSet(queue)
                   THEN Append(jobs, Head(kept)) ELSE jobs)
        /\ UNCHANGED <<queue, hosted, step, capped, snapshot>> /\ step = "jobs"
    BY <1>6 DEF AskJobs
  <2>2. Head(kept) \in Runs /\ ToSet(kept) \subseteq {Head(kept)} \cup ToSet(kept')
    BY <1>t, <2>1, MembersOfTail
  <2>3. ToSet(Append(jobs, Head(kept))) = ToSet(jobs) \cup {Head(kept)}
    BY <1>t, <2>2, MembersOfAppend
  <2>4. Waiting' = Waiting
    BY <2>1 DEF Waiting
  <2>5. ~capped => Waiting \subseteq ToSet(kept') \cup ToSet(jobs')
    <3>1. SUFFICES ASSUME ~capped, NEW r \in Waiting
                   PROVE  r \in ToSet(kept') \cup ToSet(jobs')
      OBVIOUS
    <3>2. r \in ToSet(kept) \cup ToSet(jobs)
      BY <2>1, <3>1 DEF NothingLeftOut
    <3>3. r = Head(kept) => r \in ToSet(jobs')
      <4>1. r \in hosted \cap ToSet(queue)
        BY <3>1 DEF Waiting
      <4>2. QED
        BY <2>1, <2>3, <4>1
    <3>4. r \in ToSet(jobs) => r \in ToSet(jobs')
      BY <2>1, <2>3
    <3>5. QED
      BY <2>2, <3>2, <3>3, <3>4
  <2>6. QED
    BY <2>1, <2>4, <2>5 DEF NothingLeftOut
<1>7. CASE JobsEnd
  <2>1. capped' = (capped \/ kept # << >>) /\ step = "jobs" /\ step' = "running"
        /\ UNCHANGED <<queue, hosted, kept, jobs, snapshot>>
    BY <1>7 DEF JobsEnd, Bails
  <2>2. Waiting' = Waiting
    BY <2>1 DEF Waiting
  <2>3. kept = << >> => ToSet(kept) = {}
    BY <1>t, MembersOf
  <2>4. QED
    BY <2>1, <2>2, <2>3 DEF NothingLeftOut
<1>8. CASE AskRunning \/ Report
  <2>1. (capped => capped') /\ step \in {"running", "report"} /\ step' \in {"report", "done"}
        /\ UNCHANGED <<queue, hosted, jobs, snapshot>>
    <3>1. CASE AskRunning
      <4>1. capped' = TRUE \/ capped' = capped
        BY <3>1 DEF AskRunning
      <4>2. QED
        BY <3>1, <4>1 DEF AskRunning
    <3>2. CASE Report
      <4>1. capped' = capped
        BY <3>2 DEF Report
      <4>2. QED
        BY <3>2, <4>1 DEF Report
    <3>3. QED
      BY <1>8, <3>1, <3>2
  <2>2. Waiting' = Waiting
    BY <2>1 DEF Waiting
  <2>3. QED
    BY <2>1, <2>2 DEF NothingLeftOut
<1>9. QED
  BY <1>1, <1>2, <1>3, <1>4, <1>5, <1>6, <1>7, <1>8 DEF QueueNext, SampleStep

LEMMA QueueStepReport ==
  QueueTyped /\ ReportHolds /\ [QueueNext]_queueVars => ReportHolds'
<1> SUFFICES ASSUME QueueTyped, ReportHolds, [QueueNext]_queueVars
             PROVE  ReportHolds'
  OBVIOUS
<1>1. CASE Report
  <2>1. PICK fleet \in [1..Expected -> Status], low \in 0..2 * AlertFrom :
          sample' = [inv1 |-> UtilisationHolds(Busy(fleet), capped), inv2 |-> DurationHolds,
                     busy |-> Busy(fleet), idle |-> Idle(fleet), oldest |-> OldestQueued,
                     class |-> IF UtilisationHolds(Busy(fleet), capped)
                               THEN "none" ELSE FailureClass(fleet),
                     alerts |-> Alerts(fleet, low, UtilisationHolds(Busy(fleet), capped)
                                                     /\ DurationHolds)]
    BY <1>1, Zenon DEF Report
  <2>2. /\ sample'.inv1 = UtilisationHolds(Busy(fleet), capped)
        /\ sample'.inv2 = DurationHolds
        /\ sample'.busy = Busy(fleet) /\ sample'.idle = Idle(fleet)
        /\ sample'.alerts = Alerts(fleet, low, UtilisationHolds(Busy(fleet), capped)
                                                 /\ DurationHolds)
    BY <2>1, Zenon
  <2>3. UNCHANGED <<jobs, capped, running>>
    BY <1>1 DEF Report
  <2>4. sample'.inv1 /\ sample'.busy < Expected => jobs' = << >> /\ ~capped'
    <3>1. Busy(fleet) \in Nat /\ Expected \in Nat
      BY RunnersCounted, QueueNumbers DEF Busy
    <3>2. SUFFICES ASSUME UtilisationHolds(Busy(fleet), capped), Busy(fleet) < Expected
                   PROVE  jobs = << >> /\ ~capped
      BY <2>2, <2>3
    <3>3. ~(Busy(fleet) >= Expected)
      BY <3>1, <3>2
    <3>4. QED
      BY <3>2, <3>3 DEF UtilisationHolds
  <2>5. sample'.inv2 => \A i \in 1..Len(jobs') : Age[jobs'[i]] <= TooOld
    <3>1. SUFFICES ASSUME OldestQueued <= TooOld, NEW i \in 1..Len(jobs)
                   PROVE  Age[jobs[i]] <= TooOld
      BY <2>2, <2>3 DEF DurationHolds
    <3>2. Age[jobs[i]] \in Nat /\ OldestQueued \in Nat /\ Age[jobs[i]] <= OldestQueued
      BY AgesKnown
    <3>3. QED
      BY <3>1, <3>2, QueueNumbers
  <2>6. sample'.idle > 0 /\ (\E i \in 1..Len(jobs') : Age[jobs'[i]] < StaleAge)
          => "idle_runner_mismatch" \in sample'.alerts
    <3>1. SUFFICES ASSUME Idle(fleet) > 0, NEW i \in 1..Len(jobs), Age[jobs[i]] < StaleAge
                   PROVE  "idle_runner_mismatch" \in sample'.alerts
      BY <2>2, <2>3
    <3>2. Fresh # {}
      BY <3>1, AgesKnown DEF Fresh
    <3>3. QED
      BY <2>2, <3>1, <3>2 DEF Alerts, Told
  <2>7. QED
    BY <2>4, <2>5, <2>6 DEF ReportHolds
<1>2. CASE Arrive \/ Depart \/ DeadlinePasses \/ CallFails \/ ReadFirstPage \/ WalkPage
           \/ WalkStops \/ AskJobs \/ JobsEnd \/ AskRunning
  <2>1. step' # "done"
    BY <1>2 DEF Arrive, Depart, DeadlinePasses, CallFails, ReadFirstPage, WalkPage,
       WalkStops, AskJobs, JobsEnd, AskRunning
  <2>2. QED
    BY <2>1 DEF ReportHolds
<1>3. CASE UNCHANGED queueVars
  BY <1>3 DEF queueVars, ReportHolds
<1>4. QED
  BY <1>1, <1>2, <1>3 DEF QueueNext, SampleStep

LEMMA QueueStepInv == QueueInv /\ [QueueNext]_queueVars => QueueInv'
  BY QueueStepTyped, QueueStepLeavesNothing, QueueStepReport DEF QueueInv

\* What a sample says of the queue is so, and of the type.
LEMMA QueueInvSays ==
  QueueInv => QueueTypeOK /\ NoFalseEmpty /\ NoHiddenWait /\ IdleCapacityTold
<1> SUFFICES ASSUME QueueInv
             PROVE  QueueTypeOK /\ NoFalseEmpty /\ NoHiddenWait /\ IdleCapacityTold
  OBVIOUS
<1>t. QueueTyped /\ kept \in Seq(Runs) /\ jobs \in Seq(Runs) /\ firstPage \in Seq(Runs)
      /\ queue \in Seq(1..newest) /\ 1..newest \subseteq Runs /\ newest \in 0..MaxRun
  BY QueueNumbers DEF QueueInv, QueueTyped
<1>1. QueueTypeOK
  <2>1. Cardinality(Runs) = MaxRun
    <3>1. Cardinality(1..MaxRun) = MaxRun
      BY QueueNumbers, FS_Interval
    <3>2. QED
      BY <3>1 DEF Runs
  <2>2. ToSet(queue) \subseteq 1..newest
    BY <1>t, MembersOf
  <2>3. ToSet(firstPage) \subseteq Runs /\ ToSet(kept) \subseteq Runs
        /\ ToSet(jobs) \subseteq Runs /\ snapshot \subseteq Runs
    BY <1>t, MembersOf DEF QueueTyped
  <2>4. newest \in Runs \cup {0}
    BY <1>t, QueueNumbers DEF Runs
  <2>5. QED
    BY <1>t, <2>1, <2>2, <2>3, <2>4 DEF QueueTyped, QueueTypeOK
<1>2. ASSUME step = "done", ~capped, NEW r \in Waiting
      PROVE  \E i \in 1..Len(jobs) : jobs[i] = r
  <2>1. r \in ToSet(jobs)
    BY <1>2 DEF QueueInv, NothingLeftOut
  <2>2. QED
    BY <1>t, <2>1, MembersOf
<1>3. NoFalseEmpty
  <2> SUFFICES ASSUME step = "done", sample.inv1, sample.busy < Expected
               PROVE  Waiting = {}
    BY DEF NoFalseEmpty
  <2>1. jobs = << >> /\ ~capped
    BY DEF QueueInv, ReportHolds
  <2>2. Len(jobs) = 0
    BY <2>1
  <2>3. QED
    BY <1>2, <2>1, <2>2
<1>4. NoHiddenWait
  BY <1>2 DEF QueueInv, ReportHolds, NoHiddenWait
<1>5. IdleCapacityTold
  BY <1>2 DEF QueueInv, ReportHolds, IdleCapacityTold
<1>6. QED
  BY <1>1, <1>3, <1>4, <1>5

-----------------------------------------------------------------------------
(* JobAges                                                                 *)

\* The days before the March of a year.
YearStart(y) ==
  (y \div 400) * 146097 + DayOfEra(y - (y \div 400) * 400, 0)

\* The number of a day, from the start of its year.
MonthStart(m) == (153 * (m + (IF m > 2 THEN -3 ELSE 9)) + 2) \div 5

LEMMA LengthsAgree ==
  ASSUME NEW y \in Nat, NEW m \in 1..12
  PROVE  MaxDay(y, m) = LengthOf(y, m) /\ LengthOf(y, m) \in 28..31
<1>1. IsLeapYear(y) <=> LeapYear(y)
  BY DEF IsLeapYear, LeapYear, Divides
<1>2. QED
  BY <1>1 DEF MaxDay, LengthOf

LEMMA DayNumber ==
  ASSUME NEW d, IsDay(d)
  PROVE  /\ d.year \in Nat /\ d.month \in 1..12 /\ d.day \in 1..LengthOf(d.year, d.month)
         /\ DaysFromCivil(d) =
              YearStart(IF d.month <= 2 THEN d.year - 1 ELSE d.year)
                + MonthStart(d.month) + d.day - 719469
<1>1. d.year \in Nat /\ d.month \in 1..12 /\ d.day \in 1..31
      /\ d.day <= LengthOf(d.year, d.month)
  BY DEF IsDay, Dates
<1>2. d.day \in 1..MaxDay(d.year, d.month) /\ d.day \in 1..LengthOf(d.year, d.month)
  BY <1>1, LengthsAgree
<1> DEFINE y == IF d.month <= 2 THEN d.year - 1 ELSE d.year
           era == y \div 400
           yoe == y - era * 400
           doy == MonthStart(d.month) + d.day - 1
<1>3. DaysFromCivil(d) = era * 146097 + DayOfEra(yoe, doy) - 719468
  BY <1>1, <1>2 DEF DaysFromCivil, MonthStart
<1>4. y \in Int /\ era \in Int /\ yoe \in Int /\ MonthStart(d.month) \in Int /\ doy \in Int
  BY <1>1 DEF MonthStart
<1>5. DayOfEra(yoe, doy) = DayOfEra(yoe, 0) + MonthStart(d.month) + d.day - 1
  BY <1>1, <1>4 DEF DayOfEra
<1>6. DayOfEra(yoe, 0) \in Int
  BY <1>4 DEF DayOfEra
<1>7. YearStart(y) = era * 146097 + DayOfEra(yoe, 0)
  BY DEF YearStart
<1> HIDE DEF y, era, yoe
<1>8. DaysFromCivil(d) = YearStart(y) + MonthStart(d.month) + d.day - 719469
  <2>1. era * 146097 \in Int
    BY <1>4
  <2>2. QED
    BY <1>1, <1>3, <1>4, <1>5, <1>6, <1>7, <2>1
<1>9. QED
  BY <1>1, <1>2, <1>8 DEF y

\* A year is as long as its February says, and a month as its length.
LEMMA YearLength ==
  ASSUME NEW y \in Nat
  PROVE  /\ YearStart(y - 1) \in Int
         /\ YearStart(y) = YearStart(y - 1) + (IF LeapYear(y) THEN 366 ELSE 365)
  BY DEF YearStart, DayOfEra, LeapYear, Divides

LEMMA MonthLengths ==
  /\ MonthStart(3) = 0 /\ MonthStart(4) = 31 /\ MonthStart(5) = 61 /\ MonthStart(6) = 92
  /\ MonthStart(7) = 122 /\ MonthStart(8) = 153 /\ MonthStart(9) = 184
  /\ MonthStart(10) = 214 /\ MonthStart(11) = 245 /\ MonthStart(12) = 275
  /\ MonthStart(1) = 306 /\ MonthStart(2) = 337
  BY DEF MonthStart

\* days_from_civil counts days: from each date to the next it goes up by one.
LEMMA NextDayIsOneMore ==
  ASSUME NEW d, IsDay(d)
  PROVE  IsDay(NextDate(d)) /\ DaysFromCivil(NextDate(d)) = DaysFromCivil(d) + 1
         /\ DaysFromCivil(d) \in Int
<1>1. d.year \in Nat /\ d.month \in 1..12 /\ d.day \in 1..LengthOf(d.year, d.month)
      /\ d = [year |-> d.year, month |-> d.month, day |-> d.day]
      /\ LengthOf(d.year, d.month) \in 28..31
  <2>1. d \in Dates
    BY DEF IsDay
  <2>2. d = [year |-> d.year, month |-> d.month, day |-> d.day]
    BY <2>1 DEF Dates
  <2>3. QED
    BY <2>2, DayNumber, LengthsAgree
<1>2. \A y \in Nat : YearStart(y) \in Int /\ YearStart(y - 1) \in Int
        /\ YearStart(y) = YearStart(y - 1) + (IF LeapYear(y) THEN 366 ELSE 365)
  BY YearLength, MonthLengths
<1>3. CASE d.day < LengthOf(d.year, d.month)
  <2>1. NextDate(d) = [year |-> d.year, month |-> d.month, day |-> d.day + 1]
    BY <1>1, <1>3 DEF NextDate
  <2>2. IsDay(NextDate(d))
    BY <1>1, <1>3, <2>1 DEF IsDay, Dates
  <2>3. MonthStart(d.month) \in Int
    BY <1>1 DEF MonthStart
  <2>4. QED
    BY <1>1, <1>2, <2>1, <2>2, <2>3, DayNumber
<1>4. CASE d.day = LengthOf(d.year, d.month) /\ d.month < 12
  <2>1. NextDate(d) = [year |-> d.year, month |-> d.month + 1, day |-> 1]
    <3>1. ~(d.day < LengthOf(d.year, d.month)) /\ d.month < 12
      BY <1>1, <1>4
    <3>2. NextDate(d) = [d EXCEPT !.day = 1, !.month = @ + 1]
      BY <3>1 DEF NextDate
    <3>3. d \in Dates
      BY DEF IsDay
    <3>4. QED
      BY <3>2, <3>3 DEF Dates
  <2>2. IsDay(NextDate(d))
    <3>1. d.month + 1 \in 1..12 /\ LengthOf(d.year, d.month + 1) \in 28..31
      BY <1>1, <1>4, LengthsAgree
    <3>2. QED
      BY <1>1, <2>1, <3>1 DEF IsDay, Dates
  <2>3. CASE d.month = 2
    <3>1. d.day = IF LeapYear(d.year) THEN 29 ELSE 28
      BY <1>4, <2>3 DEF LengthOf
    <3>2. QED
      BY <1>1, <1>2, <2>1, <2>2, <2>3, <3>1, DayNumber, MonthLengths
  <2>4. CASE d.month # 2
    <3>1. MonthStart(d.month + 1) = MonthStart(d.month) + LengthOf(d.year, d.month)
          /\ MonthStart(d.month) \in Int
      BY <1>1, <1>4, <2>4, MonthLengths DEF LengthOf
    <3>2. (d.month + 1 <= 2) <=> (d.month <= 2)
      BY <1>1, <2>4
    <3>3. QED
      BY <1>1, <1>2, <1>4, <2>1, <2>2, <3>1, <3>2, DayNumber
  <2>5. QED
    BY <2>3, <2>4
<1>5. CASE d.day = LengthOf(d.year, d.month) /\ d.month = 12
  <2>1. NextDate(d) = [year |-> d.year + 1, month |-> 1, day |-> 1]
    BY <1>1, <1>5 DEF NextDate
  <2>2. IsDay(NextDate(d))
    BY <1>1, <2>1 DEF IsDay, Dates, LengthOf
  <2>3. d.day = 31
    BY <1>5 DEF LengthOf
  <2>4. QED
    BY <1>1, <1>2, <1>5, <2>1, <2>2, <2>3, DayNumber, MonthLengths
<1>6. QED
  BY <1>1, <1>3, <1>4, <1>5

\* A day is known to the parser, the two marks are not days.
LEMMA DaysAreRead ==
  ASSUME NEW d
  PROVE  /\ IsDay(d) => DaysFromCivil(d) # NoDay /\ d # Unreadable /\ d # Unstated
         /\ d = Unreadable => DaysFromCivil(d) = NoDay
<1>1. ASSUME IsDay(d)
      PROVE  DaysFromCivil(d) # NoDay /\ d # Unreadable /\ d # Unstated
  <2>1. \A y \in Nat : YearStart(y) \in Int /\ YearStart(y) >= 0
    BY DEF YearStart, DayOfEra
  <2>2. YearStart(-1) >= -366 /\ YearStart(-1) \in Int
    BY DEF YearStart, DayOfEra
  <2>3. d.year \in Nat /\ d.month \in 1..12 /\ d.day \in Nat
    BY <1>1, DayNumber, LengthsAgree
  <2>4. MonthStart(d.month) \in Nat
    BY <2>3 DEF MonthStart
  <2> DEFINE y == IF d.month <= 2 THEN d.year - 1 ELSE d.year
  <2>5. YearStart(y) \in Int /\ YearStart(y) >= -366
    <3>1. y \in Nat \/ y = -1
      BY <2>3
    <3>2. QED
      BY <2>1, <2>2, <3>1
  <2>6. DaysFromCivil(d) = YearStart(y) + MonthStart(d.month) + d.day - 719469
    BY <1>1, DayNumber
  <2> HIDE DEF y
  <2>7. DaysFromCivil(d) # NoDay
    BY <2>3, <2>4, <2>5, <2>6 DEF NoDay
  <2>8. QED
    BY <2>3, <2>7 DEF Unreadable, Unstated
<1>2. d = Unreadable => DaysFromCivil(d) = NoDay
  BY DEF Unreadable, DaysFromCivil
<1>3. QED
  BY <1>1, <1>2

Jobs == [running : BOOLEAN, createdAt : Dates \cup {Unreadable},
         startedAt : Dates \cup {Unstated}, since : 0..(MaxDays + 1)]

AgesTyped ==
  /\ IsDay(today) /\ elapsed \in 0..MaxDays
  /\ waiting \in Seq(Jobs) /\ Len(waiting) <= MaxJobs

\* What is said of a job is a day, the one it is aged from, or nothing.
StampTrue(job) ==
  /\ job.createdAt # Unreadable => IsDay(job.createdAt)
  /\ job.startedAt # Unstated => IsDay(job.startedAt)
  /\ ~job.running => job.startedAt = Unstated
  /\ AgedFrom(job) # Unreadable =>
       DaysFromCivil(AgedFrom(job)) - job.since = DaysFromCivil(today) - elapsed

StampsTrue == \A i \in 1..Len(waiting) : StampTrue(waiting[i])

AgesInv == AgesTyped /\ StampsTrue

LEMMA AgesInitInv == AgesInit => AgesInv
<1> SUFFICES ASSUME AgesInit
             PROVE  AgesInv
  OBVIOUS
<1>1. IsDay(today) /\ 0 \in 0..MaxDays /\ MaxJobs \in Nat
  BY AgesAssumption, FirstDaysAssumption DEF AgesInit
<1>2. waiting = << >> /\ Len(waiting) = 0 /\ waiting \in Seq(Jobs)
  BY DEF AgesInit
<1>3. QED
  BY <1>1, <1>2 DEF AgesInit, AgesInv, AgesTyped, StampsTrue

LEMMA AgesStepInv == AgesInv /\ [AgesNext]_agesVars => AgesInv'
<1> SUFFICES ASSUME AgesInv, [AgesNext]_agesVars
             PROVE  AgesInv'
  OBVIOUS
<1>t. /\ IsDay(today) /\ today \in Dates /\ elapsed \in 0..MaxDays /\ MaxDays \in Nat
      /\ MaxJobs \in Nat /\ waiting \in Seq(Jobs) /\ Len(waiting) <= MaxJobs
      /\ Len(waiting) \in Nat
      /\ IsDay(NextDate(today)) /\ NextDate(today) \in Dates
      /\ DaysFromCivil(today) \in Int
      /\ DaysFromCivil(NextDate(today)) = DaysFromCivil(today) + 1
  BY AgesAssumption, NextDayIsOneMore DEF AgesInv, AgesTyped, IsDay
<1>s. \A i \in 1..Len(waiting) : waiting[i] \in Jobs /\ StampTrue(waiting[i])
  BY <1>t DEF AgesInv, StampsTrue
<1>1. CASE DayPasses
  <2>1. today' = NextDate(today) /\ elapsed' = elapsed + 1 /\ elapsed < MaxDays
        /\ UNCHANGED waiting
    BY <1>1 DEF DayPasses
  <2>2. AgesTyped'
    BY <1>t, <2>1 DEF AgesTyped
  <2>3. DaysFromCivil(today') - elapsed' = DaysFromCivil(today) - elapsed
    BY <1>t, <2>1
  <2>4. \A i \in 1..Len(waiting') : StampTrue(waiting[i])'
    BY <1>s, <2>1, <2>3 DEF StampTrue, AgedFrom
  <2>5. QED
    BY <2>2, <2>4 DEF AgesInv, StampsTrue
<1>2. CASE Queued
  <2>1. PICK stamp \in Stamps :
          waiting' = Append(waiting, [running |-> FALSE, createdAt |-> stamp.says,
                                      startedAt |-> Unstated, since |-> stamp.day])
    BY <1>2 DEF Queued
  <2> DEFINE job == [running |-> FALSE, createdAt |-> stamp.says,
                     startedAt |-> Unstated, since |-> stamp.day]
  <2>2. UNCHANGED <<today, elapsed>> /\ Len(waiting) < MaxJobs
    BY <1>2 DEF Queued
  <2>3. /\ stamp.says \in Dates \cup {Unreadable} /\ stamp.day \in 0..(MaxDays + 1)
        /\ stamp.says # Unreadable =>
             IsDay(stamp.says)
             /\ DaysFromCivil(stamp.says) - stamp.day = DaysFromCivil(today) - elapsed
    <3>1. CASE stamp = [says |-> today, day |-> elapsed]
      BY <1>t, <3>1
    <3>2. CASE stamp = [says |-> Unreadable, day |-> elapsed]
      BY <1>t, <3>2
    <3>3. CASE stamp = [says |-> NextDate(today), day |-> elapsed + 1]
      BY <1>t, <3>3
    <3>4. QED
      BY <3>1, <3>2, <3>3 DEF Stamps
  <2>4. job \in Jobs
    BY <2>3 DEF Jobs
  <2>5. StampTrue(job)
    <3>1. AgedFrom(job) = stamp.says
      BY DEF AgedFrom
    <3>2. QED
      BY <2>3, <3>1 DEF StampTrue
  <2> HIDE DEF job
  <2>6. waiting' = Append(waiting, job)
    BY <2>1 DEF job
  <2>7. /\ waiting' \in Seq(Jobs) /\ Len(waiting') = Len(waiting) + 1
        /\ \A i \in 1..Len(waiting) : waiting'[i] = waiting[i]
        /\ waiting'[Len(waiting) + 1] = job
    BY <1>t, <2>4, <2>6, AppendProperties
  <2>8. \A i \in 1..Len(waiting') : StampTrue(waiting'[i])
    <3>1. SUFFICES ASSUME NEW i \in 1..Len(waiting')
                   PROVE  StampTrue(waiting'[i])
      OBVIOUS
    <3>2. i \in 1..Len(waiting) \/ i = Len(waiting) + 1
      BY <1>t, <2>7
    <3>3. CASE i \in 1..Len(waiting)
      <4>1. waiting'[i] = waiting[i] /\ StampTrue(waiting[i])
        BY <1>s, <2>7, <3>3
      <4>2. QED
        BY <4>1, Zenon
    <3>4. CASE i = Len(waiting) + 1
      <4>1. waiting'[i] = job
        BY <2>7, <3>4
      <4>2. QED
        BY <2>5, <4>1, Zenon
    <3>5. QED
      BY <3>2, <3>3, <3>4
  <2>9. StampsTrue'
    BY <2>2, <2>8 DEF StampsTrue, StampTrue, AgedFrom
  <2>10. QED
    BY <1>t, <2>2, <2>7, <2>9 DEF AgesInv, AgesTyped
<1>3. CASE Begins
  <2>1. PICK i \in DOMAIN waiting :
          \E stamp \in {[says |-> today, day |-> elapsed],
                       [says |-> Unstated, day |-> waiting[i].since]} :
             /\ ~waiting[i].running
             /\ waiting' = [waiting EXCEPT ![i] =
                    [running |-> TRUE, createdAt |-> @.createdAt,
                     startedAt |-> stamp.says, since |-> stamp.day]]
    BY <1>3 DEF Begins
  <2>2. PICK stamp \in {[says |-> today, day |-> elapsed],
                       [says |-> Unstated, day |-> waiting[i].since]} :
             /\ ~waiting[i].running
             /\ waiting' = [waiting EXCEPT ![i] =
                    [running |-> TRUE, createdAt |-> @.createdAt,
                     startedAt |-> stamp.says, since |-> stamp.day]]
    BY <2>1
  <2>3. UNCHANGED <<today, elapsed>>
    BY <1>3 DEF Begins
  <2>4. i \in 1..Len(waiting) /\ DOMAIN waiting = 1..Len(waiting)
    BY <1>t
  <2> DEFINE job == [running |-> TRUE, createdAt |-> waiting[i].createdAt,
                     startedAt |-> stamp.says, since |-> stamp.day]
  <2>5. waiting' = [waiting EXCEPT ![i] = job]
    BY <2>2, <2>4
  <2>6. \/ stamp.says = today /\ stamp.day = elapsed
        \/ stamp.says = Unstated /\ stamp.day = waiting[i].since
    <3>1. CASE stamp = [says |-> today, day |-> elapsed]
      BY <3>1
    <3>2. CASE stamp = [says |-> Unstated, day |-> waiting[i].since]
      BY <3>2
    <3>3. QED
      BY <3>1, <3>2
  <2>7. waiting[i] \in Jobs /\ StampTrue(waiting[i]) /\ ~waiting[i].running
    BY <1>s, <2>2, <2>4
  <2>8. job \in Jobs
    BY <1>t, <2>6, <2>7 DEF Jobs
  <2>9. StampTrue(job)
    <3>1. CASE stamp.says = today /\ stamp.day = elapsed
      <4>1. today # Unstated
        BY <1>t, DaysAreRead
      <4>2. AgedFrom(job) = today
        BY <3>1, <4>1 DEF AgedFrom
      <4>3. QED
        BY <1>t, <2>7, <3>1, <4>2 DEF StampTrue
    <3>2. CASE stamp.says = Unstated /\ stamp.day = waiting[i].since
      <4>1. AgedFrom(job) = waiting[i].createdAt /\ AgedFrom(waiting[i]) = waiting[i].createdAt
        BY <2>7, <3>2 DEF AgedFrom
      <4>2. QED
        BY <2>7, <3>2, <4>1 DEF StampTrue
    <3>3. QED
      BY <2>6, <3>1, <3>2
  <2> HIDE DEF job
  <2>10. waiting' \in Seq(Jobs) /\ Len(waiting') = Len(waiting)
         /\ \A k \in 1..Len(waiting) : waiting'[k] = IF k = i THEN job ELSE waiting[k]
    BY <1>t, <2>4, <2>5, <2>8, ExceptSeq
  <2>11. StampsTrue'
    BY <1>s, <2>3, <2>9, <2>10 DEF StampsTrue, StampTrue, AgedFrom
  <2>12. QED
    BY <1>t, <2>3, <2>10, <2>11 DEF AgesInv, AgesTyped
<1>4. CASE UNCHANGED agesVars
  BY <1>4 DEF agesVars, AgesInv, AgesTyped, StampsTrue, StampTrue, AgedFrom
<1>5. QED
  BY <1>1, <1>2, <1>3, <1>4 DEF AgesNext

\* The age of every job that can be told is the time that really passed, and
\* the jobs that can be told are those that say a day.
AgesTold ==
  /\ \A i \in DOMAIN waiting : Parsed(waiting[i]) <=> i \in AgeTold
  /\ \A i \in AgeTold : AgeOfJob(waiting[i]) = TrueAge(i)

LEMMA AgesInvSays == AgesInv => AgesTypeOK /\ AgesTold
<1> SUFFICES ASSUME AgesInv
             PROVE  AgesTypeOK /\ AgesTold
  OBVIOUS
<1>t. /\ IsDay(today) /\ today \in Dates /\ elapsed \in 0..MaxDays
      /\ waiting \in Seq(Jobs) /\ Len(waiting) <= MaxJobs /\ DOMAIN waiting = 1..Len(waiting)
      /\ MaxDays \in Nat /\ DaysFromCivil(today) \in Int
  BY AgesAssumption, NextDayIsOneMore DEF AgesInv, AgesTyped, IsDay
<1>s. \A i \in DOMAIN waiting : waiting[i] \in Jobs /\ StampTrue(waiting[i])
  BY <1>t DEF AgesInv, StampsTrue
<1>1. AgesTypeOK
  BY <1>t, <1>s DEF AgesTypeOK, Jobs
<1>2. ASSUME NEW i \in DOMAIN waiting
      PROVE  /\ Parsed(waiting[i]) <=> i \in AgeTold
             /\ i \in AgeTold => AgeOfJob(waiting[i]) = TrueAge(i)
  <2> DEFINE job == waiting[i]
             from == AgedFrom(job)
  <2>1. from # Unreadable => IsDay(from)
    BY <1>s DEF AgedFrom, StampTrue
  <2>2. Parsed(job) <=> from # Unreadable
    BY <2>1, DaysAreRead DEF Parsed
  <2>3. i \in AgeTold <=> from # Unreadable
    BY DEF AgeTold
  <2>4. ASSUME from # Unreadable
        PROVE  AgeOfJob(job) = TrueAge(i)
    <3>1. DaysFromCivil(from) \in Int
      BY <2>1, <2>4, NextDayIsOneMore
    <3>2. job.since \in 0..(MaxDays + 1)
          /\ DaysFromCivil(from) - job.since = DaysFromCivil(today) - elapsed
      BY <1>s, <2>4 DEF StampTrue, Jobs
    <3>3. DaysFromCivil(today) - DaysFromCivil(from) = elapsed - job.since
      BY <1>t, <3>1, <3>2
    <3> HIDE DEF from
    <3>4. AgeOfJob(job) = IF elapsed - job.since < 0 THEN 0 ELSE elapsed - job.since
      BY <3>3 DEF AgeOfJob, from
    <3>5. job.since > elapsed <=> elapsed - job.since < 0
      BY <1>t, <3>2
    <3>6. QED
      BY <3>4, <3>5 DEF TrueAge
  <2>5. QED
    BY <2>2, <2>3, <2>4
<1>3. QED
  BY <1>1, <1>2 DEF AgesTold, AgeTold

-----------------------------------------------------------------------------
(* Order statistics: what the sorted values of a function say of it.       *)

LEMMA HasGreatest ==
  ASSUME NEW S, IsFiniteSet(S), S # {}, NEW f \in [S -> Nat]
  PROVE  \E x \in S : \A y \in S : f[y] <= f[x]
<1> DEFINE T == {f[x] : x \in S}
<1>1. f \in Surjection(S, T)
  BY DEF Surjection
<1>2. IsFiniteSet(T)
  BY <1>1, FS_Surjection, Zenon
<1>3. PICK a \in T : \A b \in T : b <= a
  <2>1. T \subseteq Nat /\ T # {}
    OBVIOUS
  <2> HIDE DEF T
  <2>2. QED
    BY <1>2, <2>1, HasMost
<1>4. QED
  BY <1>3

LEMMA NoMoreCounted ==
  ASSUME NEW S, IsFiniteSet(S), NEW f \in [S -> Nat], NEW a
  PROVE  /\ NoMore(f, a) \subseteq S /\ NoMore(f, a) = {i \in S : f[i] <= a}
         /\ IsFiniteSet(NoMore(f, a))
         /\ Cardinality(NoMore(f, a)) \in Nat /\ Cardinality(NoMore(f, a)) <= Cardinality(S)
<1>1. DOMAIN f = S
  OBVIOUS
<1>2. NoMore(f, a) \subseteq S /\ NoMore(f, a) = {i \in S : f[i] <= a}
  BY <1>1 DEF NoMore
<1>3. QED
  BY <1>2, FS_Subset, FS_CardinalityType

\* The k-th value exists: it is the least that k do not exceed.
LEMMA KthExists ==
  ASSUME NEW S, IsFiniteSet(S), NEW f \in [S -> Nat], NEW k \in 1..Cardinality(S)
  PROVE  \E a \in {f[i] : i \in S} : IsKth(f, k, a)
<1> DEFINE T == {a \in {f[i] : i \in S} : Cardinality(NoMore(f, a)) >= k}
<1>1. S # {} /\ Cardinality(S) \in Nat /\ DOMAIN f = S
  BY FS_EmptySet, FS_CardinalityType
<1>2. PICK x \in S : \A y \in S : f[y] <= f[x]
  BY <1>1, HasGreatest
<1>3. NoMore(f, f[x]) = S
  BY <1>1, <1>2 DEF NoMore
<1>4. T \subseteq Nat /\ T # {}
  BY <1>1, <1>3
<1>5. PICK a \in T : \A b \in T : a <= b
  <2> HIDE DEF T
  <2>1. QED
    BY <1>4, NatLeast
<1>6. QED
  BY <1>1, <1>5 DEF IsKth

\* k values do not exceed the k-th, and all but k - 1 are no less.
LEMMA KthCounts ==
  ASSUME NEW S, IsFiniteSet(S), NEW f \in [S -> Nat], NEW k \in 1..Cardinality(S),
         NEW a \in {f[i] : i \in S}, IsKth(f, k, a)
  PROVE  /\ Cardinality({i \in S : f[i] <= a}) >= k
         /\ Cardinality({i \in S : f[i] >= a}) >= (Cardinality(S) - k) + 1
<1> DEFINE L == {i \in S : f[i] < a}
           M == {i \in S : f[i] >= a}
<1>1. DOMAIN f = S /\ Cardinality(S) \in Nat /\ k \in Nat /\ k > 0 /\ a \in Nat
  BY FS_CardinalityType
<1>2. Cardinality({i \in S : f[i] <= a}) >= k
  BY <1>1 DEF IsKth, NoMore
<1>3. L \subseteq S /\ IsFiniteSet(L) /\ Cardinality(L) \in Nat
  BY FS_Subset, FS_CardinalityType
<1>4. Cardinality(L) < k
  <2>1. CASE L = {}
    BY <1>1, <2>1, FS_EmptySet
  <2>2. CASE L # {}
    <3> DEFINE g == [i \in L |-> f[i]]
    <3>1. g \in [L -> Nat]
      OBVIOUS
    <3>2. PICK x \in L : \A y \in L : g[y] <= g[x]
      <4> HIDE DEF g, L
      <4>1. QED
        BY <1>3, <2>2, <3>1, HasGreatest
    <3>3. x \in S /\ f[x] \in Nat /\ f[x] < a /\ \A y \in L : f[y] <= f[x]
      BY <3>2
    <3>4. NoMore(f, f[x]) = L
      <4>1. ASSUME NEW i \in S, f[i] <= f[x]
            PROVE  f[i] < a
        <5>1. f[i] \in Nat
          OBVIOUS
        <5>2. QED
          BY <1>1, <3>3, <4>1, <5>1
      <4>2. QED
        BY <1>1, <3>3, <4>1 DEF NoMore
    <3>5. ~(Cardinality(NoMore(f, f[x])) >= k)
      BY <1>1, <3>3 DEF IsKth
    <3>6. QED
      BY <1>1, <1>3, <3>4, <3>5
  <2>3. QED
    BY <2>1, <2>2
<1>5. Cardinality(M) = Cardinality(S) - Cardinality(L)
  <2>1. M = S \ L /\ S \cap L = L
    BY <1>1
  <2> HIDE DEF L, M
  <2>2. QED
    BY <2>1, FS_Difference
<1>6. QED
  BY <1>1, <1>2, <1>3, <1>4, <1>5

\* The sorted values rise.
LEMMA SortedSays ==
  ASSUME NEW S, IsFiniteSet(S), NEW f \in [S -> Nat]
  PROVE  /\ Cardinality(S) \in Nat /\ Sorted(f) \in Seq(Nat) /\ Len(Sorted(f)) = Cardinality(S)
         /\ \A k \in 1..Cardinality(S) :
              /\ Sorted(f)[k] \in {f[i] : i \in S} /\ IsKth(f, k, Sorted(f)[k])
         /\ \A k \in 1..Cardinality(S) : \A l \in 1..Cardinality(S) :
              k <= l => Sorted(f)[k] <= Sorted(f)[l]
<1> DEFINE n == Cardinality(S)
           A == {f[i] : i \in S}
<1>1. DOMAIN f = S /\ n \in Nat
  BY FS_CardinalityType
<1>2. \A k \in 1..n : Sorted(f)[k] \in A /\ IsKth(f, k, Sorted(f)[k])
  <2>1. TAKE k \in 1..n
  <2>2. \E a \in A : IsKth(f, k, a)
    BY KthExists
  <2>3. Sorted(f)[k] = CHOOSE a \in A : IsKth(f, k, a)
    BY <1>1 DEF Sorted
  <2>4. QED
    BY <2>2, <2>3, Zenon
<1>3. A \subseteq Nat
  OBVIOUS
<1>4. Sorted(f) \in Seq(Nat) /\ Len(Sorted(f)) = n
  <2>1. DOMAIN Sorted(f) = 1..n
    BY <1>1 DEF Sorted
  <2>2. Sorted(f) = [k \in 1..n |-> Sorted(f)[k]]
    BY <1>1, <2>1 DEF Sorted
  <2>3. Sorted(f) \in [1..n -> Nat]
    BY <1>2, <1>3, <2>2
  <2>4. QED
    BY <1>1, <2>3
<1>5. ASSUME NEW k \in 1..n, NEW l \in 1..n, k <= l
      PROVE  Sorted(f)[k] <= Sorted(f)[l]
  <2>1. PICK j \in S : f[j] = Sorted(f)[l]
    BY <1>2
  <2>2. Cardinality(NoMore(f, f[j])) >= l
    BY <1>2, <2>1 DEF IsKth
  <2>3. Cardinality(NoMore(f, f[j])) >= k
    BY <1>1, <1>5, <2>2, NoMoreCounted
  <2>4. QED
    BY <1>1, <1>2, <2>1, <2>3 DEF IsKth
<1>6. QED
  BY <1>1, <1>2, <1>4, <1>5

-----------------------------------------------------------------------------
(* The statistics of queue_stats, over those of the true ages.             *)

\* Which jobs are counted, and by what age.
LEMMA JobsSorted ==
  ASSUME AgesInv
  PROVE  /\ FreshJobs = Young /\ StaleJobs = AgeTold \ Current /\ CurrentJobs = Current
         /\ IsFiniteSet(Current) /\ [i \in Current |-> TrueAge(i)] \in [Current -> Nat]
         /\ CurrentAges = Sorted([i \in Current |-> TrueAge(i)])
<1>1. AgesTypeOK /\ AgesTold
  BY AgesInvSays
<1>2. /\ DOMAIN waiting = 1..Len(waiting) /\ Len(waiting) \in Nat
      /\ elapsed \in Nat /\ \A i \in DOMAIN waiting : waiting[i].since \in Nat
  <2>1. waiting \in Seq(Jobs) /\ elapsed \in 0..MaxDays /\ MaxDays \in Nat
    BY AgesAssumption DEF AgesInv, AgesTyped
  <2>2. \A i \in DOMAIN waiting : waiting[i] \in Jobs
    BY <2>1
  <2>3. \A i \in DOMAIN waiting : waiting[i].since \in Nat
    BY <2>1, <2>2 DEF Jobs
  <2>4. QED
    BY <2>1, <2>3
<1>3. \A i \in DOMAIN waiting : TrueAge(i) \in Nat
  BY <1>2 DEF TrueAge
<1>4. StaleAfter \in Nat
  BY AgesAssumption
<1>5. AgeTold \subseteq DOMAIN waiting
  BY DEF AgeTold
<1>6. \A i \in AgeTold : StaleJob(waiting[i]) <=> i \notin Running /\ ~(TrueAge(i) < StaleAfter)
  BY <1>1, <1>3, <1>4, <1>5 DEF AgesTold, StaleJob, Running
<1>7. FreshJobs = Young /\ StaleJobs = AgeTold \ Current /\ CurrentJobs = Current
  <2>1. CurrentJobs = {i \in AgeTold : ~StaleJob(waiting[i])}
    BY <1>1, <1>5 DEF AgesTold, CurrentJobs
  <2>2. StaleJobs = {i \in AgeTold : StaleJob(waiting[i])}
    BY <1>1, <1>5 DEF AgesTold, StaleJobs
  <2>3. FreshJobs = {i \in AgeTold : i \notin Running /\ ~StaleJob(waiting[i])}
    BY <1>1, <1>5 DEF AgesTold, FreshJobs, Running
  <2>4. QED
    BY <1>6, <2>1, <2>2, <2>3 DEF Young, Current, Running
<1>8. Current \subseteq AgeTold /\ IsFiniteSet(Current)
  <2>1. Current \subseteq AgeTold
    BY DEF Current, Young, Running
  <2>2. IsFiniteSet(1..Len(waiting))
    <3>1. 1 \in Int /\ Len(waiting) \in Int
      BY <1>2
    <3>2. QED
      BY <3>1, FS_Interval, Zenon
  <2>3. QED
    BY <1>2, <1>5, <2>1, <2>2, FS_Subset
<1>9. [i \in Current |-> TrueAge(i)] \in [Current -> Nat]
  BY <1>3, <1>5, <1>8
<1>10. [i \in CurrentJobs |-> AgeOfJob(waiting[i])] = [i \in Current |-> TrueAge(i)]
  BY <1>1, <1>7, <1>8 DEF AgesTold
<1>11. QED
  BY <1>7, <1>8, <1>9, <1>10 DEF CurrentAges

LEMMA AgesInvTrue == AgesInv => AgesTrue
<1> SUFFICES ASSUME AgesInv
             PROVE  AgesTrue
  OBVIOUS
<1> DEFINE S == Current
           f == [i \in S |-> TrueAge(i)]
           v == CurrentAges
           n == Cardinality(S)
           AtMost(a) == {i \in S : f[i] <= a}
           AtLeast(a) == {i \in S : f[i] >= a}
<1>1. /\ FreshJobs = Young /\ StaleJobs = AgeTold \ Current
      /\ IsFiniteSet(S) /\ f \in [S -> Nat] /\ v = Sorted(f)
  BY JobsSorted
<1>2. \A i \in S : f[i] = TrueAge(i)
  OBVIOUS
<1> HIDE DEF S, f, v
<1>3. /\ n \in Nat /\ v \in Seq(Nat) /\ Len(v) = n
      /\ \A k \in 1..n : v[k] \in {f[i] : i \in S} /\ IsKth(f, k, v[k]) /\ v[k] \in Nat
      /\ \A k \in 1..n : \A l \in 1..n : k <= l => v[k] <= v[l]
  BY <1>1, SortedSays
<1>4. \A k \in 1..n : /\ Cardinality(AtMost(v[k])) >= k
                      /\ Cardinality(AtLeast(v[k])) >= (n - k) + 1
  <2>1. TAKE k \in 1..n
  <2>2. v[k] \in {f[i] : i \in S} /\ IsKth(f, k, v[k])
    BY <1>3
  <2>3. \A a \in {f[i] : i \in S} : IsKth(f, k, a) =>
            /\ Cardinality({i \in S : f[i] <= a}) >= k
            /\ Cardinality({i \in S : f[i] >= a}) >= (Cardinality(S) - k) + 1
    BY <1>1, KthCounts
  <2>4. QED
    BY <2>2, <2>3, Zenon
<1>5. \A T \in SUBSET S : IsFiniteSet(T) /\ Cardinality(T) \in Nat
  BY <1>1, FS_Subset, FS_CardinalityType
<1>6. ASSUME NEW T \in SUBSET S, NEW R \in SUBSET T
      PROVE  Cardinality(R) <= Cardinality(T)
  BY <1>5, <1>6, FS_Subset
<1>7. CASE n = 0
  <2>1. S = {} /\ v = << >>
    BY <1>1, <1>3, <1>7, FS_EmptySet
  <2>2. Cardinality({}) = 0
    BY FS_EmptySet
  <2>3. QED
    BY <1>1, <1>7, <2>1, <2>2, AgesAssumption DEF AgesTrue, S, v, TailIsBad, Longest
<1>8. CASE n > 0
  <2>1. v # << >>
    BY <1>3, <1>8
  <2>2. 10 * Cardinality({i \in S : TrueAge(i) <= Tail90}) >= 9 * n
    <3> DEFINE idx == (n * 9) \div 10
               k == 1 + (IF idx < n THEN idx ELSE n - 1)
    <3>1. k \in 1..n /\ 10 * k >= 9 * n
      BY <1>3, <1>8
    <3>2. Tail90 = v[k]
      BY <1>3, <2>1 DEF Tail90, Percentile, v
    <3>3. {i \in S : TrueAge(i) <= Tail90} = AtMost(v[k])
      BY <1>2, <3>2
    <3> HIDE DEF k
    <3>4. Cardinality(AtMost(v[k])) >= k /\ Cardinality(AtMost(v[k])) \in Nat
      BY <1>4, <1>5, <3>1
    <3> HIDE DEF AtMost
    <3>5. k \in Nat /\ n \in Nat /\ 10 * k >= 9 * n
      BY <1>3, <3>1
    <3>6. 10 * Cardinality(AtMost(v[k])) >= 9 * n
      BY <3>4, <3>5
    <3>7. QED
      BY <3>3, <3>6
  <2>3. /\ 2 * Cardinality({i \in S : 2 * TrueAge(i) <= TwiceMedian(v)}) >= n
        /\ 2 * Cardinality({i \in S : 2 * TrueAge(i) >= TwiceMedian(v)}) >= n
    <3> DEFINE mid == n \div 2
               Low == {i \in S : 2 * TrueAge(i) <= TwiceMedian(v)}
               High == {i \in S : 2 * TrueAge(i) >= TwiceMedian(v)}
    <3>1. PICK k \in 1..n, l \in 1..n :
            /\ k <= l /\ 2 * k >= n /\ 2 * ((n - l) + 1) >= n
            /\ TwiceMedian(v) = v[k] + v[l]
      <4>1. CASE n % 2 = 0
        <5>0. PICK m \in Nat : n = m
          BY <1>3
        <5>1. mid \in 1..n /\ mid + 1 \in 1..n /\ 2 * mid >= n /\ 2 * ((n - (mid + 1)) + 1) >= n
          BY <1>8, <4>1, <5>0
        <5>2. TwiceMedian(v) = v[mid] + v[mid + 1]
          BY <1>3, <2>1, <4>1 DEF TwiceMedian
        <5>3. QED
          BY <5>1, <5>2
      <4>2. CASE n % 2 # 0
        <5>1. mid + 1 \in 1..n /\ 2 * (mid + 1) >= n /\ 2 * ((n - (mid + 1)) + 1) >= n
          BY <1>3, <1>8, <4>2
        <5>2. TwiceMedian(v) = 2 * v[mid + 1]
          BY <1>3, <2>1, <4>2 DEF TwiceMedian
        <5>3. 2 * v[mid + 1] = v[mid + 1] + v[mid + 1]
          BY <1>3, <5>1
        <5>4. QED
          BY <5>1, <5>2, <5>3
      <4>3. QED
        BY <4>1, <4>2
    <3>2. v[k] \in Nat /\ v[l] \in Nat /\ v[k] <= v[l]
      BY <1>3, <3>1
    <3>3. AtMost(v[k]) \subseteq Low /\ AtLeast(v[l]) \subseteq High
      <4>1. \A i \in S : TrueAge(i) \in Nat /\ f[i] = TrueAge(i)
        BY <1>1, <1>2
      <4>2. QED
        BY <3>1, <3>2, <4>1
    <3>4. Low \subseteq S /\ High \subseteq S
      OBVIOUS
    <3> HIDE DEF Low, High
    <3>5. Cardinality(Low) >= k /\ Cardinality(Low) \in Nat
      <4>0. Cardinality(AtMost(v[k])) \in Nat /\ k \in Nat
        BY <1>5, <3>1
      <4>1. Cardinality(AtMost(v[k])) <= Cardinality(Low)
        BY <1>6, <3>3, <3>4
      <4>2. Cardinality(AtMost(v[k])) >= k /\ Cardinality(Low) \in Nat
        BY <1>4, <1>5, <3>1, <3>4
      <4> HIDE DEF AtMost
      <4>3. QED
        BY <4>0, <4>1, <4>2
    <3>6. Cardinality(High) >= (n - l) + 1 /\ Cardinality(High) \in Nat
      <4>0. Cardinality(AtLeast(v[l])) \in Nat /\ l \in Nat /\ n \in Nat
        BY <1>3, <1>5, <3>1
      <4>1. Cardinality(AtLeast(v[l])) <= Cardinality(High)
        BY <1>6, <3>3, <3>4
      <4>2. Cardinality(AtLeast(v[l])) >= (n - l) + 1 /\ Cardinality(High) \in Nat
        BY <1>4, <1>5, <3>1, <3>4
      <4> HIDE DEF AtLeast
      <4>3. QED
        BY <4>0, <4>1, <4>2
    <3>7. 2 * Cardinality(Low) >= n /\ 2 * Cardinality(High) >= n
      <4>1. k \in Nat /\ l \in Nat /\ n \in Nat
        BY <1>3, <3>1
      <4>2. QED
        BY <3>1, <3>5, <3>6, <4>1
    <3>8. QED
      BY <3>7 DEF Low, High
  <2>4. TailIsBad <=> \E i \in S : TrueAge(i) > WarnAfter
    <3>1. Longest = v[n] /\ n \in 1..n
      BY <1>3, <1>8, <2>1 DEF Longest, v
    <3>2. AtMost(v[n]) = S
      <4>1. AtMost(v[n]) \subseteq S
        OBVIOUS
      <4>2. Cardinality(AtMost(v[n])) = Cardinality(S)
        <5>1. n \in Nat /\ Cardinality(AtMost(v[n])) >= n /\ Cardinality(AtMost(v[n])) \in Nat
          BY <1>3, <1>4, <1>5, <3>1
        <5>2. Cardinality(AtMost(v[n])) <= n
          BY <1>1, <4>1, FS_Subset
        <5> HIDE DEF AtMost
        <5>3. QED
          BY <5>1, <5>2
      <4> HIDE DEF AtMost
      <4>3. QED
        BY <1>1, <4>1, <4>2, FS_Subset
    <3>3. PICK j \in S : f[j] = v[n]
      BY <1>3, <3>1
    <3>4. \A i \in S : f[i] \in Nat /\ f[i] <= v[n]
      BY <1>1, <3>2
    <3>5. WarnAfter \in Nat
      BY AgesAssumption
    <3>6. v[n] \in Nat
      BY <1>3, <3>1
    <3>7. v[n] > WarnAfter <=> \E i \in S : f[i] > WarnAfter
      BY <3>3, <3>4, <3>5, <3>6
    <3>8. QED
      BY <1>2, <3>1, <3>7 DEF TailIsBad
  <2>5. QED
    BY <1>1, <2>2, <2>3, <2>4 DEF AgesTrue, S, v
<1>9. QED
  BY <1>3, <1>7, <1>8

-----------------------------------------------------------------------------
(* The composition: a step of a watcher leaves the others as they are.     *)

EveryWatcher ==
  /\ [MonitorsNext]_monitorVars /\ [CanaryNext]_canaryVars /\ [QueueNext]_queueVars
  /\ [AgesNext]_agesVars /\ [AlertNext]_alertVars

watcherVars == <<monitorVars, canaryVars, queueVars, agesVars, alertVars, part>>

LEMMA EveryWatcherSteps == [WatchersNext]_watcherVars => EveryWatcher
  BY Zenon DEF WatchersNext, watcherVars, EveryWatcher

WatchersInv == MonitorInv /\ BackoffPays /\ CanaryInv /\ QueueInv /\ AgesInv /\ AlertInv

LEMMA WatchersInitInv == WatchersInit => WatchersInv /\ Flight!Init /\ CanaryFlight!Init
<1> SUFFICES ASSUME WatchersInit
             PROVE  WatchersInv /\ Flight!Init /\ CanaryFlight!Init
  OBVIOUS
<1>1. MonitorsInit /\ CanaryInit /\ QueueInit /\ AgesInit /\ AlertInit
  BY DEF WatchersInit
<1>2. QED
  BY <1>1, MonitorInitInv, BackoffInit, CanaryInitInv, CanaryFlightInit, QueueInitInv,
     AgesInitInv, AlertInitInv
     DEF WatchersInv

\* What a step of the watchers does.
WatchersStep ==
  /\ StreakKept /\ FlightSteps /\ ProbesRare
  /\ [CanaryFlight!Next]_<<thread, last>>
  /\ (HeardOnce /\ LogCountsNot) \/ UNCHANGED alertVars

LEMMA WatchersStepInv ==
  WatchersInv /\ [WatchersNext]_watcherVars => WatchersInv' /\ WatchersStep
<1> SUFFICES ASSUME WatchersInv, EveryWatcher
             PROVE  WatchersInv' /\ WatchersStep
  BY EveryWatcherSteps
<1>1. MonitorInv' /\ StreakKept /\ FlightSteps /\ BackoffPays' /\ ProbesRare
  BY MonitorStepInv, BackoffStep DEF WatchersInv, EveryWatcher
<1>2. CanaryInv' /\ [CanaryFlight!Next]_<<thread, last>>
  BY CanaryStepInv, CanaryFlies DEF WatchersInv, EveryWatcher
<1>3. QueueInv' /\ AgesInv'
  BY QueueStepInv, AgesStepInv DEF WatchersInv, EveryWatcher
<1>4. AlertInv' /\ ((HeardOnce /\ LogCountsNot) \/ UNCHANGED alertVars)
  BY AlertStepInv DEF WatchersInv, EveryWatcher
<1>5. QED
  BY <1>1, <1>2, <1>3, <1>4 DEF WatchersInv, WatchersStep

LEMMA WatchersHold == WatchersSpec => []WatchersInv
  BY WatchersInitInv, WatchersStepInv, PTL DEF WatchersSpec, watcherVars

\* WatchersTypeOK: every variable of the watchers keeps its type.
THEOREM WatchersAreTyped == WatchersSpec => []WatchersTypeOK
<1>1. WatchersInv => WatchersTypeOK
  BY CanaryInvSays, QueueInvSays, AgesInvSays
     DEF WatchersInv, MonitorInv, AlertInv, WatchersTypeOK
<1>2. QED
  BY <1>1, WatchersHold, PTL

\* BackgroundWorkPaced: the monitors and the canary launch one worker at a time
\* and no sooner than their interval after the last; a budget that was low
\* HitThreshold times keeps probes SkipTicks ticks apart; and a streak of bad
\* samples ends by a good one or a panic only.
THEOREM WorkIsPaced == WatchersSpec => BackgroundWorkPaced
<1>1. WatchersInit => Flight!Init /\ CanaryFlight!Init
  BY WatchersInitInv
<1>2. WatchersInv /\ [WatchersNext]_watcherVars => [Flight!Next]_<<flight, attempt>>
  BY WatchersStepInv DEF WatchersStep, FlightSteps
<1>3. WatchersInv /\ [WatchersNext]_watcherVars => [CanaryFlight!Next]_<<thread, last>>
  BY WatchersStepInv DEF WatchersStep
<1>4. WatchersInv /\ [WatchersNext]_watcherVars => [ProbesRare]_monitorVars
  BY WatchersStepInv DEF WatchersStep
<1>5. WatchersInv /\ [WatchersNext]_watcherVars => [StreakKept]_monitorVars
  BY WatchersStepInv DEF WatchersStep
<1>6. WatchersSpec => FlightPaced
  BY <1>1, <1>2, WatchersHold, PTL DEF WatchersSpec, watcherVars, FlightPaced, Flight!Spec
<1>7. WatchersSpec => CanaryPaced
  BY <1>1, <1>3, WatchersHold, PTL DEF WatchersSpec, watcherVars, CanaryPaced, CanaryFlight!Spec
<1>8. WatchersSpec => LowBudgetProbesAreRare
  BY <1>4, WatchersHold, PTL DEF WatchersSpec, watcherVars, LowBudgetProbesAreRare, ProbesRare
<1>9. WatchersSpec => StreakSurvives
  BY <1>5, WatchersHold, PTL DEF WatchersSpec, watcherVars, StreakSurvives, StreakKept
<1>10. QED
  BY <1>6, <1>7, <1>8, <1>9 DEF BackgroundWorkPaced

\* CanaryPaced, CanaryDaemonState::maybe_check: a run of the canary is started
\* only when none is in flight, and check_interval after the last at the least.
THEOREM CanaryIsPaced == CanarySpec => CanaryPaced
  BY CanaryInitInv, CanaryStepInv, CanaryFlightInit, CanaryFlies, PTL
     DEF CanarySpec, CanaryPaced, CanaryFlight!Spec

\* DeliveriesHonest: one delivery of a key in a cooldown, whichever thread and
\* transport it takes, and a log beside an external channel is no delivery.
THEOREM DeliveriesAreHonest == WatchersSpec => DeliveriesHonest
<1>1. WatchersInv /\ [WatchersNext]_watcherVars => [HeardOnce]_alertVars
  BY WatchersStepInv DEF WatchersStep
<1>2. WatchersInv /\ [WatchersNext]_watcherVars => [LogCountsNot]_alertVars
  BY WatchersStepInv DEF WatchersStep
<1>3. WatchersSpec => OneDeliveryPerCooldown
  BY <1>1, WatchersHold, PTL DEF WatchersSpec, watcherVars, OneDeliveryPerCooldown, HeardOnce
<1>4. WatchersSpec => LogMasksNothing
  BY <1>2, WatchersHold, PTL DEF WatchersSpec, watcherVars, LogMasksNothing, LogCountsNot
<1>5. QED
  BY <1>3, <1>4 DEF DeliveriesHonest

\* SilenceIsGood, should_alert: a canary that ends without an alert saw its run
\* completed with success, by a runner of this fleet that started within the
\* objective, counted by GitHub's clock from the creation of the run.
THEOREM SilenceIsTrue == WatchersSpec => []SilenceIsGood
<1>1. WatchersInv => SilenceIsGood
  BY CanaryInvSays DEF WatchersInv
<1>2. QED
  BY <1>1, WatchersHold, PTL

\* SamplesTruthful, fetch_capped_queue_snapshot and queue_stats: whatever is
\* queued, started or cancelled while its pages and jobs are read, no sample takes
\* the queue for empty when it is not, and one that is not marked as capped hides
\* no long wait and no idle runner.  Of capped samples it says no more than that:
\* they may leave out the oldest runs, which the run DroppedOldest shows.  Over
\* every month, leap year and century the waits reported are those of the jobs.
THEOREM SamplesAreTruthful == WatchersSpec => []SamplesTruthful
<1>1. WatchersInv => SamplesTruthful
  BY QueueInvSays, AgesInvTrue DEF WatchersInv, SamplesTruthful
<1>2. QED
  BY <1>1, WatchersHold, PTL
=============================================================================
