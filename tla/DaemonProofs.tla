---------------------------- MODULE DaemonProofs ----------------------------
(***************************************************************************)
(* Proofs about the serve loop, the files of the state directory and the   *)
(* listing of runners, and about the composition of the machines of the    *)
(* daemon's main thread.                                                   *)
(***************************************************************************)
EXTENDS MCDaemon, HostProofs, Integers

-----------------------------------------------------------------------------
(* ServeLoop                                                               *)

LoopTyped ==
  /\ pc \in {"top", "middle", "sleep", "drain", "stopped"}
  /\ stop \in BOOLEAN /\ pending \in BOOLEAN /\ immediate \in BOOLEAN
  /\ alive \in 0..Count /\ ready \in 0..alive
  /\ streak \in 0..(2 * Threshold)
  /\ ceilings \in [n : 0..Threshold, age : 0..NoShortfall]
  /\ idle \in 0..DeadmanAfter
  /\ decision \in Decisions
  /\ alerts \subseteq {"ensure", "settling", "selftest"}

\* An episode was started or continued by the last decision, has polls left,
\* and is younger than its ceiling until it sleeps.
EpisodeHolds ==
  settling # NoEpisode =>
    /\ settling \in [age : Nat, attempts : Nat, best : 0..Count]
    /\ settling.attempts < MaxPolls
    /\ settling.age < MaxSettle + PollTick
    /\ pc \in {"middle", "sleep"} =>
         decision \in {"StartSettling", "Continue"} /\ settling.age < MaxSettle

LoopInv == LoopTyped /\ EpisodeHolds

NoDoubtForgotten == pending /\ ~pending' => ready = Count /\ settling # NoEpisode

LoopConstants ==
  /\ Count \in Nat /\ PollTick \in Nat /\ MaxPolls \in Nat /\ MaxSettle \in Nat
  /\ Sustain \in Nat /\ Threshold \in Nat /\ DeadmanAfter \in Nat /\ PassTime \in Nat
  /\ ServeTick \in Nat /\ RestartNap \in Nat /\ ProbeBudget \in Nat
  /\ MaxPolls > 0 /\ MaxSettle > 0 /\ PollTick > 0

LEMMA LoopNumbers == LoopConstants
  BY ConstantsAssumption DEF LoopConstants

Ceilings == [n : 0..Threshold, age : 0..NoShortfall]

LEMMA CappedIsBelow ==
  ASSUME NEW n \in Nat, NEW cap \in Nat
  PROVE  AtMost(n, cap) \in 0..cap
  BY DEF AtMost

LEMMA CeilingsKept ==
  ASSUME ceilings \in Ceilings, NEW d \in Nat
  PROVE  /\ AgedCeilings(d) \in Ceilings
         /\ \A c \in Ceilings : RecordedCeiling(c) \in Ceilings
         /\ Recovery \in Ceilings
<1>1. /\ 0 \in 0..Threshold /\ 0 \in 0..NoShortfall /\ NoShortfall \in 0..NoShortfall
      /\ \A n \in 0..Sustain : n \in 0..NoShortfall
  BY LoopNumbers DEF LoopConstants, NoShortfall
<1>2. AtMost(ceilings.age + d, Sustain) \in 0..NoShortfall
  <2>1. ceilings.age + d \in Nat /\ Sustain \in Nat
    BY LoopNumbers DEF LoopConstants, Ceilings, NoShortfall
  <2>2. QED
    BY <1>1, <2>1, CappedIsBelow
<1>3. \A c \in Ceilings : AtMost(c.n + 1, Threshold) \in 0..Threshold
  <2> TAKE c \in Ceilings
  <2>1. c.n + 1 \in Nat /\ Threshold \in Nat
    BY LoopNumbers DEF LoopConstants, Ceilings
  <2>2. QED
    BY <2>1, CappedIsBelow
<1>4. AgedCeilings(d) \in Ceilings
  BY <1>2 DEF AgedCeilings, Ceilings
<1>5. \A c \in Ceilings : RecordedCeiling(c) \in Ceilings
  BY <1>1, <1>3 DEF RecordedCeiling, Ceilings
<1>6. Recovery \in Ceilings
  BY <1>1 DEF Recovery, Ceilings
<1>7. QED
  BY <1>4, <1>5, <1>6

LEMMA LoopInitInv == Init => LoopInv
<1> SUFFICES ASSUME Init
             PROVE  LoopInv
  OBVIOUS
<1>1. /\ 0 \in 0..(2 * Threshold) /\ 0 \in 0..DeadmanAfter /\ 0 \in 0..Threshold
      /\ NoShortfall \in 0..NoShortfall
  BY LoopNumbers DEF LoopConstants, NoShortfall
<1>2. ceilings \in [n : 0..Threshold, age : 0..NoShortfall]
  BY <1>1 DEF Init, Recovery
<1>3. LoopTyped
  BY <1>1, <1>2 DEF Init, LoopTyped, Decisions, EnsureDecisions
<1>4. QED
  BY <1>3 DEF Init, LoopInv, EpisodeHolds

\* What every outcome of a reconciliation leaves.
LEMMA ConcludeKeeps ==
  ASSUME LoopInv, Reconciling, NEW o, Conclude(o),
         o.short \in 0..Count, alive' \in 0..Count, ready' \in 0..alive'
  PROVE  LoopInv' /\ NoDoubtForgotten
<1> DEFINE raw == SuccessDecision(o)
           d == PendingDecision(raw)
           c == AgedCeilings(PassTime)
<1>1. d \in EnsureDecisions /\ (d = "Recovered" => ~pending)
  <2>1. raw \in EnsureDecisions
    BY DEF SuccessDecision, EnsureDecisions
  <2>2. QED
    BY <2>1 DEF PendingDecision, EnsureDecisions
<1>2. c \in Ceilings /\ RecordedCeiling(c) \in Ceilings /\ Recovery \in Ceilings
  BY LoopNumbers, CeilingsKept DEF LoopConstants, LoopInv, LoopTyped, Ceilings
<1>3. StreakAfter(o) \in 0..(2 * Threshold)
  <2>1. streak \in 0..(2 * Threshold)
    BY DEF LoopInv, LoopTyped
  <2>2. streak + 1 \in Nat /\ 2 * Threshold \in Nat /\ 0 \in 0..(2 * Threshold)
    BY <2>1, LoopNumbers DEF LoopConstants
  <2>3. ASSUME NEW cap \in Nat
        PROVE  AtMost(streak + 1, cap) \in 0..cap
    <3>1. streak + 1 \in Nat
      BY <2>2
    <3>2. QED
      BY <3>1, CappedIsBelow
  <2>4. AtMost(streak + 1, 2 * Threshold) \in 0..(2 * Threshold)
    BY <2>2, <2>3
  <2>5. QED
    BY <2>1, <2>2, <2>4 DEF StreakAfter
<1>4. /\ AtMost(idle + PassTime, DeadmanAfter) \in 0..DeadmanAfter
      /\ 0 \in 0..DeadmanAfter
  <2>1. idle + PassTime \in Nat /\ DeadmanAfter \in Nat /\ 0 \in 0..DeadmanAfter
    BY LoopNumbers DEF LoopConstants, LoopInv, LoopTyped
  <2>2. AtMost(idle + PassTime, DeadmanAfter) \in 0..DeadmanAfter
    BY <2>1, CappedIsBelow
  <2>3. QED
    BY <2>1, <2>2
<1>5. StartsFrom(raw, o) \in 0..Count
  BY LoopNumbers DEF LoopConstants, StartsFrom
<1>6. /\ decision' = d /\ immediate' = Immediate(d) /\ streak' = StreakAfter(o)
      /\ ceilings' \in {Recovery, RecordedCeiling(c), c}
      /\ settling' = IF d = "StartSettling"
                     THEN [age |-> 0, attempts |-> 0, best |-> StartsFrom(raw, o)]
                     ELSE NoEpisode
      /\ pending' = IF d = "Recovered" THEN FALSE
                    ELSE IF d = "AdmissionPaused" THEN pending ELSE TRUE
      /\ idle' \in {0, AtMost(idle + PassTime, DeadmanAfter)}
      /\ alerts' \subseteq {"ensure", "settling", "selftest"}
      /\ pc' = "middle" /\ stop' = stop
  BY DEF Conclude, EnsureAlert
<1>7. LoopTyped'
  <2>1. ceilings' \in [n : 0..Threshold, age : 0..NoShortfall]
    BY <1>2, <1>6 DEF Ceilings
  <2>2. decision' \in Decisions
    BY <1>1, <1>6 DEF Decisions
  <2>3. immediate' \in BOOLEAN
    BY <1>6 DEF Immediate
  <2> HIDE DEF raw, d, c
  <2>5. pending' \in BOOLEAN /\ stop' \in BOOLEAN
    BY <1>6 DEF LoopInv, LoopTyped
  <2>4. QED
    BY <1>3, <1>4, <1>6, <2>1, <2>2, <2>3, <2>5 DEF LoopTyped
<1>8. EpisodeHolds'
  <2>1. CASE d = "StartSettling"
    <3>1. settling' = [age |-> 0, attempts |-> 0, best |-> StartsFrom(raw, o)]
          /\ decision' = "StartSettling"
      BY <1>6, <2>1
    <3>2. settling' \in [age : Nat, attempts : Nat, best : 0..Count]
      BY <1>5, <3>1
    <3>3. 0 < MaxPolls /\ 0 < MaxSettle + PollTick /\ 0 < MaxSettle
      BY LoopNumbers DEF LoopConstants
    <3>4. QED
      BY <3>1, <3>2, <3>3 DEF EpisodeHolds
  <2>2. CASE d # "StartSettling"
    BY <1>6, <2>2 DEF EpisodeHolds
  <2>3. QED
    BY <2>1, <2>2
<1>9. NoDoubtForgotten
  BY <1>1, <1>6 DEF NoDoubtForgotten
<1>10. QED
  BY <1>7, <1>8, <1>9 DEF LoopInv

\* What every decision of a poll leaves.
LEMMA SettleKeeps ==
  ASSUME LoopInv, Polling, NEW d \in PollDecisions, NEW e, NEW took \in Nat,
         Settle(d, e, took),
         d = "Settled" => ready = Count,
         d = "Continue" => /\ e \in [age : Nat, attempts : Nat, best : 0..Count]
                           /\ e.attempts < MaxPolls /\ e.age < MaxSettle
  PROVE  LoopInv' /\ NoDoubtForgotten
<1> DEFINE c == AgedCeilings(took)
<1>1. c \in Ceilings /\ RecordedCeiling(c) \in Ceilings /\ Recovery \in Ceilings
  BY CeilingsKept DEF LoopInv, LoopTyped, Ceilings
<1>2. AtMost(idle + took, DeadmanAfter) \in 0..DeadmanAfter
  <2>1. idle + took \in Nat /\ DeadmanAfter \in Nat
    BY LoopNumbers DEF LoopConstants, LoopInv, LoopTyped
  <2>2. QED
    BY <2>1, CappedIsBelow
<1>3. /\ decision' = d
      /\ settling' = IF d = "Continue" THEN e ELSE NoEpisode
      /\ pending' = CASE d = "Settled" -> FALSE
                      [] d = "Ceiling" -> TRUE
                      [] OTHER -> pending
      /\ ceilings' \in {Recovery, RecordedCeiling(c), c}
      /\ idle' = AtMost(idle + took, DeadmanAfter)
      /\ alerts' \subseteq {"ensure", "settling", "selftest"}
      /\ pc' = "middle" /\ UNCHANGED <<stop, alive, ready, immediate, streak>>
  BY DEF Settle, fleet, PollDecisions
<1>4. LoopTyped'
  <2>1. ceilings' \in [n : 0..Threshold, age : 0..NoShortfall]
    BY <1>1, <1>3 DEF Ceilings
  <2>2. decision' \in Decisions /\ pending' \in BOOLEAN
    BY <1>3 DEF Decisions, PollDecisions, LoopInv, LoopTyped
  <2> HIDE DEF c
  <2>3. QED
    BY <1>2, <1>3, <2>1, <2>2 DEF LoopInv, LoopTyped
<1>5. EpisodeHolds'
  <2>1. CASE d = "Continue"
    <3>1. e.age < MaxSettle + PollTick
      BY <2>1, LoopNumbers DEF LoopConstants
    <3>2. QED
      BY <1>3, <2>1, <3>1 DEF EpisodeHolds
  <2>2. CASE d # "Continue"
    BY <1>3, <2>2 DEF EpisodeHolds
  <2>3. QED
    BY <2>1, <2>2
<1>6. NoDoubtForgotten
  BY <1>3 DEF NoDoubtForgotten, Polling, PollDecisions
<1>7. QED
  BY <1>4, <1>5, <1>6 DEF LoopInv

LEMMA LoopStepInv == LoopInv /\ [Next]_vars => LoopInv' /\ NoDoubtForgotten
<1> SUFFICES ASSUME LoopInv, [Next]_vars
             PROVE  LoopInv' /\ NoDoubtForgotten
  OBVIOUS
<1>n. LoopConstants
  BY LoopNumbers
<1>t. alive \in 0..Count /\ ready \in 0..alive /\ Count \in Nat
  BY <1>n DEF LoopInv, LoopTyped, LoopConstants
<1>1. CASE EnsureRefused
  <2>1. PICK short \in {Count, Count - alive} :
           Conclude(Outcome(TRUE, FALSE, FALSE, FALSE, FALSE, short))
    BY <1>1 DEF EnsureRefused
  <2>2. short \in 0..Count
    BY <1>t
  <2>3. UNCHANGED <<alive, ready>> /\ Reconciling
    BY <1>1 DEF EnsureRefused, fleet
  <2>4. QED
    BY <1>t, <2>1, <2>2, <2>3, ConcludeKeeps DEF Outcome
<1>2. CASE EnsureFull
  BY <1>2, <1>t, ConcludeKeeps DEF EnsureFull, fleet, Outcome
<1>3. CASE EnsureRefills
  <2>1. PICK gone \in 0..alive, started \in 0..(Count - alive) :
        \E n \in 0..(alive - gone + started) :
        \E unread \in IF "probe" \in Faults THEN BOOLEAN ELSE {FALSE},
           held \in IF "pause" \in Faults THEN BOOLEAN ELSE {FALSE},
           failed \in IF "start" \in Faults /\ started < Count - alive
                      THEN BOOLEAN ELSE {FALSE},
           freed \in IF alive - gone + started < Count THEN BOOLEAN ELSE {FALSE} :
          /\ alive' = alive - gone + started
          /\ ready' = n
          /\ Conclude(Outcome(held, failed, unread, gone > 0, freed,
                              Count - (IF unread THEN alive' ELSE n)))
    BY <1>3 DEF EnsureRefills
  <2>2. PICK n \in 0..(alive - gone + started) :
        \E unread, held, failed, freed :
          /\ alive' = alive - gone + started
          /\ ready' = n
          /\ Conclude(Outcome(held, failed, unread, gone > 0, freed,
                              Count - (IF unread THEN alive' ELSE n)))
    BY <2>1
  <2>8. PICK unread, held, failed, freed :
          /\ alive' = alive - gone + started
          /\ ready' = n
          /\ Conclude(Outcome(held, failed, unread, gone > 0, freed,
                              Count - (IF unread THEN alive' ELSE n)))
    BY <2>2
  <2> DEFINE o == Outcome(held, failed, unread, gone > 0, freed,
                          Count - (IF unread THEN alive' ELSE n))
  <2>3. alive' \in 0..Count /\ ready' \in 0..alive'
    BY <1>t, <2>8
  <2>4. Count - (IF unread THEN alive' ELSE n) \in 0..Count
    BY <1>t, <2>8, <2>3
  <2>5. o.short \in 0..Count
    BY <2>4 DEF Outcome
  <2>6. Conclude(o) /\ Reconciling
    BY <1>3, <2>8 DEF EnsureRefills
  <2> HIDE DEF o
  <2>7. QED
    BY <2>3, <2>5, <2>6, ConcludeKeeps
<1>4. CASE EnsureFails
  <2>1. /\ pc' = "middle" /\ settling = NoEpisode
        /\ UNCHANGED <<stop, settling, pending>>
        /\ alive' \in alive..Count /\ ready' = ready
        /\ streak' = AtMost(streak + 1, 2 * Threshold)
        /\ decision' \in {"Failed", "Restarted"} /\ immediate' = FALSE
        /\ ceilings' = AgedCeilings(PassTime)
        /\ idle' = AtMost(idle + PassTime, DeadmanAfter)
        /\ alerts' \subseteq {"ensure"}
    BY <1>4 DEF EnsureFails, Reconciling, EnsureAlert
  <2>2. ceilings' \in [n : 0..Threshold, age : 0..NoShortfall]
    BY <1>n, <2>1, CeilingsKept DEF LoopConstants, LoopInv, LoopTyped, Ceilings
  <2>3. streak' \in 0..(2 * Threshold) /\ idle' \in 0..DeadmanAfter
    <3>1. streak + 1 \in Nat /\ 2 * Threshold \in Nat /\ idle + PassTime \in Nat
          /\ DeadmanAfter \in Nat
      BY <1>n DEF LoopConstants, LoopInv, LoopTyped
    <3>2. QED
      BY <2>1, <3>1, CappedIsBelow
  <2>4. alive' \in 0..Count /\ ready' \in 0..alive'
    BY <1>t, <2>1
  <2>5. LoopTyped'
    BY <2>1, <2>2, <2>3, <2>4 DEF LoopInv, LoopTyped, Decisions
  <2>6. QED
    BY <2>1, <2>5 DEF LoopInv, EpisodeHolds, NoDoubtForgotten
<1>5. CASE Poll
  <2>1. PICK took \in 0..ProbeBudget, absent \in BOOLEAN :
          LET e == AgedEpisode(took)
          IN  Settle(Observed(e, ready, absent),
                     [e EXCEPT !.attempts = @ + 1, !.best = IF ready > @ THEN ready ELSE @], took)
    BY <1>5 DEF Poll
  <2> DEFINE e == AgedEpisode(took)
             d == Observed(e, ready, absent)
             f == [e EXCEPT !.attempts = @ + 1, !.best = IF ready > @ THEN ready ELSE @]
  <2>2. Polling /\ settling # NoEpisode /\ pc = "top" /\ took \in Nat
    BY <1>5, <1>n DEF Poll, Polling, LoopConstants
  <2>3. settling \in [age : Nat, attempts : Nat, best : 0..Count]
    BY <2>2 DEF LoopInv, EpisodeHolds
  <2>4. e \in [age : Nat, attempts : Nat, best : 0..Count]
    BY <2>2, <2>3 DEF AgedEpisode
  <2> HIDE DEF e
  <2>5. d \in PollDecisions
    BY DEF Observed, PollDecisions
  <2>6. d = "Settled" => ready = Count
    BY <1>t DEF Observed
  <2>7. d = "Continue" => e.attempts + 1 < MaxPolls /\ e.age < MaxSettle
    BY <1>n, <2>4 DEF Observed, LoopConstants
  <2>8. f \in [age : Nat, attempts : Nat, best : 0..Count]
        /\ f.attempts = e.attempts + 1 /\ f.age = e.age
    <3>1. (IF ready > e.best THEN ready ELSE e.best) \in 0..Count
      BY <1>t, <2>4
    <3>2. e.attempts + 1 \in Nat
      BY <2>4
    <3>3. QED
      BY <2>4, <3>1, <3>2
  <2>9. Settle(d, f, took)
    BY <2>1 DEF e
  <2> HIDE DEF d, f
  <2>10. QED
    BY <2>2, <2>5, <2>6, <2>7, <2>8, <2>9, SettleKeeps
<1>6. CASE PollFails
  BY <1>6, <1>n, SettleKeeps DEF PollFails, PollDecisions, LoopConstants
<1>7. ASSUME Leave \/ Drain \/ Signal \/ Exit \/ Listen
      PROVE  LoopInv' /\ NoDoubtForgotten
  <2>1. /\ UNCHANGED <<settling, pending, immediate, streak, ceilings, idle, decision, alerts>>
        /\ pc' \in {"drain", "stopped", pc}
        /\ stop' \in BOOLEAN
    BY <1>7 DEF Leave, Drain, Signal, Exit, Listen, LoopInv, LoopTyped
  <2>2. alive' \in 0..Count /\ ready' \in 0..alive'
    <3>1. CASE UNCHANGED <<alive, ready>>
      BY <1>t, <3>1
    <3>2. CASE Exit
      <4>1. alive > 0 /\ alive' = alive - 1 /\ ready' \in {ready, ready - 1}
            /\ ready' >= 0 /\ ready' <= alive'
        BY <3>2 DEF Exit
      <4>2. alive' \in 0..Count /\ ready' \in Int
        BY <1>t, <4>1
      <4>3. QED
        BY <4>1, <4>2
    <3>3. CASE Listen
      BY <1>t, <3>3 DEF Listen
    <3>4. QED
      BY <1>7, <3>1, <3>2, <3>3 DEF Leave, Drain, Signal, fleet
  <2>3. LoopTyped'
    BY <2>1, <2>2 DEF LoopInv, LoopTyped
  <2>4. QED
    BY <2>1, <2>3 DEF LoopInv, EpisodeHolds, NoDoubtForgotten, LoopTyped
<1>8. CASE Check
  <2>1. /\ pc = "middle" /\ pc' = "sleep"
        /\ alerts' \subseteq {"selftest"} /\ idle' \in {0, idle}
        /\ UNCHANGED <<stop, alive, ready, settling, pending, immediate, streak, ceilings,
                       decision>>
    BY <1>8 DEF Check, fleet
  <2>2. 0 \in 0..DeadmanAfter
    BY <1>n DEF LoopConstants
  <2>3. LoopTyped'
    BY <2>1, <2>2 DEF LoopInv, LoopTyped
  <2>4. QED
    BY <2>1, <2>3 DEF LoopInv, EpisodeHolds, NoDoubtForgotten
<1>9. CASE Sleep
  <2>1. PICK rest \in IF stop THEN 0..Nap(decision) ELSE {Nap(decision)} :
          /\ settling' = AgedEpisode(rest)
          /\ ceilings' = AgedCeilings(rest)
          /\ idle' = AtMost(idle + rest, DeadmanAfter)
    BY <1>9 DEF Sleep
  <2>2. Nap(decision) \in Nat
        /\ (decision \in {"StartSettling", "Continue"} => Nap(decision) = PollTick)
    BY <1>n DEF Nap, LoopConstants, LoopInv, LoopTyped, Decisions, EnsureDecisions,
       PollDecisions
  <2>3. rest \in Nat /\ rest <= Nap(decision)
    BY <2>2
  <2>4. /\ pc = "sleep" /\ pc' = "top" /\ alerts' = {}
        /\ UNCHANGED <<stop, alive, ready, pending, immediate, streak, decision>>
    BY <1>9 DEF Sleep, fleet
  <2>5. ceilings' \in [n : 0..Threshold, age : 0..NoShortfall]
    BY <2>1, <2>3, CeilingsKept DEF LoopInv, LoopTyped, Ceilings
  <2>6. idle' \in 0..DeadmanAfter
    <3>1. idle + rest \in Nat /\ DeadmanAfter \in Nat
      BY <1>n, <2>3 DEF LoopConstants, LoopInv, LoopTyped
    <3>2. QED
      BY <2>1, <3>1, CappedIsBelow
  <2>7. LoopTyped'
    BY <2>4, <2>5, <2>6 DEF LoopInv, LoopTyped
  <2>8. EpisodeHolds'
    <3>1. CASE settling = NoEpisode
      BY <2>1, <3>1 DEF AgedEpisode, EpisodeHolds
    <3>2. CASE settling # NoEpisode
      <4>1. /\ settling \in [age : Nat, attempts : Nat, best : 0..Count]
            /\ settling.attempts < MaxPolls /\ settling.age < MaxSettle
            /\ Nap(decision) = PollTick
        BY <2>2, <2>4, <3>2 DEF LoopInv, EpisodeHolds
      <4>2. settling' = [settling EXCEPT !.age = @ + rest]
        BY <2>1, <3>2 DEF AgedEpisode
      <4>3. settling.age + rest \in Nat /\ settling.age + rest < MaxSettle + PollTick
        BY <1>n, <2>3, <4>1 DEF LoopConstants
      <4>4. /\ settling' \in [age : Nat, attempts : Nat, best : 0..Count]
            /\ settling'.age = settling.age + rest /\ settling'.attempts = settling.attempts
        BY <4>1, <4>2, <4>3
      <4>5. QED
        BY <2>4, <4>1, <4>3, <4>4 DEF EpisodeHolds
    <3>3. QED
      BY <3>1, <3>2
  <2>9. QED
    BY <2>4, <2>7, <2>8 DEF LoopInv, NoDoubtForgotten
<1>10. CASE UNCHANGED vars
  BY <1>10 DEF vars, LoopInv, LoopTyped, EpisodeHolds, NoDoubtForgotten
<1>11. QED
  BY <1>1, <1>2, <1>3, <1>4, <1>5, <1>6, <1>7, <1>8, <1>9, <1>10
     DEF Next, Loop, Ensure, Stopped

LEMMA LoopInvHolds == LoopInv => TypeOK /\ EpisodesEnd
<1> SUFFICES ASSUME LoopInv
             PROVE  TypeOK /\ EpisodesEnd
  OBVIOUS
<1>n. LoopConstants
  BY LoopNumbers
<1>1. settling \in [age : 0..(MaxSettle + PollTick + ProbeBudget), attempts : 0..MaxPolls,
                    best : 0..(Count + 1)]
  <2>1. CASE settling = NoEpisode
    <3>1. 0 \in 0..(MaxSettle + PollTick + ProbeBudget) /\ 0 \in 0..MaxPolls
          /\ Count + 1 \in 0..(Count + 1)
      BY <1>n DEF LoopConstants
    <3>2. QED
      BY <2>1, <3>1 DEF NoEpisode
  <2>2. CASE settling # NoEpisode
    <3>1. /\ settling \in [age : Nat, attempts : Nat, best : 0..Count]
          /\ settling.attempts < MaxPolls /\ settling.age < MaxSettle + PollTick
      BY <2>2 DEF LoopInv, EpisodeHolds
    <3>2. /\ settling.age \in 0..(MaxSettle + PollTick + ProbeBudget)
          /\ settling.attempts \in 0..MaxPolls /\ settling.best \in 0..(Count + 1)
      BY <1>n, <3>1 DEF LoopConstants
    <3>3. QED
      BY <3>1, <3>2
  <2>3. QED
    BY <2>1, <2>2
<1>2. EpisodesEnd
  <2>1. settling # NoEpisode =>
          settling.age \in Nat /\ settling.age < MaxSettle + PollTick
          /\ settling.attempts < MaxPolls
    BY DEF LoopInv, EpisodeHolds
  <2>2. QED
    BY <1>n, <2>1 DEF EpisodesEnd, LoopConstants
<1>3. QED
  BY <1>1, <1>2 DEF LoopInv, LoopTyped, TypeOK

\* DoubtNeedsCount: readiness that is in doubt is only taken for proved by a
\* poll that finds every runner ready.
THEOREM DoubtIsKept == Spec => DoubtNeedsCount
  BY LoopInitInv, LoopStepInv, PTL DEF Spec, DoubtNeedsCount, NoDoubtForgotten

-----------------------------------------------------------------------------
(* StateFile                                                               *)

FileTyped ==
  /\ kind \in Kinds /\ file \in Contents /\ durable \in SUBSET Contents
  /\ scratch \in [Processes -> Contents]
  /\ at \in [Processes -> Points] /\ copy \in [Processes -> SUBSET Rows]

\* Only the holder of serve.lock is at work.
Exclusive == \A p \in Processes : at[p] # "idle" => lock = p

\* What the holder works on comes from the file as it still is.
CopyIsFresh ==
  \A p \in Processes :
    /\ at[p] = "loaded" => copy[p] = file.rows
    /\ at[p] \in {"writing", "written", "synced"} =>
         \E r \in Rows : copy[p] = Table!Flip(file.rows, r)
    /\ at[p] \in {"written", "synced"} => scratch[p] = Whole(copy[p])

\* Of the ledger, nothing older than the last saved version is left.
LedgerLasts ==
  kind = "ledger" => file.rows \in since /\ \A c \in durable : c.rows \in since

FileInv == FileTyped /\ Exclusive /\ CopyIsFresh /\ LedgerLasts

LEMMA Rowed ==
  /\ Torn \in Contents /\ Empty \in Contents /\ Missing \in Contents
  /\ Torn.rows = {} /\ Empty.rows = {} /\ Missing.rows = {}
  /\ \A t \in SUBSET Rows : Whole(t) \in Contents /\ Whole(t).rows = t
  /\ \A c \in Contents : c.rows \in SUBSET Rows
  BY DEF Contents, Whole, Torn, Empty, Missing

LEMMA FileInitInv == StateInit => FileInv /\ Table!Init
  BY Rowed
     DEF StateInit, FileInv, FileTyped, Exclusive, CopyIsFresh, LedgerLasts, Kinds,
         Points,
     Table!Init

\* A step maps to a step of the abstract table, or to a stutter.
StepIsTables == [Table!Next]_<<kind = "ledger", file.rows, since, losses, damages>>

LEMMA FileStepInv == FileInv /\ [StateNext]_stateVars => FileInv' /\ StepIsTables
<1> SUFFICES ASSUME FileInv, [StateNext]_stateVars
             PROVE  FileInv' /\ StepIsTables
  OBVIOUS
<1> USE DEF FileInv, StepIsTables
<1>1. ASSUME NEW p \in Processes, CommandStep(p)
      PROVE  FileInv' /\ StepIsTables
  <2> USE DEF Goto
  <2>1. CASE AcquireServeLock(p)
    <3>1. \A q \in Processes : at[q] = "idle"
      BY <2>1, StateFileAssumption DEF AcquireServeLock, LockFree, Exclusive
    <3>2. QED
      BY <2>1, <3>1
         DEF AcquireServeLock, FileTyped, Exclusive, CopyIsFresh, LedgerLasts, Points
  <2>2. CASE Load(p)
    <3>1. /\ file'.rows = file.rows
          /\ UNCHANGED <<kind, scratch, lock, since, losses, damages>>
      BY <2>2, Rowed DEF Load
    <3>2. file' \in Contents /\ durable' \in SUBSET Contents
          /\ (kind = "ledger" => UNCHANGED <<file, durable>>)
      BY <2>2, Rowed DEF Load, FileTyped
    <3>3. copy' = [copy EXCEPT ![p] = file.rows] /\ file.rows \in SUBSET Rows
          /\ at[p] = "held" /\ at' = [at EXCEPT ![p] = "loaded"]
      BY <2>2, Rowed DEF Load, FileTyped
    <3>4. FileTyped' /\ Exclusive'
      BY <3>1, <3>2, <3>3 DEF FileTyped, Exclusive, Points
    <3>5. CopyIsFresh'
      BY <3>1, <3>3 DEF FileTyped, CopyIsFresh, Exclusive
    <3>6. LedgerLasts'
      BY <3>1, <3>2 DEF LedgerLasts
    <3>7. QED
      BY <3>1, <3>4, <3>5, <3>6
  <2>3. CASE BeginWrite(p)
    <3>1. PICK r \in Rows : copy' = [copy EXCEPT ![p] = Table!Flip(copy[p], r)]
      BY <2>3 DEF BeginWrite, Table!Flip, FileTyped
    <3>2. /\ UNCHANGED <<kind, file, durable, lock, since, losses, damages>>
          /\ scratch' = [scratch EXCEPT ![p] = Torn]
          /\ at[p] = "loaded" /\ at' = [at EXCEPT ![p] = "writing"]
      BY <2>3 DEF BeginWrite, Written
    <3>3. Table!Flip(copy[p], r) \in SUBSET Rows
      BY DEF FileTyped, Table!Flip
    <3>4. FileTyped' /\ Exclusive' /\ LedgerLasts'
      BY <3>1, <3>2, <3>3, Rowed DEF FileTyped, Exclusive, LedgerLasts, Points
    <3>5. CopyIsFresh'
      BY <3>1, <3>2 DEF CopyIsFresh, FileTyped
    <3>6. QED
      BY <3>2, <3>4, <3>5
  <2>4. CASE EndWrite(p)
    <3>1. Whole(copy[p]) \in Contents
      BY Rowed DEF FileTyped
    <3>2. QED
      BY <2>4, <3>1 DEF EndWrite, FileTyped, Exclusive, CopyIsFresh, LedgerLasts, Points
  <2>5. CASE WriteFails(p) \/ SyncFile(p)
    BY <2>5
       DEF WriteFails, SyncFile, FileTyped, Exclusive, CopyIsFresh, LedgerLasts,
           Points
  <2>6. CASE Rename(p)
    <3>1. at[p] \in {"written", "synced"}
      BY <2>6 DEF Rename
    <3>2. PICK r \in Rows : copy[p] = Table!Flip(file.rows, r)
      BY <3>1 DEF CopyIsFresh
    <3>3. file' = Whole(copy[p]) /\ file'.rows = copy[p] /\ file' \in Contents
      BY <2>6, <3>1, Rowed DEF Rename, CopyIsFresh, FileTyped
    <3>4. /\ UNCHANGED <<kind, lock, copy, losses, damages>>
          /\ scratch' = [scratch EXCEPT ![p] = Missing]
          /\ durable' = durable \cup {file'} \cup Unflushed(p)
          /\ since' \in {{file'.rows}, since \cup {file'.rows}}
          /\ kind = "ledger" => since' = since \cup {file'.rows}
          /\ at' \in {[at EXCEPT ![p] = "renamed"], [at EXCEPT ![p] = "held"]}
      BY <2>6 DEF Rename
    <3>5. Unflushed(p) \subseteq Contents /\ (kind = "ledger" => Unflushed(p) = {})
      BY Rowed DEF Unflushed, Flushed
    <3>6. FileTyped' /\ Exclusive'
      BY <3>1, <3>3, <3>4, <3>5, Rowed DEF FileTyped, Exclusive, Points
    <3>7. CopyIsFresh'
      BY <3>1, <3>4 DEF CopyIsFresh, Exclusive, FileTyped
    <3>8. LedgerLasts'
      BY <3>4, <3>5 DEF LedgerLasts
    <3>9. Table!Update
      BY <3>2, <3>3, <3>4 DEF Table!Update
    <3>10. QED
      BY <3>6, <3>7, <3>8, <3>9 DEF Table!Next
  <2>7. CASE SyncDirectory(p)
    <3>1. Unflushed(p) \subseteq Contents /\ (kind = "ledger" => Unflushed(p) = {})
      BY Rowed DEF Unflushed, Flushed
    <3>2. Table!Save
      BY <2>7 DEF SyncDirectory, Table!Save
    <3>3. QED
      BY <2>7, <3>1, <3>2
         DEF SyncDirectory, FileTyped, Exclusive, CopyIsFresh, LedgerLasts, Points,
         Table!Next
  <2>8. CASE Return(p) \/ Kill(p)
    <3>1. UNCHANGED <<kind, file, durable, since, losses, damages>> /\ End(p)
          /\ at[p] # "idle"
      BY <2>8 DEF Return, Kill
    <3>2. QED
      BY <3>1, Rowed DEF End, FileTyped, Exclusive, CopyIsFresh, LedgerLasts, Points
  <2>9. QED
    BY <1>1, <2>1, <2>2, <2>3, <2>4, <2>5, <2>6, <2>7, <2>8 DEF CommandStep
<1>2. CASE WriteBack
  BY <1>2 DEF WriteBack, FileTyped, Exclusive, CopyIsFresh, LedgerLasts
<1>3. CASE PowerLoss
  <2>1. file' \in Contents /\ file'.rows \in SUBSET Rows
    BY <1>3, Rowed DEF PowerLoss, FileTyped
  <2>2. Table!PowerLoss
    BY <1>3, <2>1 DEF PowerLoss, LedgerLasts, Table!PowerLoss
  <2>3. QED
    BY <1>3, <2>1, <2>2, Rowed
       DEF PowerLoss, FileTyped, Exclusive, CopyIsFresh, LedgerLasts, Points,
       Table!Next
<1>4. CASE Damage
  <2>1. \A p \in Processes : at[p] = "idle"
    BY <1>4, StateFileAssumption DEF Damage, Exclusive
  <2>2. Table!Damage
    BY <1>4, Rowed DEF Damage, Table!Damage
  <2>3. QED
    BY <1>4, <2>1, <2>2, Rowed
       DEF Damage, FileTyped, Exclusive, CopyIsFresh, LedgerLasts, Table!Next
<1>5. CASE UNCHANGED stateVars
  BY <1>5 DEF stateVars, FileTyped, Exclusive, CopyIsFresh, LedgerLasts
<1>6. QED
  BY <1>1, <1>2, <1>3, <1>4, <1>5 DEF StateNext

\* A damaged file that is not taken for empty where it is: nobody works on
\* what he read before, and a loss of power does not undo the damage.
TornKept ==
  kind # "quarantine" /\ file = Torn =>
    durable = {Torn} /\ \A p \in Processes : at[p] \in {"idle", "held"}

KeepsDamage ==
  file = Torn /\ file' # Torn => kind = "quarantine" \/ (kind = "slots" /\ aside')

LEMMA TornIsNot == /\ \A t : Torn # Whole(t)
                   /\ Torn # Missing /\ Torn # Empty
  BY DEF Torn, Whole, Missing, Empty

LEMMA TornStep == FileInv /\ TornKept /\ [StateNext]_stateVars => TornKept' /\ KeepsDamage
<1> SUFFICES ASSUME FileInv, TornKept, [StateNext]_stateVars
             PROVE  TornKept' /\ KeepsDamage
  OBVIOUS
<1>t. at \in [Processes -> Points]
  BY DEF FileInv, FileTyped
<1>1. ASSUME NEW p \in Processes, CommandStep(p)
      PROVE  TornKept' /\ KeepsDamage
  <2>0. ASSUME UNCHANGED <<kind, file, durable>>,
               NEW pt \in {"idle", "held"}, at' = [at EXCEPT ![p] = pt]
        PROVE  TornKept' /\ KeepsDamage
    BY <1>t, <2>0 DEF TornKept, KeepsDamage
  <2>1. CASE AcquireServeLock(p)
    BY <2>0, <2>1 DEF AcquireServeLock, Goto
  <2>2. CASE Load(p)
    <3>1. CASE kind = "slots" /\ file = Torn
      BY <2>2, <3>1, TornIsNot DEF Load, TornKept, KeepsDamage
    <3>2. CASE ~(kind = "slots" /\ file = Torn)
      <4>1. UNCHANGED <<kind, file, durable>> /\ (kind = "quarantine" \/ file # Torn)
        BY <2>2, <3>2 DEF Load, FileInv, FileTyped, Kinds
      <4>2. QED
        BY <4>1 DEF TornKept, KeepsDamage
    <3>3. QED
      BY <3>1, <3>2
  <2>3. CASE BeginWrite(p) \/ EndWrite(p) \/ SyncFile(p)
    <3>1. UNCHANGED <<kind, file, durable>> /\ at[p] \in {"loaded", "writing", "written"}
      BY <2>3 DEF BeginWrite, Written, EndWrite, SyncFile
    <3>2. kind = "quarantine" \/ file # Torn
      BY <3>1 DEF TornKept
    <3>3. QED
      BY <3>1, <3>2 DEF TornKept, KeepsDamage
  <2>4. CASE WriteFails(p)
    BY <2>0, <2>4 DEF WriteFails, Goto
  <2>5. CASE Rename(p)
    <3>1. at[p] \in {"written", "synced"} /\ file' = scratch[p] /\ kind' = kind
      BY <2>5 DEF Rename
    <3>2. file' # Torn
      BY <3>1, TornIsNot DEF FileInv, CopyIsFresh
    <3>3. kind = "quarantine" \/ file # Torn
      BY <3>1 DEF TornKept
    <3>4. QED
      BY <3>1, <3>2, <3>3 DEF TornKept, KeepsDamage
  <2>6. CASE SyncDirectory(p)
    <3>1. UNCHANGED <<kind, file>> /\ at[p] = "renamed"
      BY <2>6 DEF SyncDirectory
    <3>2. kind = "quarantine" \/ file # Torn
      BY <3>1 DEF TornKept
    <3>3. QED
      BY <3>1, <3>2 DEF TornKept, KeepsDamage
  <2>7. CASE Return(p) \/ Kill(p)
    BY <2>0, <2>7 DEF Return, Kill, End, Goto
  <2>8. QED
    BY <1>1, <2>1, <2>2, <2>3, <2>4, <2>5, <2>6, <2>7 DEF CommandStep
<1>2. CASE WriteBack
  BY <1>2 DEF WriteBack, TornKept, KeepsDamage
<1>3. CASE PowerLoss
  <2>1. file' \in durable /\ durable' = {file'} /\ kind' = kind
        /\ at' = [p \in Processes |-> "idle"]
    BY <1>3 DEF PowerLoss
  <2>2. KeepsDamage
    BY <2>1 DEF TornKept, KeepsDamage
  <2>3. QED
    BY <2>1, <2>2 DEF TornKept
<1>4. CASE Damage
  <2>1. \A p \in Processes : at'[p] = "idle"
    BY <1>4, StateFileAssumption, <1>t DEF Damage, FileInv, Exclusive
  <2>2. QED
    BY <1>4, <2>1 DEF Damage, TornKept, KeepsDamage
<1>5. CASE UNCHANGED stateVars
  BY <1>5 DEF stateVars, TornKept, KeepsDamage
<1>6. QED
  BY <1>1, <1>2, <1>3, <1>4, <1>5 DEF StateNext

\* The rest of the file's state keeps its type.
FileRest ==
  /\ aside \in BOOLEAN /\ lock \in Processes \cup {Nobody} /\ since \in SUBSET SUBSET Rows
  /\ losses \in Nat /\ damages \in Nat /\ losses + damages <= MaxHarms

LEMMA FileRestInit == StateInit => FileRest /\ TornKept
<1>1. StateInit => FileRest
  <2>1. 0 \in Nat /\ 0 + 0 <= MaxHarms
    BY StateFileAssumption
  <2>2. {{}} \in SUBSET SUBSET Rows
    OBVIOUS
  <2>3. QED
    BY <2>1, <2>2 DEF StateInit, FileRest
<1>2. StateInit => TornKept
  BY TornIsNot DEF StateInit, TornKept
<1>3. QED
  BY <1>1, <1>2

LEMMA FileRestStep == FileInv /\ FileRest /\ [StateNext]_stateVars => FileRest'
<1> SUFFICES ASSUME FileInv, FileRest, [StateNext]_stateVars
             PROVE  FileRest'
  OBVIOUS
<1>t. file \in Contents /\ scratch \in [Processes -> Contents] /\ durable \in SUBSET Contents
  BY DEF FileInv, FileTyped
<1>1. ASSUME NEW p \in Processes, CommandStep(p)
      PROVE  FileRest'
  <2>1. aside' \in BOOLEAN
    BY <1>1 DEF FileRest, CommandStep, AcquireServeLock, Load, BeginWrite, EndWrite, WriteFails,
       SyncFile, Rename, SyncDirectory, Return, Kill
  <2>2. lock' \in Processes \cup {Nobody}
    BY <1>1 DEF FileRest, CommandStep, AcquireServeLock, Load, BeginWrite, EndWrite, WriteFails,
       SyncFile, Rename, SyncDirectory, Return, Kill, End
  <2>3. since' \in SUBSET SUBSET Rows
    <3>1. CASE Rename(p)
      <4>1. scratch[p].rows \in SUBSET Rows
        BY <1>t, Rowed
      <4>2. QED
        BY <3>1, <4>1 DEF FileRest, Rename
    <3>2. CASE SyncDirectory(p)
      <4>1. file.rows \in SUBSET Rows
        BY <1>t, Rowed
      <4>2. QED
        BY <3>2, <4>1 DEF FileRest, SyncDirectory
    <3>3. CASE ~Rename(p) /\ ~SyncDirectory(p)
      BY <1>1, <3>3 DEF FileRest, CommandStep, AcquireServeLock, Load, BeginWrite, EndWrite,
         WriteFails, SyncFile, Return, Kill
    <3>4. QED
      BY <3>1, <3>2, <3>3
  <2>4. UNCHANGED <<losses, damages>>
    BY <1>1 DEF CommandStep, AcquireServeLock, Load, BeginWrite, EndWrite, WriteFails,
       SyncFile, Rename, SyncDirectory, Return, Kill
  <2>5. QED
    BY <2>1, <2>2, <2>3, <2>4 DEF FileRest
<1>2. CASE WriteBack
  BY <1>2 DEF WriteBack, FileRest
<1>3. CASE PowerLoss
  <2>1. file'.rows \in SUBSET Rows
    BY <1>3, <1>t, Rowed DEF PowerLoss
  <2>2. losses' \in Nat /\ losses' + damages' <= MaxHarms /\ damages' \in Nat
    BY <1>3, StateFileAssumption DEF PowerLoss, FileRest
  <2>3. QED
    BY <1>3, <2>1, <2>2 DEF PowerLoss, FileRest
<1>4. CASE Damage
  <2>1. damages' \in Nat /\ losses' + damages' <= MaxHarms /\ losses' \in Nat
    BY <1>4, StateFileAssumption DEF Damage, FileRest
  <2>2. QED
    BY <1>4, <2>1 DEF Damage, FileRest
<1>5. CASE UNCHANGED stateVars
  BY <1>5 DEF stateVars, FileRest
<1>6. QED
  BY <1>1, <1>2, <1>3, <1>4, <1>5 DEF StateNext

LEMMA FileInvHolds == FileInv /\ FileRest => StateTypeOK
  BY DEF FileInv, FileTyped, FileRest, StateTypeOK

\* TableIsAtomic, save and load: updates that overlap are never lost, a killed
\* command leaves the old version or the new one, and of the ledger a loss of
\* power leaves none older than the one last reported saved.
THEOREM FileIsAtomicTable == StateSpec => TableIsAtomic
<1>1. QED
  BY FileInitInv, FileStepInv, PTL DEF StateSpec, TableIsAtomic, Table!Spec, StepIsTables

-----------------------------------------------------------------------------
(* RunnerListing                                                           *)

----------------------------------------------------------------------------
(* The listing of runners. *)

Injective(s) == \A i, j \in DOMAIN s : s[i] = s[j] => i = j

\* The runners of the first page's total: some set of as many, with those that
\* stayed among them.
CountedRunners(F) ==
  /\ IsFiniteSet(F) /\ Cardinality(F) = total
  /\ stayed \subseteq F
  /\ came = 0 => Members(registered) \subseteq F /\ Members(items) \subseteq F
  /\ went = 0 => stayed = F /\ F \subseteq Members(registered)

\* Runners that only go never bring a runner back to a page that was not read.
NoneTwice ==
  came = 0 =>
    /\ Injective(items)
    /\ \A i \in DOMAIN registered :
         registered[i] \in Members(items) => i <= read * PageSize

\* Runners that only come push none to a page that was read.
NonePassed ==
  went = 0 =>
    \A i \in DOMAIN registered :
      registered[i] \in stayed /\ i <= read * PageSize => registered[i] \in Members(items)

ListingTyped ==
  /\ registered \in Seq(Runners) /\ Injective(registered)
  /\ items \in Seq(Runners) /\ read \in Nat
  /\ total \in 0..Cardinality(Runners) \cup {NoTotal}
  /\ stayed \subseteq Runners
  /\ came \in 0..MaxChurn /\ went \in 0..MaxChurn
  /\ verdict \in Verdicts

ListingInv ==
  /\ ListingTyped
  /\ read = 0 => items = <<>> /\ came = 0 /\ went = 0 /\ verdict \in {"reading", "failed"}
  /\ read > 0 /\ total # NoTotal => \E F : CountedRunners(F)
  /\ read > 0 => NoneTwice /\ NonePassed
  /\ verdict = "complete" => total = NoTotal \/ total = Len(items)

LEMMA MembersOf ==
  ASSUME NEW S, NEW s \in Seq(S)
  PROVE  /\ Members(s) \subseteq S
         /\ IsFiniteSet(Members(s)) /\ Cardinality(Members(s)) \in Nat
         /\ Cardinality(Members(s)) <= Len(s)
         /\ Cardinality(Members(s)) = Len(s) <=> Injective(s)
<1>1. Len(s) \in Nat /\ DOMAIN s = 1..Len(s) /\ s \in [1..Len(s) -> S]
  OBVIOUS
<1>2. s \in Surjection(1..Len(s), Members(s))
  BY <1>1 DEF Surjection, Members
<1>3. IsFiniteSet(1..Len(s)) /\ Cardinality(1..Len(s)) = Len(s)
  <2>1. Cardinality(1..Len(s)) = IF 1 > Len(s) THEN 0 ELSE Len(s) - 1 + 1
    BY <1>1, FS_Interval
  <2>2. QED
    BY <1>1, <2>1, FS_Interval
<1>4. (s \in Injection(1..Len(s), Members(s))) <=> Injective(s)
  BY <1>1, <1>2 DEF Injection, Surjection, IsInjective, Injective
<1>5. IsFiniteSet(Members(s)) /\ Cardinality(Members(s)) <= Cardinality(1..Len(s))
      /\ (Cardinality(Members(s)) = Cardinality(1..Len(s))
          <=> s \in Injection(1..Len(s), Members(s)))
  BY <1>2, <1>3, FS_Surjection
<1>6. QED
  BY <1>1, <1>3, <1>4, <1>5, FS_CardinalityType DEF Members

LEMMA PageIs ==
  ASSUME NEW k \in Nat, registered \in Seq(Runners)
  PROVE  LET low  == k * PageSize
             high == IF (k + 1) * PageSize < Len(registered) THEN (k + 1) * PageSize
                     ELSE Len(registered)
         IN  /\ low \in Nat /\ high \in Nat /\ (k + 1) * PageSize = low + PageSize
             /\ Page(k) \in Seq(Runners)
             /\ Len(Page(k)) = IF low < high THEN high - low ELSE 0
             /\ \A i \in 1..Len(Page(k)) : Page(k)[i] = registered[low + i]
                                           /\ low + i \in 1..high
<1> DEFINE low == k * PageSize
           next == (k + 1) * PageSize
           high == IF next < Len(registered) THEN next ELSE Len(registered)
<1>1. PageSize \in Nat /\ low \in Nat /\ next \in Nat /\ next = low + PageSize
  BY ListingAssumption
<1>2. Page(k) = SubSeq(registered, low + 1, high)
  BY DEF Page
<1> HIDE DEF low, next
<1>3. high \in Nat /\ high <= Len(registered) /\ Len(registered) \in Nat
  BY <1>1
<1> HIDE DEF high
<1>4. /\ Page(k) \in Seq(Runners)
      /\ Len(Page(k)) = IF low < high THEN high - low ELSE 0
      /\ \A i \in 1..Len(Page(k)) : Page(k)[i] = registered[low + i]
  BY <1>1, <1>2, <1>3
<1>5. \A i \in 1..Len(Page(k)) : low + i \in 1..high
  BY <1>1, <1>3, <1>4
<1>6. QED
  BY <1>1, <1>3, <1>4, <1>5 DEF low, next, high

LEMMA JoinedLists ==
  ASSUME NEW s \in Seq(Runners), NEW t \in Seq(Runners)
  PROVE  /\ s \o t \in Seq(Runners) /\ Len(s \o t) = Len(s) + Len(t)
         /\ \A i \in 1..Len(s) : (s \o t)[i] = s[i]
         /\ \A i \in 1..Len(t) : (s \o t)[Len(s) + i] = t[i]
         /\ Members(s \o t) = Members(s) \cup Members(t)
<1>1. /\ s \o t \in Seq(Runners) /\ Len(s \o t) = Len(s) + Len(t)
      /\ \A i \in 1..Len(s) : (s \o t)[i] = s[i]
      /\ \A i \in 1..Len(t) : (s \o t)[Len(s) + i] = t[i]
      /\ DOMAIN s = 1..Len(s) /\ DOMAIN t = 1..Len(t) /\ Len(s) \in Nat /\ Len(t) \in Nat
      /\ DOMAIN (s \o t) = 1..(Len(s) + Len(t))
  OBVIOUS
<1>2. \A i \in 1..(Len(s) + Len(t)) : i \in 1..Len(s) \/ (i - Len(s) \in 1..Len(t)
                                                          /\ i = Len(s) + (i - Len(s)))
  BY <1>1
<1>3. \A i \in 1..Len(s) : i \in 1..(Len(s) + Len(t))
  BY <1>1
<1>4. \A i \in 1..Len(t) : Len(s) + i \in 1..(Len(s) + Len(t))
  BY <1>1
<1>5. Members(s \o t) \subseteq Members(s) \cup Members(t)
  BY <1>1, <1>2 DEF Members
<1>6. Members(s) \cup Members(t) \subseteq Members(s \o t)
  BY <1>1, <1>3, <1>4 DEF Members
<1>7. QED
  BY <1>1, <1>5, <1>6

LEMMA InjectiveTogether ==
  ASSUME NEW s \in Seq(Runners), NEW t \in Seq(Runners), Injective(s),
         \A i, j \in 1..Len(t) : t[i] = t[j] => i = j,
         \A r \in Members(t) : r \notin Members(s)
  PROVE  Injective(s \o t)
<1>1. /\ Len(s) \in Nat /\ Len(t) \in Nat /\ DOMAIN s = 1..Len(s) /\ DOMAIN t = 1..Len(t)
      /\ DOMAIN (s \o t) = 1..(Len(s) + Len(t))
  BY JoinedLists
<1>2. /\ \A i \in 1..Len(s) : (s \o t)[i] = s[i] /\ s[i] \in Members(s)
      /\ \A i \in 1..(Len(s) + Len(t)) : i > Len(s) =>
           i - Len(s) \in 1..Len(t) /\ (s \o t)[i] = t[i - Len(s)]
                                   /\ t[i - Len(s)] \in Members(t)
  <2>1. \A i \in 1..(Len(s) + Len(t)) : i > Len(s) =>
           i - Len(s) \in 1..Len(t) /\ i = Len(s) + (i - Len(s))
    BY <1>1
  <2>2. \A i \in 1..Len(t) : (s \o t)[Len(s) + i] = t[i] /\ t[i] \in Members(t)
    BY <1>1, JoinedLists DEF Members
  <2>3. \A i \in 1..Len(s) : (s \o t)[i] = s[i] /\ s[i] \in Members(s)
    BY <1>1, JoinedLists DEF Members
  <2>4. ASSUME NEW i \in 1..(Len(s) + Len(t)), i > Len(s)
        PROVE  i - Len(s) \in 1..Len(t) /\ (s \o t)[i] = t[i - Len(s)]
               /\ t[i - Len(s)] \in Members(t)
    <3>1. i - Len(s) \in 1..Len(t) /\ i = Len(s) + (i - Len(s))
      BY <2>1, <2>4
    <3>2. (s \o t)[Len(s) + (i - Len(s))] = t[i - Len(s)] /\ t[i - Len(s)] \in Members(t)
      BY <2>2, <3>1
    <3>3. QED
      BY <3>1, <3>2
  <2>5. QED
    BY <2>3, <2>4
<1>3. SUFFICES ASSUME NEW i \in 1..(Len(s) + Len(t)), NEW j \in 1..(Len(s) + Len(t)),
                      (s \o t)[i] = (s \o t)[j]
               PROVE  i = j
  BY <1>1 DEF Injective
<1>4. \A k \in 1..(Len(s) + Len(t)) : k \in 1..Len(s) \/ k > Len(s)
  BY <1>1
<1>5. CASE i \in 1..Len(s) /\ j \in 1..Len(s)
  BY <1>1, <1>2, <1>3, <1>5 DEF Injective
<1>6. CASE i > Len(s) /\ j > Len(s)
  <2>1. i - Len(s) = j - Len(s)
    BY <1>2, <1>3, <1>6
  <2>2. QED
    BY <1>1, <2>1
<1>7. CASE (i \in 1..Len(s) /\ j > Len(s)) \/ (j \in 1..Len(s) /\ i > Len(s))
  BY <1>2, <1>3, <1>7
<1>8. QED
  BY <1>4, <1>5, <1>6, <1>7

LEMMA WithIs ==
  ASSUME NEW s \in Seq(Runners), NEW i \in 1..(Len(s) + 1), NEW r \in Runners
  PROVE  /\ With(s, i, r) \in Seq(Runners)
         /\ Members(With(s, i, r)) = Members(s) \cup {r}
         /\ Injective(s) /\ r \notin Members(s) => Injective(With(s, i, r))
         /\ \A j \in DOMAIN With(s, i, r) :
              With(s, i, r)[j] # r =>
                \E l \in DOMAIN s : l <= j /\ s[l] = With(s, i, r)[j]
<1> DEFINE w == With(s, i, r)
<1>1. /\ Len(s) \in Nat /\ DOMAIN s = 1..Len(s) /\ i \in Nat
      /\ \A l \in 1..Len(s) : s[l] \in Runners
  OBVIOUS
<1>2. /\ DOMAIN w = 1..(Len(s) + 1)
      /\ \A j \in 1..(Len(s) + 1) :
           w[j] = IF j < i THEN s[j] ELSE IF j = i THEN r ELSE s[j - 1]
  BY DEF With
<1>3. \A j \in 1..(Len(s) + 1) : /\ j < i => j \in 1..Len(s)
                                 /\ j > i => j - 1 \in 1..Len(s)
  BY <1>1
<1>4. \A j \in 1..(Len(s) + 1) : w[j] \in Runners
  BY <1>1, <1>2, <1>3
<1>5. w \in Seq(Runners)
  <2>1. w = [j \in 1..(Len(s) + 1) |-> w[j]]
    BY <1>2 DEF With
  <2>2. Len(s) + 1 \in Nat
    BY <1>1
  <2> HIDE DEF w
  <2>3. QED
    BY <1>4, <2>1, <2>2
<1> HIDE DEF w
<1>6. \A j \in DOMAIN w : w[j] # r => \E l \in DOMAIN s : l <= j /\ s[l] = w[j]
  <2> SUFFICES ASSUME NEW j \in 1..(Len(s) + 1), w[j] # r
               PROVE  \E l \in DOMAIN s : l <= j /\ s[l] = w[j]
    BY <1>2
  <2>1. CASE j < i
    BY <1>1, <1>2, <1>3, <2>1
  <2>2. CASE j > i
    <3>1. j - 1 \in DOMAIN s /\ j - 1 <= j /\ s[j - 1] = w[j]
      BY <1>1, <1>2, <1>3, <2>2
    <3>2. QED
      BY <3>1
  <2>3. CASE j = i
    BY <1>2, <2>3
  <2>4. QED
    BY <1>1, <2>1, <2>2, <2>3
<1>7. \A l \in DOMAIN s : \E j \in DOMAIN w : w[j] = s[l]
  <2> SUFFICES ASSUME NEW l \in 1..Len(s)
               PROVE  \E j \in DOMAIN w : w[j] = s[l]
    BY <1>1
  <2>1. CASE l < i
    BY <1>1, <1>2, <2>1
  <2>2. CASE l >= i
    <3>1. l + 1 \in 1..(Len(s) + 1) /\ ~(l + 1 < i) /\ l + 1 # i /\ (l + 1) - 1 = l
      BY <1>1, <2>2
    <3>2. w[l + 1] = s[l]
      BY <1>2, <3>1
    <3>3. QED
      BY <1>2, <3>1, <3>2
  <2>3. QED
    BY <1>1, <2>1, <2>2
<1>8. w[i] = r /\ i \in DOMAIN w
  BY <1>1, <1>2
<1>9. Members(w) = Members(s) \cup {r}
  BY <1>6, <1>7, <1>8 DEF Members
<1>10. ASSUME Injective(s), r \notin Members(s)
       PROVE  Injective(w)
  <2> SUFFICES ASSUME NEW j \in 1..(Len(s) + 1), NEW l \in 1..(Len(s) + 1), w[j] = w[l], j < l
               PROVE  FALSE
    BY <1>1, <1>2 DEF Injective
  <2>1. \A m \in 1..Len(s) : s[m] # r
    BY <1>1, <1>10 DEF Members
  <2>2. \A m, n \in 1..Len(s) : s[m] = s[n] => m = n
    BY <1>1, <1>10 DEF Injective
  <2>3. CASE j = i
    BY <1>1, <1>2, <1>3, <2>1, <2>3
  <2>4. CASE l = i
    BY <1>1, <1>2, <1>3, <2>1, <2>4
  <2>5. CASE l < i
    BY <1>1, <1>2, <1>3, <2>2, <2>5
  <2>6. CASE j > i
    <3>1. j - 1 \in 1..Len(s) /\ l - 1 \in 1..Len(s) /\ s[j - 1] = s[l - 1]
      BY <1>1, <1>2, <1>3, <2>6
    <3>2. j - 1 = l - 1
      BY <2>2, <3>1
    <3>3. QED
      BY <1>1, <3>2
  <2>7. CASE j < i /\ l > i
    <3>1. j \in 1..Len(s) /\ l - 1 \in 1..Len(s) /\ s[j] = s[l - 1]
      BY <1>1, <1>2, <1>3, <2>7
    <3>2. j = l - 1
      BY <2>2, <3>1
    <3>3. QED
      BY <1>1, <2>7, <3>2
  <2>8. QED
    BY <1>1, <2>3, <2>4, <2>5, <2>6, <2>7
<1>11. QED
  BY <1>5, <1>6, <1>9, <1>10 DEF w

LEMMA WithoutIs ==
  ASSUME NEW s \in Seq(Runners), NEW i \in DOMAIN s
  PROVE  /\ Without(s, i) \in Seq(Runners)
         /\ Members(Without(s, i)) \subseteq Members(s)
         /\ Injective(s) => Injective(Without(s, i))
         /\ \A j \in DOMAIN Without(s, i) :
              \E l \in DOMAIN s : j <= l /\ s[l] = Without(s, i)[j]
<1> DEFINE w == Without(s, i)
<1>1. /\ Len(s) \in Nat /\ DOMAIN s = 1..Len(s) /\ i \in 1..Len(s)
      /\ \A l \in 1..Len(s) : s[l] \in Runners
  OBVIOUS
<1>2. /\ DOMAIN w = 1..(Len(s) - 1)
      /\ \A j \in 1..(Len(s) - 1) : w[j] = IF j < i THEN s[j] ELSE s[j + 1]
  BY DEF Without
<1>3. \A j \in 1..(Len(s) - 1) : j \in 1..Len(s) /\ j + 1 \in 1..Len(s)
  BY <1>1
<1>4. \A j \in 1..(Len(s) - 1) : w[j] \in Runners
  BY <1>1, <1>2, <1>3
<1>5. w \in Seq(Runners)
  <2>1. w = [j \in 1..(Len(s) - 1) |-> w[j]]
    BY <1>2 DEF Without
  <2>2. Len(s) - 1 \in Nat
    BY <1>1
  <2> HIDE DEF w
  <2>3. QED
    BY <1>4, <2>1, <2>2
<1> HIDE DEF w
<1>6. \A j \in DOMAIN w : \E l \in DOMAIN s : j <= l /\ s[l] = w[j]
  <2> SUFFICES ASSUME NEW j \in 1..(Len(s) - 1)
               PROVE  \E l \in DOMAIN s : j <= l /\ s[l] = w[j]
    BY <1>2
  <2>1. CASE j < i
    <3>1. j \in DOMAIN s /\ j <= j /\ s[j] = w[j]
      BY <1>1, <1>2, <1>3, <2>1
    <3>2. QED
      BY <3>1
  <2>2. CASE ~(j < i)
    <3>1. j + 1 \in DOMAIN s /\ j <= j + 1 /\ s[j + 1] = w[j]
      BY <1>1, <1>2, <1>3, <2>2
    <3>2. QED
      BY <3>1
  <2>3. QED
    BY <2>1, <2>2
<1>7. Members(w) \subseteq Members(s)
  BY <1>6 DEF Members
<1>8. ASSUME Injective(s)
      PROVE  Injective(w)
  <2> SUFFICES ASSUME NEW j \in 1..(Len(s) - 1), NEW l \in 1..(Len(s) - 1), w[j] = w[l], j < l
               PROVE  FALSE
    BY <1>1, <1>2 DEF Injective
  <2>1. \A m, n \in 1..Len(s) : s[m] = s[n] => m = n
    BY <1>1, <1>8 DEF Injective
  <2>2. CASE l < i
    BY <1>1, <1>2, <1>3, <2>1, <2>2
  <2>3. CASE ~(j < i)
    <3>1. s[j + 1] = s[l + 1] /\ j + 1 \in 1..Len(s) /\ l + 1 \in 1..Len(s)
      BY <1>1, <1>2, <1>3, <2>3
    <3>2. QED
      BY <1>1, <2>1, <3>1
  <2>4. CASE j < i /\ ~(l < i)
    <3>1. s[j] = s[l + 1] /\ j \in 1..Len(s) /\ l + 1 \in 1..Len(s)
      BY <1>1, <1>2, <1>3, <2>4
    <3>2. QED
      BY <1>1, <2>1, <3>1
  <2>5. QED
    BY <1>1, <2>2, <2>3, <2>4
<1>9. QED
  BY <1>5, <1>6, <1>7, <1>8 DEF w

LEMMA ListingInitInv == ListingInit => ListingInv
<1> SUFFICES ASSUME ListingInit
             PROVE  ListingInv
  OBVIOUS
<1>1. PICK n \in Nat : registered \in [1..n -> Runners]
  BY DEF ListingInit
<1>2. registered \in Seq(Runners) /\ Injective(registered)
  <2>1. registered \in Seq(Runners)
    BY <1>1
  <2>2. QED
    BY <2>1 DEF ListingInit, Injective
<1>3. 0 \in 0..MaxChurn
  BY ListingAssumption
<1>4. QED
  BY <1>2, <1>3 DEF ListingInit, ListingInv, ListingTyped, Verdicts

LEMMA FetchStepInv == ListingInv /\ FetchPage => ListingInv'
<1> SUFFICES ASSUME ListingInv, FetchPage
             PROVE  ListingInv'
  OBVIOUS
<1>t. ListingTyped /\ read \in Nat /\ registered \in Seq(Runners) /\ items \in Seq(Runners)
      /\ Injective(registered) /\ DOMAIN registered = 1..Len(registered)
      /\ Len(registered) \in Nat
  BY DEF ListingInv, ListingTyped
<1> DEFINE low == read * PageSize
           next == (read + 1) * PageSize
           high == IF next < Len(registered) THEN next ELSE Len(registered)
<1>1. /\ low \in Nat /\ high \in Nat /\ next = low + PageSize /\ PageSize \in Nat
      /\ Page(read) \in Seq(Runners)
      /\ Len(Page(read)) = IF low < high THEN high - low ELSE 0
      /\ \A i \in 1..Len(Page(read)) : Page(read)[i] = registered[low + i]
                                       /\ low + i \in 1..high
  BY <1>t, PageIs, ListingAssumption
<1>2. /\ verdict = "reading" /\ items' = items \o Page(read) /\ read' = read + 1
      /\ verdict' = IF LastPage(read) THEN Verdict(total', items') ELSE "reading"
      /\ UNCHANGED <<registered, came, went>>
  BY DEF FetchPage
<1>3. read' * PageSize = next
  BY <1>2
<1> HIDE DEF low, next
<1>4. /\ low \in Nat /\ next \in Nat /\ high \in Nat /\ Len(registered) \in Nat
      /\ high <= Len(registered) /\ high <= next /\ next \in Nat
      /\ (high = next \/ high = Len(registered))
  <2>1. low \in Nat /\ next \in Nat
    <3>1. low \in Nat /\ next = low + PageSize /\ PageSize \in Nat
      BY <1>1
    <3>2. QED
      BY <3>1
  <2>2. Len(registered) \in Nat
    BY <1>t
  <2>3. QED
    BY <2>1, <2>2 DEF high
<1>l. Len(Page(read)) = IF low < high THEN high - low ELSE 0
  BY <1>1
<1>d. DOMAIN Page(read) = 1..Len(Page(read))
  BY <1>1
<1>w. low <= next
  <2>1. PageSize \in Nat /\ next = low + PageSize
    BY <1>1
  <2>2. QED
    BY <1>4, <2>1
<1> HIDE DEF high
<1>5. \A i \in 1..Len(registered) : low < i /\ i <= next =>
         i - low \in 1..Len(Page(read)) /\ Page(read)[i - low] = registered[i]
  <2> SUFFICES ASSUME NEW i \in 1..Len(registered), low < i, i <= next
               PROVE  i - low \in 1..Len(Page(read)) /\ Page(read)[i - low] = registered[i]
    OBVIOUS
  <2>1. i <= high
    BY <1>4
  <2>2. i - low \in 1..Len(Page(read)) /\ low + (i - low) = i
    BY <1>4, <1>l, <2>1
  <2>3. QED
    BY <1>1, <2>2
<1>6. \A r \in Members(Page(read)) : \E i \in 1..Len(registered) :
         low < i /\ i <= next /\ registered[i] = r
  <2> SUFFICES ASSUME NEW m \in 1..Len(Page(read))
               PROVE  \E i \in 1..Len(registered) :
                        low < i /\ i <= next /\ registered[i] = Page(read)[m]
    BY <1>d DEF Members
  <2>1. high <= next /\ m \in Nat /\ m >= 1
    BY <1>4
  <2>2. low + m \in 1..high /\ registered[low + m] = Page(read)[m]
    BY <1>1
  <2>3. low < low + m /\ low + m <= next /\ low + m \in 1..Len(registered)
    BY <1>4, <2>1, <2>2
  <2>4. QED
    BY <2>2, <2>3
<1>7. Members(items') = Members(items) \cup Members(Page(read)) /\ items' \in Seq(Runners)
      /\ Members(Page(read)) \subseteq Members(registered)
  <2>1. Members(Page(read)) \subseteq Members(registered)
    BY <1>t, <1>6 DEF Members
  <2>2. QED
    BY <1>t, <1>1, <1>2, <2>1, JoinedLists
<1>8. Cardinality(Members(registered)) = Len(registered) /\ IsFiniteSet(Members(registered))
      /\ Members(registered) \subseteq Runners /\ Len(registered) \in 0..Cardinality(Runners)
  <2>1. /\ Members(registered) \subseteq Runners /\ IsFiniteSet(Members(registered))
        /\ Cardinality(Members(registered)) = Len(registered)
    BY <1>t, MembersOf
  <2>2. Cardinality(Members(registered)) <= Cardinality(Runners)
    BY <2>1, ListingAssumption, FS_Subset
  <2>3. Cardinality(Runners) \in Nat
    BY ListingAssumption, FS_CardinalityType
  <2>4. QED
    BY <1>t, <2>1, <2>2, <2>3
<1>9. CASE read = 0
  <2>1. /\ items = <<>> /\ came = 0 /\ went = 0 /\ low = 0
        /\ total' \in {Len(registered), NoTotal} /\ stayed' = Members(registered)
    BY <1>9, ListingAssumption DEF ListingInv, FetchPage, low
  <2>2. Members(items) = {}
    BY <2>1 DEF Members
  <2>3. ListingTyped'
    BY <1>t, <1>2, <1>7, <1>8, <2>1 DEF ListingTyped, Verdicts, Verdict
  <2>4. total' # NoTotal => CountedRunners(Members(registered))'
    BY <1>2, <1>7, <1>8, <2>1, <2>2 DEF CountedRunners
  <2>5. Injective(items')
    <3>1. items' = Page(read)
      BY <1>1, <1>2, <2>1
    <3>2. \A i \in 1..Len(Page(read)) : low + i = i
      BY <2>1
    <3>3. \A i \in 1..Len(Page(read)) : Page(read)[i] = registered[i] /\ i \in DOMAIN registered
      <4> SUFFICES ASSUME NEW i \in 1..Len(Page(read))
                   PROVE  Page(read)[i] = registered[i] /\ i \in 1..Len(registered)
        BY <1>t
      <4>1. i \in 1..high
        BY <1>1, <3>2
      <4>2. i \in 1..Len(registered)
        BY <1>4, <4>1
      <4>3. Page(read)[i] = registered[low + i] /\ low + i = i
        BY <1>1, <3>2
      <4>4. QED
        BY <4>2, <4>3
    <3>4. DOMAIN Page(read) = 1..Len(Page(read))
      BY <1>1
    <3>5. QED
      BY <1>t, <3>1, <3>3, <3>4 DEF Injective
  <2>6. \A i \in DOMAIN registered : registered[i] \in Members(items') => i <= next
    <3> SUFFICES ASSUME NEW i \in DOMAIN registered, registered[i] \in Members(items')
                 PROVE  i <= next
      OBVIOUS
    <3>1. PICK j \in 1..Len(registered) : j <= next /\ registered[j] = registered[i]
      BY <1>6, <1>7, <2>2
    <3>2. i = j
      BY <1>t, <3>1 DEF Injective
    <3>3. QED
      BY <3>1, <3>2
  <2>7. \A i \in DOMAIN registered : i <= next => registered[i] \in Members(items')
    <3> SUFFICES ASSUME NEW i \in 1..Len(registered), i <= next
                 PROVE  registered[i] \in Members(items')
      BY <1>t
    <3>1. low < i
      BY <1>t, <2>1
    <3>2. i - low \in DOMAIN Page(read) /\ Page(read)[i - low] = registered[i]
      BY <1>1, <1>5, <3>1
    <3>3. QED
      BY <1>7, <3>2 DEF Members
  <2>8. NoneTwice' /\ NonePassed'
    BY <1>2, <1>3, <2>5, <2>6, <2>7 DEF NoneTwice, NonePassed
  <2>9. read' # 0 /\ (verdict' = "complete" => total' = NoTotal \/ total' = Len(items'))
    BY <1>t, <1>2 DEF Verdict, Accepts
  <2>10. QED
    BY <2>3, <2>4, <2>8, <2>9 DEF ListingInv
<1>10. CASE read > 0
  <2>1. UNCHANGED <<total, stayed>> /\ NoneTwice /\ NonePassed
    BY <1>t, <1>10 DEF ListingInv, FetchPage
  <2>2. ListingTyped'
    BY <1>t, <1>2, <1>7, <2>1 DEF ListingTyped, Verdicts, Verdict
  <2>3. ASSUME total' # NoTotal
        PROVE  \E F : CountedRunners(F)'
    <3>1. PICK F : CountedRunners(F)
      BY <1>10, <2>1, <2>3 DEF ListingInv
    <3>2. CountedRunners(F)'
      BY <1>2, <1>7, <2>1, <3>1 DEF CountedRunners
    <3>3. QED
      BY <3>2
  <2>4. NoneTwice'
    <3> SUFFICES ASSUME came = 0
                 PROVE  /\ Injective(items')
                        /\ \A i \in DOMAIN registered : registered[i] \in Members(items') => i <= next
      BY <1>2, <1>3 DEF NoneTwice
    <3>0. /\ Injective(items)
          /\ \A i \in DOMAIN registered : registered[i] \in Members(items) => i <= low
      BY <2>1 DEF NoneTwice, low
    <3>1. \A i \in DOMAIN registered : registered[i] \in Members(items') => i <= next
      <4> SUFFICES ASSUME NEW i \in 1..Len(registered), registered[i] \in Members(items')
                   PROVE  i <= next
        BY <1>t
      <4>1. CASE registered[i] \in Members(items)
        <5>1. i <= low /\ low <= next
          <6>1. i \in DOMAIN registered
            BY <1>t
          <6>2. QED
            BY <1>w, <3>0, <4>1, <6>1
        <5>2. QED
          BY <1>4, <5>1
      <4>2. CASE registered[i] \in Members(Page(read))
        <5>1. PICK j \in 1..Len(registered) : j <= next /\ registered[j] = registered[i]
          BY <1>6, <4>2
        <5>2. QED
          BY <1>t, <5>1 DEF Injective
      <4>3. QED
        BY <1>7, <4>1, <4>2
    <3>2. \A r \in Members(Page(read)) : r \notin Members(items)
      <4> SUFFICES ASSUME NEW r \in Members(Page(read)), r \in Members(items)
                   PROVE  FALSE
        OBVIOUS
      <4>1. PICK j \in 1..Len(registered) : low < j /\ registered[j] = r
        BY <1>6
      <4>2. j <= low
        BY <1>t, <3>0, <4>1
      <4>3. QED
        BY <1>4, <4>1, <4>2
    <3>3. \A i, j \in 1..Len(Page(read)) : Page(read)[i] = Page(read)[j] => i = j
      <4> SUFFICES ASSUME NEW i \in 1..Len(Page(read)), NEW j \in 1..Len(Page(read)),
                          Page(read)[i] = Page(read)[j]
                   PROVE  i = j
        OBVIOUS
      <4>1. registered[low + i] = registered[low + j] /\ low + i \in 1..high /\ low + j \in 1..high
        BY <1>1
      <4>2. low + i \in DOMAIN registered /\ low + j \in DOMAIN registered
        <5>1. low + i \in 1..Len(registered) /\ low + j \in 1..Len(registered)
          BY <1>4, <4>1
        <5>2. QED
          BY <1>t, <5>1
      <4>3. low + i = low + j
        BY <1>t, <4>1, <4>2 DEF Injective
      <4>4. QED
        BY <1>1, <4>3
    <3>4. Injective(items')
      BY <1>t, <1>1, <1>2, <3>0, <3>2, <3>3, InjectiveTogether
    <3>5. QED
      BY <3>1, <3>4
  <2>5. NonePassed'
    <3> SUFFICES ASSUME went = 0, NEW i \in 1..Len(registered), registered[i] \in stayed, i <= next
                 PROVE  registered[i] \in Members(items')
      BY <1>t, <1>2, <1>3, <2>1 DEF NonePassed
    <3>1. CASE i <= low
      BY <1>t, <1>7, <2>1, <3>1 DEF NonePassed, low
    <3>2. CASE low < i
      <4>1. i - low \in DOMAIN Page(read) /\ Page(read)[i - low] = registered[i]
        BY <1>1, <1>5, <3>2
      <4>2. QED
        BY <1>7, <4>1 DEF Members
    <3>3. QED
      BY <1>1, <3>1, <3>2
  <2>6. read' # 0 /\ (verdict' = "complete" => total' = NoTotal \/ total' = Len(items'))
    BY <1>t, <1>2 DEF Verdict, Accepts
  <2>7. QED
    BY <2>2, <2>3, <2>4, <2>5, <2>6 DEF ListingInv
<1>11. QED
  BY <1>t, <1>9, <1>10

LEMMA ListingStepInv == ListingInv /\ [ListingNext]_listVars => ListingInv'
<1> SUFFICES ASSUME ListingInv, [ListingNext]_listVars
             PROVE  ListingInv'
  OBVIOUS
<1>t. ListingTyped /\ read \in Nat /\ registered \in Seq(Runners) /\ items \in Seq(Runners)
      /\ Injective(registered) /\ MaxChurn \in Nat
  BY ListingAssumption DEF ListingInv, ListingTyped
<1>1. CASE FetchPage
  BY <1>1, FetchStepInv
<1>2. CASE Truncated
  <2>1. /\ read > 0 /\ verdict' \in Verdicts
        /\ verdict' = "complete" => total = NoTotal \/ total = Len(items)
        /\ UNCHANGED <<registered, items, read, total, stayed, came, went>>
    BY <1>2 DEF Truncated, Verdict, Verdicts, Accepts
  <2>2. QED
    BY <1>t, <2>1 DEF ListingInv, ListingTyped, CountedRunners, NoneTwice, NonePassed
<1>3. CASE ListFailed
  BY <1>3 DEF ListFailed, ListingInv, ListingTyped, CountedRunners, NoneTwice, NonePassed,
     Verdicts
<1>4. ASSUME NEW r \in Runners, RegisterRunner(r)
      PROVE  ListingInv'
  <2>1. PICK i \in 1..(Len(registered) + 1) : registered' = With(registered, i, r)
    BY <1>4 DEF RegisterRunner
  <2>2. /\ r \notin Members(registered) \cup stayed /\ came' = came + 1
        /\ UNCHANGED <<items, read, total, stayed, went, verdict>>
        /\ verdict = "reading" /\ read > 0 /\ came + went < MaxChurn
    BY <1>4 DEF RegisterRunner, Churning
  <2>3. /\ registered' \in Seq(Runners)
        /\ Members(registered') = Members(registered) \cup {r}
        /\ Injective(registered')
        /\ \A j \in DOMAIN registered' :
              registered'[j] # r => \E l \in DOMAIN registered : l <= j /\ registered[l] = registered'[j]
    BY <1>t, <2>1, <2>2, WithIs
  <2>4. came' # 0 /\ came' \in 0..MaxChurn
    BY <1>t, <2>2 DEF ListingTyped
  <2>5. ListingTyped'
    BY <1>t, <2>2, <2>3, <2>4 DEF ListingTyped
  <2>6. ASSUME total' # NoTotal
        PROVE  \E F : CountedRunners(F)'
    <3>1. PICK F : CountedRunners(F)
      BY <2>2, <2>6 DEF ListingInv
    <3>2. CountedRunners(F)'
      BY <2>2, <2>3, <2>4, <3>1 DEF CountedRunners
    <3>3. QED
      BY <3>2
  <2>7. NonePassed'
    <3> SUFFICES ASSUME went = 0, NEW j \in DOMAIN registered', registered'[j] \in stayed,
                        j <= read * PageSize
                 PROVE  registered'[j] \in Members(items)
      BY <2>2 DEF NonePassed
    <3>1. PICK l \in DOMAIN registered : l <= j /\ registered[l] = registered'[j]
      BY <2>2, <2>3
    <3>2. read * PageSize \in Nat /\ l \in Nat /\ j \in Nat
      BY <1>t, <2>3, ListingAssumption
    <3>3. l <= read * PageSize
      BY <3>1, <3>2
    <3>4. QED
      BY <2>2, <3>1, <3>3 DEF ListingInv, NonePassed
  <2>8. QED
    BY <2>2, <2>4, <2>5, <2>6, <2>7 DEF ListingInv, NoneTwice
<1>5. ASSUME NEW i \in DOMAIN registered, DeregisterRunner(i)
      PROVE  ListingInv'
  <2>1. /\ registered' = Without(registered, i) /\ went' = went + 1
        /\ stayed' = stayed \ {registered[i]}
        /\ UNCHANGED <<items, read, total, came, verdict>>
        /\ verdict = "reading" /\ read > 0 /\ came + went < MaxChurn
    BY <1>5 DEF DeregisterRunner, Churning
  <2>2. /\ registered' \in Seq(Runners) /\ Members(registered') \subseteq Members(registered)
        /\ Injective(registered')
        /\ \A j \in DOMAIN registered' :
              \E l \in DOMAIN registered : j <= l /\ registered[l] = registered'[j]
    BY <1>t, <2>1, WithoutIs
  <2>3. went' # 0 /\ went' \in 0..MaxChurn
    BY <1>t, <2>1 DEF ListingTyped
  <2>4. ListingTyped'
    BY <1>t, <2>1, <2>2, <2>3 DEF ListingTyped
  <2>5. ASSUME total' # NoTotal
        PROVE  \E F : CountedRunners(F)'
    <3>1. PICK F : CountedRunners(F)
      BY <2>1, <2>5 DEF ListingInv
    <3>2. CountedRunners(F)'
      BY <2>1, <2>2, <2>3, <3>1 DEF CountedRunners
    <3>3. QED
      BY <3>2
  <2>6. NoneTwice'
    <3> SUFFICES ASSUME came = 0, NEW j \in DOMAIN registered', registered'[j] \in Members(items)
                 PROVE  Injective(items) /\ j <= read * PageSize
      <4>1. came = 0 => Injective(items)
        BY <2>1 DEF ListingInv, NoneTwice
      <4>2. QED
        BY <2>1, <4>1 DEF NoneTwice
    <3>1. PICK l \in DOMAIN registered : j <= l /\ registered[l] = registered'[j]
      BY <2>2
    <3>2. read * PageSize \in Nat /\ l \in Nat /\ j \in Nat
      BY <1>t, <2>2, ListingAssumption
    <3>3. Injective(items) /\ l <= read * PageSize
      BY <2>1, <3>1 DEF ListingInv, NoneTwice
    <3>4. QED
      BY <3>1, <3>2, <3>3
  <2>7. QED
    BY <2>1, <2>3, <2>4, <2>5, <2>6 DEF ListingInv, NonePassed
<1>6. CASE UNCHANGED listVars
  BY <1>6 DEF listVars, ListingInv, ListingTyped, CountedRunners, NoneTwice, NonePassed
<1>7. QED
  BY <1>1, <1>2, <1>3, <1>4, <1>5, <1>6 DEF ListingNext

LEMMA ListingInvHolds == ListingInv => ListingTypeOK /\ ListingExact
<1> SUFFICES ASSUME ListingInv
             PROVE  ListingTypeOK /\ ListingExact
  OBVIOUS
<1>1. ListingTypeOK
  BY DEF ListingInv, ListingTyped, ListingTypeOK
<1>2. ASSUME verdict = "complete", total # NoTotal,
             came = 0 \/ (went = 0 /\ Len(registered) <= read * PageSize)
      PROVE  stayed \subseteq Members(items) /\ Cardinality(Members(items)) = Len(items)
  <2>1. total = Len(items) /\ read > 0 /\ read \in Nat
        /\ registered \in Seq(Runners) /\ items \in Seq(Runners)
    BY <1>2 DEF ListingInv, ListingTyped
  <2>2. PICK F : CountedRunners(F)
    BY <1>2, <2>1 DEF ListingInv
  <2>3. /\ IsFiniteSet(Members(items)) /\ Cardinality(Members(items)) \in Nat
        /\ Cardinality(Members(items)) <= Len(items) /\ Len(items) \in Nat
        /\ Cardinality(Members(items)) = Len(items) <=> Injective(items)
    BY <2>1, MembersOf
  <2>4. CASE came = 0
    <3>1. Injective(items) /\ Members(items) \subseteq F
      BY <2>1, <2>2, <2>4 DEF ListingInv, NoneTwice, CountedRunners
    <3>2. Members(items) = F
      BY <2>1, <2>2, <2>3, <3>1, FS_Subset DEF CountedRunners
    <3>3. QED
      BY <2>2, <2>3, <3>1, <3>2 DEF CountedRunners
  <2>5. CASE went = 0 /\ Len(registered) <= read * PageSize
    <3>1. stayed = F /\ F \subseteq Members(registered)
      BY <2>2, <2>5 DEF CountedRunners
    <3>2. \A i \in DOMAIN registered : registered[i] \in stayed => registered[i] \in Members(items)
      <4> SUFFICES ASSUME NEW i \in DOMAIN registered, registered[i] \in stayed
                   PROVE  registered[i] \in Members(items)
        OBVIOUS
      <4>1. i <= Len(registered) /\ i \in Nat /\ Len(registered) \in Nat
            /\ read * PageSize \in Nat
        BY <2>1, ListingAssumption
      <4>2. i <= read * PageSize
        BY <2>5, <4>1
      <4>3. QED
        BY <2>1, <2>5, <4>2 DEF ListingInv, NonePassed
    <3>3. F \subseteq Members(items)
      BY <3>1, <3>2 DEF Members
    <3>4. Cardinality(F) <= Cardinality(Members(items)) /\ Cardinality(F) = Len(items)
      BY <2>1, <2>2, <2>3, <3>3, FS_Subset DEF CountedRunners
    <3>5. QED
      BY <2>3, <3>1, <3>3, <3>4
  <2>6. QED
    BY <1>2, <2>4, <2>5
<1>3. QED
  BY <1>1, <1>2 DEF ListingExact

\* ListingExact: a listing taken for complete misses no runner that stayed.
THEOREM ListingIsExact == ListingSpec => []ListingExact
  BY ListingInitInv, ListingStepInv, ListingInvHolds, PTL DEF ListingSpec

-----------------------------------------------------------------------------
(* The composition: a step of the daemon is a step of one machine, and the *)
(* others rest.                                                            *)

LEMMA RestingPart ==
  /\ Resting("loop") = UNCHANGED vars
  /\ Resting("recovery") = UNCHANGED recoveryVars
  /\ Resting("service") = UNCHANGED serviceVars
  /\ Resting("choice") = UNCHANGED choiceVars
  /\ Resting("probe") = UNCHANGED probeVars
  /\ Resting("files") = UNCHANGED stateVars
  /\ Resting("listing") = UNCHANGED listVars
  /\ Resting("contain") = UNCHANGED containVars
  /\ Resting("heart") = UNCHANGED heartVars
  BY DEF Resting

\* A step of the daemon is a step or a rest of every machine.
EveryPart ==
  /\ [Next]_vars /\ [RecoveryNext]_recoveryVars /\ [ServiceNext]_serviceVars
  /\ [ChoiceNext]_choiceVars /\ [ProbeNext]_probeVars /\ [StateNext]_stateVars
  /\ [ListingNext]_listVars /\ [ContainNext]_containVars /\ [HeartNext]_heartVars

LEMMA EveryPartSteps == [DaemonNext]_daemonVars => EveryPart
<1> SUFFICES ASSUME [DaemonNext]_daemonVars
             PROVE  EveryPart
  OBVIOUS
<1>1. CASE UNCHANGED daemonVars
  BY <1>1 DEF daemonVars, EveryPart
<1>2. ASSUME DaemonNext
      PROVE  EveryPart
  <2> DEFINE Steps(p) ==
        CASE p = "loop"     -> Next
          [] p = "recovery" -> RecoveryNext
          [] p = "service"  -> ServiceNext
          [] p = "choice"   -> ChoiceNext
          [] p = "probe"    -> ProbeNext
          [] p = "files"    -> StateNext
          [] p = "listing"  -> ListingNext
          [] p = "contain"  -> ContainNext
          [] p = "heart"    -> HeartNext
  <2>1. Steps("loop") = Next /\ Steps("recovery") = RecoveryNext
        /\ Steps("service") = ServiceNext /\ Steps("choice") = ChoiceNext
        /\ Steps("probe") = ProbeNext /\ Steps("files") = StateNext
        /\ Steps("listing") = ListingNext /\ Steps("contain") = ContainNext
        /\ Steps("heart") = HeartNext
    OBVIOUS
  <2> HIDE DEF Steps
  <2>2. \A p \in Parts : Steps(p) \/ Resting(p)
    BY <1>2, <2>1 DEF DaemonNext, OthersRest
  <2>3. QED
    BY <2>1, <2>2, RestingPart DEF Parts, EveryPart
<1>3. QED
  BY <1>1, <1>2

\* The invariants of the machines that need nothing of their constants beyond
\* the modules' assumptions.
DaemonInv ==
  /\ LoopInv /\ ServiceTypeOK /\ ChoiceInv /\ ProbeInv
  /\ FileInv /\ FileRest /\ TornKept
  /\ ListingInv /\ ContainInv /\ HeartInv

LEMMA DaemonInitInv == DaemonInit => DaemonInv /\ Table!Init
<1> SUFFICES ASSUME DaemonInit
             PROVE  DaemonInv /\ Table!Init
  OBVIOUS
<1>1. Init /\ ServiceInit /\ ProbeInit /\ ListingInit /\ ContainInit /\ ChoiceInit
      /\ HeartInit /\ StateInit
  BY DEF DaemonInit
<1>2. QED
  BY <1>1, LoopInitInv, ServiceInitInv, ChoiceInitInv, ProbeInitInv, FileInitInv, FileRestInit,
     ListingInitInv, ContainInitInv, HeartInitInv
     DEF DaemonInv

LEMMA DaemonStepInv ==
  DaemonInv /\ [DaemonNext]_daemonVars =>
    DaemonInv' /\ NoDoubtForgotten /\ StepIsTables /\ KeepsDamage
    /\ (InTime \/ UNCHANGED probeVars)
<1> SUFFICES ASSUME DaemonInv, EveryPart
             PROVE  /\ DaemonInv' /\ NoDoubtForgotten /\ StepIsTables /\ KeepsDamage
                    /\ (InTime \/ UNCHANGED probeVars)
  BY EveryPartSteps
<1>1. LoopInv' /\ NoDoubtForgotten
  BY LoopStepInv DEF DaemonInv, EveryPart
<1>2. ServiceTypeOK' /\ ProbeInv' /\ (InTime \/ UNCHANGED probeVars)
  BY ServiceStepInv, ProbeStepInv DEF DaemonInv, EveryPart
<1>3. ChoiceInv' /\ ContainInv' /\ HeartInv'
  BY ChoiceStepInv, ContainStepInv, HeartStepInv DEF DaemonInv, EveryPart
<1>4. FileInv' /\ FileRest' /\ TornKept' /\ StepIsTables /\ KeepsDamage
  BY FileStepInv, FileRestStep, TornStep DEF DaemonInv, EveryPart
<1>5. ListingInv'
  BY ListingStepInv DEF DaemonInv, EveryPart
<1>6. QED
  BY <1>1, <1>2, <1>3, <1>4, <1>5 DEF DaemonInv

\* HostHolds: neither the choice of a backend nor the runners it starts rest
\* on a probe that failed.
THEOREM HostsAreHeld == DaemonSpec => []HostHolds
<1>1. DaemonInv => HostHolds
  BY ChoiceInvHolds, ContainInvHolds DEF DaemonInv, HostHolds
<1>2. QED
  BY <1>1, DaemonInitInv, DaemonStepInv, PTL DEF DaemonSpec

\* ListingExact: a listing taken for complete names every runner that stayed
\* and none twice, whatever comes and goes while its pages are read.
THEOREM ListingsAreExact == DaemonSpec => []ListingExact
<1>1. DaemonInv => ListingExact
  BY ListingInvHolds DEF DaemonInv
<1>2. QED
  BY <1>1, DaemonInitInv, DaemonStepInv, PTL DEF DaemonSpec

\* StartBounded: where Docker refuses, answers weakly or stays silent within
\* the probe's limit, no probe or restart holds the start beyond its budget;
\* and no step of the loop costs the process its life, nor its end a sleep.
THEOREM StartsAreBounded ==
  ASSUME "wedged" \notin Outages, Outages \subseteq {"down", "weak", "wedged"}
  PROVE  DaemonSpec => []StartBounded
<1>1. DaemonInit => RecoveryInv
  BY RecoveryInitInv DEF DaemonInit
<1>2. RecoveryInv /\ [DaemonNext]_daemonVars => RecoveryInv'
  BY RecoveryStepInv, EveryPartSteps DEF EveryPart
<1>3. DaemonInv /\ RecoveryInv => StartBounded
  BY HeartInvHolds, RecoveryInvHolds DEF DaemonInv, StartBounded
<1>4. QED
  BY <1>1, <1>2, <1>3, DaemonInitInv, DaemonStepInv, PTL DEF DaemonSpec

\* DaemonTypeOK: every variable of the daemon's main thread keeps its type.
THEOREM DaemonIsTyped ==
  ASSUME "wedged" \notin Outages, Outages \subseteq {"down", "weak", "wedged"}
  PROVE  DaemonSpec => []DaemonTypeOK
<1>1. DaemonInit => RecoveryInv
  BY RecoveryInitInv DEF DaemonInit
<1>2. RecoveryInv /\ [DaemonNext]_daemonVars => RecoveryInv'
  BY RecoveryStepInv, EveryPartSteps DEF EveryPart
<1>3. DaemonInv /\ RecoveryInv => DaemonTypeOK
  BY LoopInvHolds, RecoveryInvHolds, ChoiceInvHolds, FileInvHolds, ListingInvHolds,
     ContainInvHolds, HeartInvHolds
     DEF DaemonInv, ProbeInv, DaemonTypeOK
<1>4. QED
  BY <1>1, <1>2, <1>3, DaemonInitInv, DaemonStepInv, PTL DEF DaemonSpec

\* DoubtNeedsCount: readiness that is in doubt is only taken for proved by a
\* poll that finds every runner ready.
THEOREM DoubtsAreKept == DaemonSpec => DoubtNeedsCount
  BY DaemonInitInv, DaemonStepInv, PTL DEF DaemonSpec, DoubtNeedsCount, NoDoubtForgotten

\* StateSurvives: the state file is an atomic table through overlapping
\* commands, kills and losses of power, and damage to it is never papered over.
THEOREM FilesSurvive == DaemonSpec => StateSurvives
  BY DaemonInitInv, DaemonStepInv, PTL
     DEF DaemonSpec, StateSurvives, TableIsAtomic, DamageIsKept, Table!Spec, StepIsTables,
         KeepsDamage

\* ProbeReturns and EpisodesEnd, the safety parts of ServiceComesUp and
\* LoopProgress: probes return within their budgets, and an episode of local
\* polls ends by its ceiling.
THEOREM NothingHangs == DaemonSpec => ProbeReturns /\ []EpisodesEnd
<1>1. DaemonInv => EpisodesEnd
  BY LoopInvHolds DEF DaemonInv
<1>2. DaemonInv /\ [DaemonNext]_daemonVars => [InTime]_probeVars
  BY DaemonStepInv
<1>3. QED
  BY <1>1, <1>2, DaemonInitInv, DaemonStepInv, PTL DEF DaemonSpec, ProbeReturns, InTime
=============================================================================
