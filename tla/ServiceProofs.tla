--------------------------- MODULE ServiceProofs ----------------------------
(***************************************************************************)
(* Proofs about the services beside the slot table, and about their        *)
(* composition.  Each has an inductive invariant, what its initial states  *)
(* and its steps do to it, and what it implies.                            *)
(***************************************************************************)
EXTENDS MCServices, CommandProofs

-----------------------------------------------------------------------------
(* GhTransport                                                             *)

LEMMA TransportNumbers ==
  /\ MaxRetries \in Nat /\ BaseDelay \in Nat /\ MaxDelay \in Nat /\ Floor \in Nat
  /\ Timeout \in Nat /\ Budget \in Nat /\ Grace \in Nat /\ RetryAfters \subseteq Nat
  /\ MaxRetries > 0 /\ BaseDelay > 0 /\ MaxDelay > 0 /\ Budget > 0 /\ Timeout > 0
  /\ BaseDelay <= MaxDelay
  BY TransportAssumption

\* Time is left when an attempt begins; the loop sleeps for as long as the
\* server is owed, and never up to its deadline.
TransportHolds ==
  /\ (point = "idle") = (caller = "none")
  /\ point = "attempt" => owed = 0 /\ (HasDeadline => left > 0)
  /\ point = "reply" => owed = IF reply.class = "secondary" THEN Wait(reply) ELSE 0
  /\ point = "sleep" => attempt < MaxRetries /\ owed <= nap /\ (HasDeadline => left > nap)
  /\ AnswersInTime

TransportInv == TransportTypeOK /\ TransportHolds

LEMMA WaitKnown ==
  ASSUME NEW r \in Reply
  PROVE  /\ Wait(r) \in Int /\ Wait(r) >= -1
         /\ r.class = "secondary" => Wait(r) \in Nat
         /\ r.class \notin {"secondary", "primary", "transient"} => Wait(r) = NoWait
<1>1. r.class \in Classes /\ r.ask \in Asks /\ r.ask \in Int /\ (r.ask # NoWait => r.ask \in Nat)
  <2>1. r.class \in Classes /\ r.ask \in Asks
    BY DEF Reply
  <2>2. r.ask \in RetryAfters \/ r.ask = -1
    BY <2>1 DEF Asks, NoWait
  <2>3. NoWait = -1 /\ NoWait \in Int
    BY DEF NoWait
  <2>4. CASE r.ask \in RetryAfters
    <3>1. r.ask \in Nat
      BY <2>4, TransportNumbers
    <3>2. QED
      BY <2>1, <3>1
  <2>5. CASE r.ask = -1
    BY <2>1, <2>3, <2>5
  <2>6. QED
    BY <2>2, <2>4, <2>5
<1>2. CASE r.class = "secondary"
  BY <1>1, <1>2, TransportNumbers DEF Wait
<1>3. CASE r.class = "primary"
  <2>1. Wait(r) = Larger(Smaller(IF r.ask = NoWait THEN BaseDelay ELSE r.ask, MaxDelay), 1)
    BY <1>3 DEF Wait
  <2>2. QED
    BY <1>1, <1>3, <2>1, TransportNumbers DEF Larger, Smaller
<1>4. CASE r.class = "transient"
  BY <1>4, TransportNumbers DEF Wait
<1>5. CASE r.class \notin {"secondary", "primary", "transient"}
  BY <1>5 DEF Wait, NoWait
<1>6. QED
  BY <1>1, <1>2, <1>3, <1>4, <1>5

LEMMA LeftKnown ==
  ASSUME TransportTypeOK, NEW d \in Nat
  PROVE  /\ LeftAfter(d) \in Latest..Budget
         /\ HasDeadline => LeftAfter(d) >= left - d
<1>1. left \in Int /\ left >= Latest /\ left <= Budget /\ Latest \in Int /\ Latest <= 0
      /\ Budget \in Nat
  BY TransportNumbers DEF TransportTypeOK, Latest
<1>2. QED
  BY <1>1 DEF LeftAfter, Larger

LEMMA TransportInitInv == TransportInit => TransportInv
<1> SUFFICES ASSUME TransportInit
             PROVE  TransportInv
  OBVIOUS
<1>1. Latest \in Int /\ Latest <= 0
  BY TransportNumbers DEF Latest
<1>2. [class |-> "ok", ask |-> NoWait] \in Reply
  BY DEF Reply, Classes, Asks
<1>3. "none" \notin Callers
  BY DEF Callers, Form
<1>4. BaseDelay \in 1..MaxDelay /\ 1 \in 1..MaxRetries /\ Budget \in Latest..Budget
  BY <1>1, TransportNumbers
<1>5. QED
  BY <1>2, <1>3, <1>4 DEF TransportInit, TransportInv, TransportTypeOK, TransportHolds,
     AnswersInTime, HasDeadline

LEMMA TransportStepInv == TransportInv /\ [TransportNext]_transportVars => TransportInv'
<1> SUFFICES ASSUME TransportInv, [TransportNext]_transportVars
             PROVE  TransportInv'
  OBVIOUS
<1>t. /\ TransportTypeOK /\ TransportHolds
      /\ left \in Int /\ left >= Latest /\ left <= Budget /\ Latest \in Int /\ Latest <= 0
      /\ attempt \in Int /\ delay \in Int /\ nap \in Nat /\ owed \in Nat
      /\ attempt >= 1 /\ attempt <= MaxRetries /\ delay >= 1 /\ delay <= MaxDelay
      /\ reply \in Reply
  BY TransportNumbers DEF TransportInv, TransportTypeOK, Latest
<1>n. "none" \notin Callers
  BY DEF Callers, Form
<1>1. ASSUME NEW c \in Callers, Begin(c)
      PROVE  TransportInv'
  <2>1. BaseDelay \in 1..MaxDelay /\ 1 \in 1..MaxRetries /\ Budget \in Latest..Budget
    BY <1>t, TransportNumbers
  <2>2. TransportTypeOK'
    BY <1>1, <1>t, <2>1 DEF Begin, TransportTypeOK
  <2>3. left' = Budget /\ owed' = 0 /\ point' = "attempt" /\ caller' # "none"
    BY <1>1, <1>n DEF Begin
  <2>4. left' >= -(Grace + (IF Capped' THEN 0 ELSE Timeout))
    BY <2>3, TransportNumbers
  <2>5. QED
    BY <2>2, <2>3, <2>4, TransportNumbers DEF TransportInv, TransportHolds, AnswersInTime
<1>2. CASE Attempt
  <2>1. PICK d \in {0, ChildBudget, ChildBudget + Grace}, r \in Reply :
          /\ reply' = r /\ left' = LeftAfter(d)
          /\ owed' = (IF r.class = "secondary" THEN Wait(r) ELSE 0)
    BY <1>2 DEF Attempt
  <2>2. point' = "reply" /\ point = "attempt" /\ UNCHANGED <<caller, attempt, delay, nap, told>>
    BY <1>2 DEF Attempt
  <2>3. HasDeadline' = HasDeadline /\ Capped' = Capped
    BY <2>2 DEF HasDeadline, Capped
  <2>4. /\ ChildBudget \in Nat /\ ChildBudget <= Timeout
        /\ Capped /\ left > 0 => ChildBudget <= left
    BY <1>t, TransportNumbers DEF ChildBudget, Smaller, Larger
  <2>5. d \in Nat /\ d <= ChildBudget + Grace
    BY <2>4, TransportNumbers
  <2>6. left' \in Latest..Budget /\ (HasDeadline => left' >= left - d)
    BY <1>t, <2>1, <2>5, LeftKnown
  <2>7. HasDeadline => left' >= -(Grace + (IF Capped THEN 0 ELSE Timeout))
    <3>1. SUFFICES ASSUME HasDeadline
                   PROVE  left' >= -(Grace + (IF Capped THEN 0 ELSE Timeout))
      OBVIOUS
    <3>2. left > 0 /\ left' >= left - d /\ left' \in Int
      BY <1>t, <2>2, <2>6, <3>1 DEF TransportHolds
    <3>3. QED
      BY <1>t, <2>4, <2>5, <3>2, TransportNumbers
  <2>8. owed' \in Nat /\ owed' = (IF reply'.class = "secondary" THEN Wait(reply') ELSE 0)
    BY <2>1, WaitKnown
  <2>9. TransportTypeOK'
    BY <1>t, <2>1, <2>2, <2>6, <2>8 DEF TransportTypeOK
  <2>10. Wait(reply)' = Wait(reply')
    BY DEF Wait, Larger, Smaller
  <2>11. TransportHolds'
    BY <1>t, <2>2, <2>3, <2>7, <2>8, <2>10 DEF TransportHolds, AnswersInTime
  <2>12. QED
    BY <2>9, <2>11 DEF TransportInv
<1>3. CASE Answer
  <2>1. point' = "idle" /\ caller' = "none" /\ told' = Outcome(reply.class)
        /\ UNCHANGED <<attempt, delay, left, reply, nap, owed>>
    BY <1>3 DEF Answer
  <2>2. Outcome(reply.class) \in Results
    BY DEF Outcome, Results
  <2>3. ~HasDeadline'
    BY <1>n, <2>1 DEF HasDeadline, Callers
  <2>4. TransportTypeOK'
    BY <1>t, <2>1, <2>2 DEF TransportTypeOK
  <2>5. QED
    BY <2>1, <2>3, <2>4 DEF TransportInv, TransportHolds, AnswersInTime
<1>4. CASE BackOff
  <2>1. point = "reply" /\ attempt < MaxRetries /\ ~Bails(nap') /\ nap' = Larger(Wait(reply), delay)
        /\ point' = "sleep" /\ UNCHANGED <<caller, attempt, delay, left, reply, owed, told>>
    BY <1>4 DEF BackOff
  <2>2. HasDeadline' = HasDeadline /\ Capped' = Capped
    BY <2>1 DEF HasDeadline, Capped
  <2>3. Wait(reply) \in Int /\ nap' \in Nat /\ nap' >= Wait(reply)
    BY <1>t, <2>1, WaitKnown DEF Larger
  <2>4. owed <= nap'
    <3>1. owed = IF reply.class = "secondary" THEN Wait(reply) ELSE 0
      BY <1>t, <2>1 DEF TransportHolds
    <3>2. QED
      BY <2>3, <3>1
  <2>5. HasDeadline => left > nap'
    BY <1>t, <2>1, <2>3 DEF Bails
  <2>6. TransportTypeOK'
    BY <1>t, <2>1, <2>3 DEF TransportTypeOK
  <2>7. TransportHolds'
    BY <1>t, <2>1, <2>2, <2>4, <2>5 DEF TransportHolds, AnswersInTime
  <2>8. QED
    BY <2>6, <2>7 DEF TransportInv
<1>5. CASE Wake
  <2>1. point = "sleep" /\ left' = LeftAfter(nap) /\ owed' = Larger(owed - nap, 0)
        /\ delay' = NextDelay /\ attempt' = attempt + 1 /\ point' = "attempt"
        /\ UNCHANGED <<caller, reply, nap, told>>
    BY <1>5 DEF Wake
  <2>2. HasDeadline' = HasDeadline /\ Capped' = Capped
    BY <2>1 DEF HasDeadline, Capped
  <2>3. attempt < MaxRetries /\ owed <= nap /\ (HasDeadline => left > nap)
    BY <1>t, <2>1 DEF TransportHolds
  <2>4. owed' = 0
    BY <1>t, <2>1, <2>3 DEF Larger
  <2>5. left' \in Latest..Budget /\ (HasDeadline => left' >= left - nap)
    BY <1>t, <2>1, LeftKnown
  <2>6. left' \in Int /\ (HasDeadline => left' > 0)
    BY <1>t, <2>3, <2>5
  <2>7. delay' \in 1..MaxDelay
    BY <1>t, <2>1, TransportNumbers DEF NextDelay, Smaller
  <2>8. attempt' \in 1..MaxRetries
    BY <1>t, <2>1, <2>3, TransportNumbers
  <2>9. TransportTypeOK'
    BY <1>t, <2>1, <2>4, <2>5, <2>7, <2>8 DEF TransportTypeOK
  <2>10. HasDeadline => left' >= -(Grace + (IF Capped THEN 0 ELSE Timeout))
    BY <2>6, TransportNumbers
  <2>11. TransportHolds'
    BY <1>t, <2>1, <2>2, <2>4, <2>6, <2>10 DEF TransportHolds, AnswersInTime
  <2>12. QED
    BY <2>9, <2>11 DEF TransportInv
<1>6. CASE UNCHANGED transportVars
  BY <1>6, <1>t DEF transportVars, TransportInv, TransportTypeOK, TransportHolds,
     AnswersInTime, HasDeadline, Capped, Wait, Larger, Smaller
<1>7. {"api_json", "api_post_empty", "api_json_until", "rest_budget_remaining"} \subseteq Callers
  BY DEF Callers, Form
<1>8. QED
  BY <1>1, <1>2, <1>3, <1>4, <1>5, <1>6, <1>7
     DEF TransportNext, TransportLoop, ApiJson, ApiPostEmpty, ApiJsonUntil, RestBudgetProbe

LEMMA TransportInvSays == TransportInv => TransportTypeOK /\ AnswersInTime /\ SecondaryHonoured
  BY DEF TransportInv, TransportHolds, SecondaryHonoured

-----------------------------------------------------------------------------
(* TokenRefresh                                                            *)

\* A thread about to swap has loaded the stamp as it is, its cooldown over and
\* no kick made since, or the stamp before the one kick that was made.
DueSees(t) ==
  thread[t] = "due" =>
    \/ age = Cooldown401 /\ loaded[t] = stamps
    \/ age = 0 /\ (loaded[t] + 1) % 4 = stamps

TokenInv ==
  /\ TokenTypeOK /\ storm <= 1
  /\ age = Cooldown401 => storm = 0
  /\ \A t \in Threads : DueSees(t)

LEMMA TokenInitInv == TokenInit => TokenInv
<1> SUFFICES ASSUME TokenInit
             PROVE  TokenInv
  OBVIOUS
<1>1. Cooldown401 \in Nat /\ 0 \in Stamps /\ Cooldown401 \in 0..Cooldown401
  BY TokenAssumption DEF Stamps
<1>2. TokenTypeOK
  BY <1>1 DEF TokenInit, TokenTypeOK
<1>3. \A t \in Threads : thread[t] # "due"
  BY DEF TokenInit
<1>4. QED
  BY <1>2, <1>3 DEF TokenInit, TokenInv, DueSees

LEMMA TokenStepInv == TokenInv /\ [TokenNext]_tokenVars => TokenInv'
<1> SUFFICES ASSUME TokenInv, [TokenNext]_tokenVars
             PROVE  TokenInv'
  OBVIOUS
<1>t. /\ TokenTypeOK /\ Cooldown401 \in Nat /\ Cooldown401 > 0
      /\ age \in 0..Cooldown401 /\ storm \in Nat /\ storm <= 1 /\ stamps \in 0..3
      /\ thread \in [Threads -> {"working", "refused", "due"}]
      /\ loaded \in [Threads -> 0..3]
      /\ \A t \in Threads : DueSees(t)
  BY TokenAssumption DEF TokenInv, TokenTypeOK, Stamps
<1>1. ASSUME NEW u \in Threads, Refused(u)
      PROVE  TokenInv'
  <2>1. TokenTypeOK'
    BY <1>1, <1>t DEF Refused, TokenTypeOK
  <2>2. \A t \in Threads : DueSees(t)'
    BY <1>1, <1>t DEF Refused, DueSees
  <2>3. QED
    BY <1>1, <2>1, <2>2 DEF Refused, TokenInv
<1>2. ASSUME NEW u \in Threads, Load(u)
      PROVE  TokenInv'
  <2>1. TokenTypeOK'
    BY <1>2, <1>t DEF Load, TokenTypeOK, Stamps
  <2>2. ASSUME NEW t \in Threads
        PROVE  DueSees(t)'
    <3>1. CASE t = u
      <4>1. loaded'[t] = stamps' /\ (thread'[t] = "due" => age' = Cooldown401)
        BY <1>2, <1>t, <3>1 DEF Load, RefreshDue
      <4>2. QED
        BY <4>1 DEF DueSees
    <3>2. CASE t # u
      BY <1>2, <1>t, <3>2 DEF Load, DueSees
    <3>3. QED
      BY <3>1, <3>2
  <2>3. QED
    BY <1>2, <2>1, <2>2 DEF Load, TokenInv
<1>3. ASSUME NEW u \in Threads, Kick(u)
      PROVE  TokenInv'
  <2>1. thread[u] = "due" /\ thread' = [thread EXCEPT ![u] = "working"]
        /\ UNCHANGED <<token, loaded>>
    BY <1>3 DEF Kick
  <2>2. CASE Wins(u)
    <3>1. age' = 0 /\ stamps' = (stamps + 1) % 4 /\ storm' = storm + 1 /\ job' = TRUE
      BY <1>3, <2>2 DEF Kick
    <3>2. loaded[u] = stamps
      BY <2>2 DEF Wins
    <3>3. (stamps + 1) % 4 # stamps /\ (stamps + 1) % 4 \in 0..3
      BY <1>t
    <3>4. age = Cooldown401
      BY <1>t, <2>1, <3>2, <3>3 DEF DueSees
    <3>5. storm = 0
      BY <3>4 DEF TokenInv
    <3>6. TokenTypeOK'
      BY <1>t, <2>1, <3>1, <3>3, <3>5 DEF TokenTypeOK, Stamps
    <3>7. \A t \in Threads : DueSees(t)'
      BY <1>t, <2>1, <3>1, <3>4 DEF DueSees
    <3>8. QED
      BY <1>t, <3>1, <3>5, <3>6, <3>7 DEF TokenInv
  <2>3. CASE ~Wins(u)
    <3>1. UNCHANGED <<age, stamps, storm, job>>
      BY <1>3, <2>3 DEF Kick
    <3>2. TokenTypeOK'
      BY <1>t, <2>1, <3>1 DEF TokenTypeOK
    <3>3. \A t \in Threads : DueSees(t)'
      BY <1>t, <2>1, <3>1 DEF DueSees
    <3>4. QED
      BY <3>1, <3>2, <3>3 DEF TokenInv
  <2>4. QED
    BY <2>2, <2>3
<1>4. CASE JobMints \/ JobFails \/ TokenBreaks \/ UNCHANGED tokenVars
  BY <1>4, <1>t DEF JobMints, JobFails, TokenBreaks, tokenVars, TokenInv, TokenTypeOK, DueSees
<1>5. CASE TokenTick
  <2>1. \A t \in Threads : thread[t] # "due"
    BY <1>5 DEF TokenTick
  <2>2. age < Cooldown401 /\ age' = age + 1
        /\ storm' = (IF age' = Cooldown401 THEN 0 ELSE storm)
        /\ UNCHANGED <<token, stamps, thread, loaded, job>>
    BY <1>5 DEF TokenTick
  <2>3. TokenTypeOK' /\ storm' <= 1 /\ (age' = Cooldown401 => storm' = 0)
    BY <1>t, <2>2 DEF TokenTypeOK
  <2>4. \A t \in Threads : DueSees(t)'
    BY <2>1, <2>2 DEF DueSees
  <2>5. QED
    BY <2>3, <2>4 DEF TokenInv
<1>6. QED
  BY <1>1, <1>2, <1>3, <1>4, <1>5 DEF TokenNext

LEMMA TokenInvSays == TokenInv => TokenTypeOK /\ OneKickPerCooldown
  BY DEF TokenInv, OneKickPerCooldown

-----------------------------------------------------------------------------
(* DockerChildren                                                          *)

Waits(c) == \E k \in 1..Len(pending) : pending[k] = c

HeldOnce ==
  /\ \A i, j \in 1..Len(pending) : pending[i] = pending[j] => i = j
  /\ \A c \in Children :
       /\ ~(Waits(c) /\ c \in owned) /\ ~(Waits(c) /\ current = c)
       /\ ~(c \in owned /\ current = c)
       /\ Waits(c) \/ c \in owned \/ current = c <=> child[c] \notin {"new", "gone"}

ChildInv == ChildrenTypeOK /\ active = Cardinality(owned) /\ HeldOnce

LEMMA ChildInitInv == ChildrenInit => ChildInv
<1> SUFFICES ASSUME ChildrenInit
             PROVE  ChildInv
  OBVIOUS
<1>1. Cardinality({}) = 0 /\ Cardinality(Children) \in Nat
  BY FS_EmptySet, FS_CardinalityType, ChildrenAssumption
<1>2. Len(<< >>) = 0 /\ << >> \in Seq(Children) /\ 1..0 = {}
  OBVIOUS
<1>3. ChildrenTypeOK
  BY <1>1, <1>2, ChildrenAssumption DEF ChildrenInit, ChildrenTypeOK
<1>4. HeldOnce
  BY <1>2, ChildrenAssumption DEF ChildrenInit, HeldOnce, Waits
<1>5. QED
  BY <1>1, <1>3, <1>4 DEF ChildrenInit, ChildInv

\* How the queue of a reaper loses its first child and gets another last.
LEMMA QueueTail ==
  ASSUME NEW S, NEW p \in Seq(S), p # << >>
  PROVE  /\ Head(p) \in S /\ Head(p) = p[1] /\ Tail(p) \in Seq(S) /\ 1 \in 1..Len(p)
         /\ \A k \in 1..Len(Tail(p)) : k + 1 \in 2..Len(p) /\ Tail(p)[k] = p[k + 1]
         /\ \A k \in 2..Len(p) : k - 1 \in 1..Len(Tail(p)) /\ p[k] = Tail(p)[k - 1]
  OBVIOUS

LEMMA QueueAppend ==
  ASSUME NEW S, NEW p \in Seq(S), NEW e \in S
  PROVE  /\ Append(p, e) \in Seq(S) /\ Len(Append(p, e)) = Len(p) + 1
         /\ Append(p, e)[Len(p) + 1] = e
         /\ \A k \in 1..Len(p) : Append(p, e)[k] = p[k]
  OBVIOUS

LEMMA TakeOverKeeps ==
  ASSUME ChildInv, pending # << >>, TakeOver, UNCHANGED <<child, current>>
  PROVE  /\ pending' \in Seq(Children) /\ owned' \subseteq Children
         /\ active' = Cardinality(owned') /\ active' \in 0..Cardinality(Children) /\ HeldOnce'
<1> DEFINE h == Head(pending)
<1>t. ChildrenTypeOK /\ active = Cardinality(owned) /\ HeldOnce
  BY DEF ChildInv
<1>1. pending \in Seq(Children)
  BY <1>t DEF ChildrenTypeOK
<1>2. /\ h \in Children /\ h = pending[1] /\ pending' \in Seq(Children) /\ 1 \in 1..Len(pending)
      /\ \A k \in 1..Len(pending') : k + 1 \in 2..Len(pending) /\ pending'[k] = pending[k + 1]
      /\ \A k \in 2..Len(pending) : k - 1 \in 1..Len(pending') /\ pending[k] = pending'[k - 1]
  BY <1>1, QueueTail DEF TakeOver
<1> HIDE DEF h
<1>3. owned' = owned \cup {h} /\ active' = active + 1
  BY DEF TakeOver, h
<1>4. Waits(h) /\ h \notin owned /\ current # h
  BY <1>t, <1>2 DEF HeldOnce, Waits
<1>5. IsFiniteSet(owned) /\ IsFiniteSet(Children) /\ owned' \subseteq Children
  BY <1>t, <1>2, <1>3, ChildrenAssumption, FS_Subset DEF ChildrenTypeOK
<1>6. Cardinality(owned') = Cardinality(owned) + 1 /\ Cardinality(owned) \in Nat
  BY <1>3, <1>4, <1>5, FS_AddElement, FS_CardinalityType
<1>7. Cardinality(owned') <= Cardinality(Children) /\ Cardinality(Children) \in Nat
  BY <1>5, FS_Subset, FS_CardinalityType
<1>8. ASSUME NEW c \in Children
      PROVE  Waits(c)' <=> Waits(c) /\ c # h
  <2>1. ASSUME NEW k \in 1..Len(pending'), pending'[k] = c
        PROVE  Waits(c) /\ c # h
    <3>1. k + 1 \in 1..Len(pending) /\ pending[k + 1] = c /\ k + 1 # 1
      BY <1>2, <2>1
    <3>2. QED
      BY <1>t, <1>2, <3>1 DEF HeldOnce, Waits
  <2>2. ASSUME NEW k \in 1..Len(pending), pending[k] = c, c # h
        PROVE  Waits(c)'
    <3>1. k \in 2..Len(pending)
      BY <1>2, <2>2
    <3>2. QED
      BY <1>2, <2>2, <3>1 DEF Waits
  <2>3. QED
    BY <2>1, <2>2 DEF Waits
<1>9. \A i, j \in 1..Len(pending') : pending'[i] = pending'[j] => i = j
  <2>1. SUFFICES ASSUME NEW i \in 1..Len(pending'), NEW j \in 1..Len(pending'),
                        pending'[i] = pending'[j]
                 PROVE  i = j
    OBVIOUS
  <2>2. i + 1 \in 1..Len(pending) /\ j + 1 \in 1..Len(pending) /\ pending[i + 1] = pending[j + 1]
    BY <1>2, <2>1
  <2>3. i + 1 = j + 1
    BY <1>t, <2>2 DEF HeldOnce
  <2>4. QED
    BY <2>3
<1>10. HeldOnce'
  <2>1. SUFFICES ASSUME NEW c \in Children
                 PROVE  /\ ~(Waits(c)' /\ c \in owned') /\ ~(Waits(c)' /\ current = c)
                        /\ ~(c \in owned' /\ current = c)
                        /\ Waits(c)' \/ c \in owned' \/ current = c <=> child[c] \notin {"new", "gone"}
    BY <1>9 DEF HeldOnce
  <2>2. /\ ~(Waits(c) /\ c \in owned) /\ ~(Waits(c) /\ current = c)
        /\ ~(c \in owned /\ current = c)
        /\ Waits(c) \/ c \in owned \/ current = c <=> child[c] \notin {"new", "gone"}
    BY <1>t DEF HeldOnce
  <2>3. QED
    BY <1>3, <1>4, <1>8, <2>2
<1>11. QED
  BY <1>t, <1>2, <1>3, <1>5, <1>6, <1>7, <1>10

LEMMA ChildStepInv == ChildInv /\ [ChildrenNext]_childVars => ChildInv'
<1> SUFFICES ASSUME ChildInv, [ChildrenNext]_childVars
             PROVE  ChildInv'
  OBVIOUS
<1>t. ChildrenTypeOK /\ active = Cardinality(owned) /\ HeldOnce
  BY DEF ChildInv
<1>n. CommandTime \in Nat /\ Reserve \in 0..CommandTime /\ NoChild \notin Children
  BY ChildrenAssumption
\* Steps that leave the reaper as it is.
<1>a. ASSUME UNCHANGED <<pending, active, owned, worker>>, budget' \in 0..CommandTime,
             child' \in [Children -> {"new", "runs", "killed", "exited", "gone"}],
             current' \in Children \cup {NoChild},
             \A c \in Children : /\ ~(Waits(c) /\ current' = c) /\ ~(c \in owned /\ current' = c)
                                 /\ Waits(c) \/ c \in owned \/ current' = c
                                      <=> child'[c] \notin {"new", "gone"}
      PROVE  ChildInv'
  <2>1. ChildrenTypeOK' /\ active' = Cardinality(owned')
    BY <1>a, <1>t DEF ChildrenTypeOK
  <2>2. HeldOnce'
    BY <1>a, <1>t DEF HeldOnce, Waits
  <2>3. QED
    BY <2>1, <2>2 DEF ChildInv
<1>h. ASSUME NEW c \in Children
      PROVE  /\ ~(Waits(c) /\ c \in owned) /\ ~(Waits(c) /\ current = c)
             /\ ~(c \in owned /\ current = c)
             /\ Waits(c) \/ c \in owned \/ current = c <=> child[c] \notin {"new", "gone"}
  BY <1>t DEF HeldOnce
<1>b. /\ child \in [Children -> {"new", "runs", "killed", "exited", "gone"}]
      /\ current \in Children \cup {NoChild} /\ budget \in 0..CommandTime
  BY <1>t DEF ChildrenTypeOK
<1>1. ASSUME NEW c \in Children, Run(c)
      PROVE  ChildInv'
  <2>1. current = NoChild /\ child[c] = "new" /\ current' = c /\ budget' = CommandTime
        /\ child' = [child EXCEPT ![c] = "runs"] /\ UNCHANGED <<pending, active, owned, worker>>
    BY <1>1 DEF Run
  <2>2. budget' \in 0..CommandTime
    BY <1>n, <2>1
  <2>3. QED
    BY <1>a, <1>b, <1>h, <1>n, <2>1, <2>2
<1>2. ASSUME NEW c \in Children, ChildExits(c)
      PROVE  ChildInv'
  <2>1. child[c] \in {"runs", "killed"} /\ child' = [child EXCEPT ![c] = "exited"]
        /\ UNCHANGED <<current, budget, pending, active, owned, worker>>
    BY <1>2 DEF ChildExits
  <2>2. QED
    BY <1>a, <1>b, <1>h, <2>1
<1>3. CASE Ends
  <2>1. current \in Children /\ child[current] = "exited"
        /\ child' = [child EXCEPT ![current] = "gone"] /\ current' = NoChild
        /\ UNCHANGED <<budget, pending, active, owned, worker>>
    BY <1>3, <1>b DEF Ends
  <2>2. QED
    BY <1>a, <1>b, <1>h, <1>n, <2>1
<1>4. CASE Kill
  <2>1. current \in Children /\ child[current] = "runs"
        /\ child' = [child EXCEPT ![current] = "killed"]
        /\ UNCHANGED <<current, budget, pending, active, owned, worker>>
    BY <1>4, <1>b DEF Kill
  <2>2. QED
    BY <1>a, <1>b, <1>h, <2>1
<1>5. CASE ChildTick
  <2>1. budget > 0 /\ budget' = budget - 1
        /\ UNCHANGED <<child, current, pending, active, owned, worker>>
    BY <1>5 DEF ChildTick
  <2>2. budget' \in 0..CommandTime
    BY <1>b, <1>n, <2>1
  <2>3. QED
    BY <1>a, <1>b, <1>h, <2>1, <2>2
<1>6. CASE HandOver
  <2>1. current \in Children /\ child[current] = "killed" /\ current' = NoChild
        /\ pending' = Append(pending, current) /\ UNCHANGED <<child, budget, active, owned, worker>>
    BY <1>6, <1>b DEF HandOver
  <2>2. pending \in Seq(Children) /\ Len(pending) \in Nat
    BY <1>t DEF ChildrenTypeOK
  <2>3. /\ pending' \in Seq(Children) /\ Len(pending') = Len(pending) + 1
        /\ pending'[Len(pending) + 1] = current
        /\ \A k \in 1..Len(pending) : pending'[k] = pending[k]
    BY <2>1, <2>2, QueueAppend
  <2>4. ChildrenTypeOK'
    BY <1>t, <2>1, <2>3 DEF ChildrenTypeOK
  <2>5. ~Waits(current) /\ current \notin owned
    BY <1>h, <2>1
  <2>6. \A i \in 1..Len(pending') :
          \/ i \in 1..Len(pending) /\ pending'[i] = pending[i] /\ pending[i] # current
          \/ i = Len(pending) + 1 /\ pending'[i] = current
    BY <2>2, <2>3, <2>5 DEF Waits
  <2>7. \A i, j \in 1..Len(pending') : pending'[i] = pending'[j] => i = j
    BY <1>t, <2>6 DEF HeldOnce
  <2>8. \A c \in Children : Waits(c)' <=> Waits(c) \/ c = current
    <3>1. SUFFICES ASSUME NEW c \in Children
                   PROVE  Waits(c)' <=> Waits(c) \/ c = current
      OBVIOUS
    <3>2. Waits(c)' => Waits(c) \/ c = current
      BY <2>6 DEF Waits
    <3>3. 1..Len(pending) \subseteq 1..Len(pending') /\ Len(pending) + 1 \in 1..Len(pending')
      BY <2>2, <2>3
    <3>4. QED
      BY <2>3, <3>2, <3>3 DEF Waits
  <2>9. HeldOnce'
    <3>1. SUFFICES ASSUME NEW c \in Children
                   PROVE  /\ ~(Waits(c)' /\ c \in owned) /\ ~(Waits(c)' /\ current' = c)
                          /\ ~(c \in owned /\ current' = c)
                          /\ Waits(c)' \/ c \in owned \/ current' = c
                               <=> child[c] \notin {"new", "gone"}
      BY <2>1, <2>7 DEF HeldOnce
    <3>2. QED
      BY <1>h, <1>n, <2>1, <2>5, <2>8
  <2>10. QED
    BY <1>t, <2>1, <2>4, <2>9 DEF ChildInv
<1>7. CASE TakeFirst
  <2>1. pending # << >> /\ TakeOver /\ worker' = "filling" /\ UNCHANGED <<child, current, budget>>
    BY <1>7 DEF TakeFirst
  <2>2. QED
    BY <1>b, <2>1, TakeOverKeeps DEF ChildInv, ChildrenTypeOK
<1>8. CASE Fill
  <2>1. CASE pending # << >> /\ TakeOver /\ UNCHANGED worker
    BY <1>8, <1>b, <1>t, <2>1, TakeOverKeeps DEF Fill, ChildInv, ChildrenTypeOK
  <2>2. CASE worker' = "polling" /\ UNCHANGED <<pending, owned, active>>
    BY <1>8, <1>t, <2>2 DEF Fill, ChildInv, ChildrenTypeOK, HeldOnce, Waits
  <2>3. QED
    BY <1>8, <2>1, <2>2 DEF Fill
<1>9. CASE PollChildren
  <2>1. PICK S \in SUBSET {c \in owned : child[c] = "exited"} :
          /\ child' = [c \in Children |-> IF c \in S THEN "gone" ELSE child[c]]
          /\ owned' = owned \ S /\ active' = active - Cardinality(S)
    BY <1>9 DEF PollChildren, Finished
  <2>2. worker' = "waiting" /\ UNCHANGED <<current, budget, pending>>
    BY <1>9 DEF PollChildren
  <2>3. IsFiniteSet(owned) /\ IsFiniteSet(Children) /\ S \subseteq owned /\ owned' \subseteq owned
        /\ owned \subseteq Children
    BY <1>t, <2>1, ChildrenAssumption, FS_Subset DEF ChildrenTypeOK
  <2>4. Cardinality(owned \ S) = Cardinality(owned) - Cardinality(owned \cap S)
        /\ owned \cap S = S
    BY <2>3, FS_Difference
  <2>5. Cardinality(owned') <= Cardinality(Children) /\ Cardinality(owned') \in Nat
        /\ Cardinality(Children) \in Nat
    BY <2>3, FS_Subset, FS_CardinalityType
  <2>6. active' = Cardinality(owned')
    BY <1>t, <2>1, <2>4
  <2>7. ChildrenTypeOK'
    <3>1. active' \in 0..Cardinality(Children)
      BY <2>5, <2>6
    <3>2. QED
      BY <1>b, <1>t, <2>1, <2>2, <2>3, <3>1 DEF ChildrenTypeOK
  <2>8. HeldOnce'
    <3>1. \A c \in Children : Waits(c)' <=> Waits(c)
      BY <2>2 DEF Waits
    <3>2. SUFFICES ASSUME NEW c \in Children
                   PROVE  /\ ~(Waits(c) /\ c \in owned') /\ ~(Waits(c) /\ current = c)
                          /\ ~(c \in owned' /\ current = c)
                          /\ Waits(c) \/ c \in owned' \/ current = c
                               <=> child'[c] \notin {"new", "gone"}
      BY <1>t, <2>2, <3>1 DEF HeldOnce
    <3>3. CASE c \in S
      BY <1>h, <2>1, <2>3, <3>3
    <3>4. CASE c \notin S
      BY <1>h, <2>1, <3>4
    <3>5. QED
      BY <3>3, <3>4
  <2>9. QED
    BY <2>6, <2>7, <2>8 DEF ChildInv
<1>10. CASE Resume
  BY <1>10, <1>t DEF Resume, ChildInv, ChildrenTypeOK, HeldOnce, Waits
<1>11. CASE UNCHANGED childVars
  BY <1>11, <1>t DEF childVars, ChildInv, ChildrenTypeOK, HeldOnce, Waits
<1>12. QED
  BY <1>1, <1>2, <1>3, <1>4, <1>5, <1>6, <1>7, <1>8, <1>9, <1>10, <1>11
     DEF ChildrenNext, CommandStep, ReaperStep

LEMMA ChildInvSays == ChildInv => ChildrenTypeOK /\ EveryChildHeld
<1> SUFFICES ASSUME ChildInv
             PROVE  EveryChildHeld
  BY DEF ChildInv
<1>t. ChildrenTypeOK /\ active = Cardinality(owned) /\ HeldOnce
  BY DEF ChildInv
<1>1. SUFFICES ASSUME NEW c \in Children
               PROVE  Holders(c) = IF child[c] \in {"new", "gone"} THEN 0 ELSE 1
  BY <1>t DEF EveryChildHeld
<1> DEFINE W == {k \in 1..Len(pending) : pending[k] = c}
<1>2. Cardinality(W) = IF Waits(c) THEN 1 ELSE 0
  <2>1. CASE Waits(c)
    <3>1. PICK k \in 1..Len(pending) : pending[k] = c
      BY <2>1 DEF Waits
    <3>2. W = {k}
      BY <1>t, <3>1 DEF HeldOnce
    <3>3. QED
      BY <2>1, <3>2, FS_Singleton
  <2>2. CASE ~Waits(c)
    <3>1. W = {}
      BY <2>2 DEF Waits
    <3>2. QED
      BY <2>2, <3>1, FS_EmptySet
  <2>3. QED
    BY <2>1, <2>2
<1>3. Holders(c) = Cardinality(W) + (IF c \in owned THEN 1 ELSE 0) + (IF current = c THEN 1 ELSE 0)
  BY DEF Holders
<1>4. /\ ~(Waits(c) /\ c \in owned) /\ ~(Waits(c) /\ current = c)
      /\ ~(c \in owned /\ current = c)
      /\ Waits(c) \/ c \in owned \/ current = c <=> child[c] \notin {"new", "gone"}
  BY <1>t DEF HeldOnce
<1> HIDE DEF W
<1>5. QED
  BY <1>2, <1>3, <1>4

-----------------------------------------------------------------------------
(* Readiness                                                               *)

PassTyped ==
  /\ box \in [Boxes -> {"alive", "dead", "gone"}]
  /\ stage \in {"ps", "top", "told", "unknown"}
  /\ spent \in 0..PassLimit
  /\ todo \subseteq Ours /\ listed \subseteq Ours /\ wasReady \subseteq Boxes
  /\ DOMAIN probing \subseteq Ours /\ probing \in [DOMAIN probing -> 0..TopLimit]
  /\ DOMAIN outcome \subseteq Ours /\ outcome \in [DOMAIN outcome -> ProbeOutcome \cup {"Err"}]
  /\ allowed \in 0..TopLimit /\ expired \in BOOLEAN

\* Every container that was listed is still to be probed, is probed, or has
\* been; a pass that told has probed them all.
AllAccounted ==
  /\ todo \cup DOMAIN probing \cup DOMAIN outcome = listed
  /\ stage = "ps" => listed = {}
  /\ stage = "told" => todo = {} /\ DOMAIN probing = {}

\* What a probe saw was so, and that a listed container is gone stays so.
ProbesHonest ==
  /\ AliveIn(box) \subseteq wasReady
  /\ \A c \in DOMAIN outcome :
       /\ outcome[c] = "Ready" => c \in wasReady
       /\ outcome[c] = "Absent" => box[c] = "gone"

PassInv == PassTyped /\ AllAccounted /\ ProbesHonest

LEMMA PassNumbers ==
  Ours \subseteq Boxes /\ TopLimit \in Nat /\ TopLimit > 0 /\ PassLimit \in Nat /\ PassLimit > 0
  BY ReadinessAssumption

LEMMA PassInitInv == ReadinessInit => PassInv
<1> SUFFICES ASSUME ReadinessInit
             PROVE  PassInv
  OBVIOUS
<1>1. 0 \in 0..PassLimit /\ 0 \in 0..TopLimit
  BY PassNumbers
<1>2. DOMAIN probing = {} /\ DOMAIN outcome = {}
      /\ probing \in [{} -> 0..TopLimit] /\ outcome \in [{} -> ProbeOutcome \cup {"Err"}]
  BY DEF ReadinessInit, Nothing
<1>3. AliveIn(box) \subseteq Boxes
  BY DEF AliveIn
<1>4. QED
  BY <1>1, <1>2, <1>3 DEF ReadinessInit, PassInv, PassTyped, AllAccounted, ProbesHonest

LEMMA SeenIsSo ==
  ASSUME NEW c \in Boxes, box[c] \in {"alive", "dead", "gone"}
  PROVE  /\ Seen(c) \in ProbeOutcome
         /\ Seen(c) = "Ready" => box[c] = "alive"
         /\ Seen(c) = "Absent" => box[c] = "gone"
<1>1. \E o \in ProbeOutcome :
        (o = "Absent" <=> box[c] = "gone") /\ (o = "Ready" <=> RunnerPresent(c))
  <2>1. CASE box[c] = "gone"
    BY <2>1 DEF ProbeOutcome, RunnerPresent
  <2>2. CASE box[c] = "alive"
    BY <2>2 DEF ProbeOutcome, RunnerPresent
  <2>3. CASE box[c] = "dead"
    BY <2>3 DEF ProbeOutcome, RunnerPresent
  <2>4. QED
    BY <2>1, <2>2, <2>3
<1>2. QED
  BY <1>1 DEF Seen, RunnerPresent

LEMMA PassStepInv == PassInv /\ [ReadinessNext]_passVars => PassInv'
<1> SUFFICES ASSUME PassInv, [ReadinessNext]_passVars
             PROVE  PassInv'
  OBVIOUS
<1>t. PassTyped /\ AllAccounted /\ ProbesHonest
  BY DEF PassInv
<1>1. CASE BoxChanges
  <2>1. PICK c \in Boxes, new \in {"alive", "dead", "gone"} :
          /\ box[c] # new /\ (box[c] = "gone" => new = "alive" /\ c \notin listed)
          /\ box' = [box EXCEPT ![c] = new]
    BY <1>1 DEF BoxChanges
  <2>2. wasReady' = wasReady \cup AliveIn(box')
        /\ UNCHANGED <<stage, spent, todo, probing, allowed, outcome, expired, listed>>
    BY <1>1 DEF BoxChanges
  <2>3. PassTyped'
    BY <1>t, <2>1, <2>2 DEF PassTyped, AliveIn
  <2>4. AllAccounted'
    BY <1>t, <2>2 DEF AllAccounted
  <2>5. ProbesHonest'
    <3>1. \A d \in DOMAIN outcome : box[d] = "gone" => box'[d] = "gone"
      BY <1>t, <2>1, PassNumbers DEF AllAccounted, PassTyped
    <3>2. AliveIn(box)' \subseteq wasReady'
      BY <2>2 DEF AliveIn
    <3>3. QED
      BY <1>t, <2>2, <3>1, <3>2 DEF ProbesHonest
  <2>6. QED
    BY <2>3, <2>4, <2>5 DEF PassInv
<1>2. CASE List
  <2>1. stage = "ps" /\ UNCHANGED <<box, spent, probing, allowed, outcome, expired, wasReady>>
    BY <1>2 DEF List
  <2>2. \/ stage' = "top" /\ listed' = {c \in Ours : box[c] # "gone"} /\ todo' = listed'
        \/ stage' = "unknown" /\ UNCHANGED <<listed, todo>>
    BY <1>2 DEF List
  <2>3. PassTyped'
    BY <1>t, <2>1, <2>2 DEF PassTyped
  <2>4. AllAccounted'
    <3>1. CASE stage' = "top" /\ todo' = listed' /\ stage = "ps"
      BY <1>t, <2>1, <3>1 DEF AllAccounted, PassTyped
    <3>2. QED
      BY <1>t, <2>1, <2>2, <3>1 DEF AllAccounted
  <2>5. ProbesHonest'
    BY <1>t, <2>1 DEF ProbesHonest, AliveIn
  <2>6. QED
    BY <2>3, <2>4, <2>5 DEF PassInv
<1>3. CASE Dispatch
  <2>1. PICK batch \in SUBSET todo :
          /\ todo' = todo \ batch /\ probing' = [c \in batch |-> 0]
          /\ expired' = (Cardinality(batch) < Lesser(Width, Cardinality(todo)))
    BY <1>3 DEF Dispatch
  <2>2. /\ stage = "top" /\ probing = Nothing /\ spent < PassLimit
        /\ allowed' = Lesser(PassLimit - spent, TopLimit)
        /\ UNCHANGED <<box, stage, spent, outcome, wasReady, listed>>
    BY <1>3 DEF Dispatch
  <2>3. allowed' \in 0..TopLimit
    BY <1>t, <2>2, PassNumbers DEF PassTyped, Lesser
  <2>4. DOMAIN probing = {} /\ DOMAIN probing' = batch /\ probing' \in [batch -> 0..TopLimit]
    BY <2>1, <2>2, PassNumbers DEF Nothing
  <2>5. PassTyped'
    BY <1>t, <2>1, <2>2, <2>3, <2>4 DEF PassTyped
  <2>6. AllAccounted'
    <3>1. todo' \cup batch = todo /\ todo \cup DOMAIN outcome = listed
      BY <1>t, <2>1, <2>4 DEF AllAccounted
    <3>2. todo' \cup batch \cup DOMAIN outcome = listed
      BY <3>1
    <3>3. stage' = "top" /\ outcome' = outcome /\ listed' = listed
      BY <2>2
    <3>4. QED
      BY <2>4, <3>2, <3>3 DEF AllAccounted
  <2>7. ProbesHonest'
    BY <1>t, <2>2 DEF ProbesHonest, AliveIn
  <2>8. QED
    BY <2>5, <2>6, <2>7 DEF PassInv
<1>4. CASE Expire
  BY <1>4, <1>t DEF Expire, PassInv, PassTyped, AllAccounted, ProbesHonest, AliveIn
<1>5. CASE ProbeEnds
  <2>1. PICK c \in DOMAIN probing :
          \E viewed \in {Seen(c), "Err"} :
            /\ outcome' = [d \in DOMAIN outcome \cup {c} |-> IF d = c THEN viewed ELSE outcome[d]]
            /\ probing' = [d \in DOMAIN probing \ {c} |-> probing[d]]
    BY <1>5 DEF ProbeEnds
  <2>2. PICK viewed \in {Seen(c), "Err"} :
          /\ outcome' = [d \in DOMAIN outcome \cup {c} |-> IF d = c THEN viewed ELSE outcome[d]]
          /\ probing' = [d \in DOMAIN probing \ {c} |-> probing[d]]
    BY <2>1
  <2>3. stage = "top" /\ UNCHANGED <<box, stage, spent, todo, allowed, expired, wasReady, listed>>
    BY <1>5 DEF ProbeEnds
  <2>4. /\ c \in Ours /\ c \in Boxes /\ c \in listed
        /\ viewed \in ProbeOutcome \cup {"Err"}
        /\ viewed = "Ready" => box[c] = "alive"
        /\ viewed = "Absent" => box[c] = "gone"
    BY <1>t, <2>1, <2>2, PassNumbers, SeenIsSo DEF PassTyped, AllAccounted
  <2>5. /\ DOMAIN outcome' = DOMAIN outcome \cup {c} /\ DOMAIN probing' = DOMAIN probing \ {c}
        /\ outcome' \in [DOMAIN outcome \cup {c} -> ProbeOutcome \cup {"Err"}]
        /\ probing' \in [DOMAIN probing \ {c} -> 0..TopLimit]
    BY <1>t, <2>2, <2>4 DEF PassTyped
  <2>6. PassTyped'
    BY <1>t, <2>3, <2>4, <2>5 DEF PassTyped
  <2>7. AllAccounted'
    BY <1>t, <2>1, <2>3, <2>5 DEF AllAccounted
  <2>8. ProbesHonest'
    <3>1. AliveIn(box)' \subseteq wasReady' /\ c \in Boxes
      BY <1>t, <2>3, <2>4 DEF ProbesHonest, AliveIn
    <3>2. SUFFICES ASSUME NEW d \in DOMAIN outcome'
                   PROVE  /\ outcome'[d] = "Ready" => d \in wasReady
                          /\ outcome'[d] = "Absent" => box[d] = "gone"
      BY <2>3, <3>1 DEF ProbesHonest
    <3>3. CASE d = c
      BY <1>t, <2>2, <2>4, <3>3 DEF ProbesHonest, AliveIn
    <3>4. CASE d # c
      BY <1>t, <2>2, <2>5, <3>2, <3>4 DEF ProbesHonest
    <3>5. QED
      BY <3>3, <3>4
  <2>9. QED
    BY <2>6, <2>7, <2>8 DEF PassInv
<1>6. CASE EndPass
  <2>1. /\ stage' = IF PassComplete THEN "told" ELSE "unknown"
        /\ probing = Nothing /\ (todo = {} \/ expired)
        /\ UNCHANGED <<box, spent, todo, probing, allowed, outcome, expired, wasReady, listed>>
    BY <1>6 DEF EndPass
  <2>2. DOMAIN probing = {}
    BY <2>1 DEF Nothing
  <2>3. stage' = "told" => todo = {}
    BY <2>1 DEF PassComplete
  <2>4. QED
    BY <1>t, <2>1, <2>2, <2>3 DEF PassInv, PassTyped, AllAccounted, ProbesHonest, AliveIn
<1>7. CASE PassTime
  <2>1. /\ spent < PassLimit /\ spent' = spent + 1
        /\ \A c \in DOMAIN probing : probing[c] < allowed
        /\ probing' = [c \in DOMAIN probing |-> probing[c] + 1]
        /\ UNCHANGED <<box, stage, todo, allowed, outcome, expired, wasReady, listed>>
    BY <1>7 DEF PassTime
  <2>2. \A c \in DOMAIN probing : probing[c] + 1 \in 0..TopLimit
    <3>1. SUFFICES ASSUME NEW c \in DOMAIN probing
                   PROVE  probing[c] + 1 \in 0..TopLimit
      OBVIOUS
    <3>2. probing[c] \in 0..TopLimit /\ allowed \in 0..TopLimit /\ probing[c] < allowed
      BY <1>t, <2>1 DEF PassTyped
    <3>3. QED
      BY <3>2, PassNumbers
  <2>3. DOMAIN probing' = DOMAIN probing /\ probing' \in [DOMAIN probing -> 0..TopLimit]
    BY <2>1, <2>2
  <2>4. spent' \in 0..PassLimit
    BY <1>t, <2>1, PassNumbers DEF PassTyped
  <2>5. QED
    BY <1>t, <2>1, <2>3, <2>4 DEF PassInv, PassTyped, AllAccounted, ProbesHonest, AliveIn
<1>8. CASE UNCHANGED passVars
  BY <1>8, <1>t DEF passVars, PassInv, PassTyped, AllAccounted, ProbesHonest, AliveIn
<1>9. QED
  BY <1>1, <1>2, <1>3, <1>4, <1>5, <1>6, <1>7, <1>8 DEF ReadinessNext, PassStep

LEMMA PassInvSays == PassInv => ReadinessTypeOK /\ VerdictIsWhole
<1> SUFFICES ASSUME PassInv
             PROVE  ReadinessTypeOK /\ VerdictIsWhole
  OBVIOUS
<1>1. ReadinessTypeOK
  BY DEF PassInv, PassTyped, ReadinessTypeOK
<1>2. VerdictIsWhole
  BY DEF PassInv, AllAccounted, ProbesHonest, VerdictIsWhole, Ready, Absent
<1>3. QED
  BY <1>1, <1>2

-----------------------------------------------------------------------------
(* AdmissionGates                                                          *)

\* No refill was admitted blindly that did not cost a strike.
StrikesCount == unmeasured <= nones /\ unmeasured < Strikes

\* A pause is no older than the time without an admission, and what was
\* reported since the last admission was reported in the pause that still runs.
PauseTold ==
  /\ episode.open => episode.age <= idle
  /\ reported => episode.open /\ episode.alerted

GatesInv == GatesTypeOK /\ StrikesCount /\ PauseTold

LEMMA GateNumbers ==
  /\ Strikes \in Nat /\ Strikes > 0 /\ AlertAfter \in Nat /\ AlertAfter > 0
  /\ WindowSize \in Nat /\ WindowSize > 0 /\ 0 \in Levels
  BY GatesAssumption

LEMMA PushKeeps ==
  ASSUME NEW w \in Seq(Readings), Len(w) <= WindowSize, NEW r \in Readings
  PROVE  Push(w, r) \in Seq(Readings) /\ Len(Push(w, r)) <= WindowSize
<1>1. Len(w) \in Nat
  OBVIOUS
<1>2. CASE Len(w) < WindowSize
  <2>1. Append(w, r) \in Seq(Readings) /\ Len(Append(w, r)) = Len(w) + 1
    OBVIOUS
  <2>2. QED
    BY <1>1, <1>2, <2>1, GateNumbers DEF Push
<1>3. CASE ~(Len(w) < WindowSize)
  <2>1. w # << >>
    BY <1>3, GateNumbers
  <2>2. Tail(w) \in Seq(Readings) /\ Len(Tail(w)) = Len(w) - 1
    BY <2>1
  <2>3. Append(Tail(w), r) \in Seq(Readings) /\ Len(Append(Tail(w), r)) = Len(w)
    BY <1>1, <2>2
  <2>4. QED
    BY <1>3, <2>3 DEF Push
<1>4. QED
  BY <1>2, <1>3

LEMMA WindowKeeps ==
  ASSUME GatesTypeOK, NEW src \in Sources
  PROVE  /\ WindowFor(src) \in Seq(Readings) /\ Len(WindowFor(src)) <= WindowSize
         /\ \A level \in Levels :
              LET w == Push(WindowFor(src), [level |-> level, from |-> src])
              IN  w \in Seq(Readings) /\ Len(w) <= WindowSize
<1>1. WindowFor(src) \in Seq(Readings) /\ Len(WindowFor(src)) <= WindowSize
  BY GateNumbers DEF GatesTypeOK, WindowFor
<1>2. \A level \in Levels : [level |-> level, from |-> src] \in Readings
  BY DEF Readings
<1>3. QED
  BY <1>1, <1>2, PushKeeps

LEMMA GatesInitInv == GatesInit => GatesInv
<1> SUFFICES ASSUME GatesInit
             PROVE  GatesInv
  OBVIOUS
<1>1. NoPause \in [age : 0..AlertAfter, alerted : BOOLEAN, open : BOOLEAN]
  BY GateNumbers DEF NoPause
<1>2. << >> \in Seq(Readings) /\ Len(<< >>) = 0
  OBVIOUS
<1>3. 0 \in 0..Strikes /\ 0 \in 0..AlertAfter /\ 0 <= WindowSize /\ 0 < Strikes
  BY GateNumbers
<1>4. GatesTypeOK
  BY <1>1, <1>2, <1>3 DEF GatesInit, GatesTypeOK
<1>5. StrikesCount
  BY <1>3 DEF GatesInit, StrikesCount
<1>6. PauseTold
  BY DEF GatesInit, PauseTold, NoPause
<1>7. QED
  BY <1>4, <1>5, <1>6 DEF GatesInv

\* The disk guard: what it leaves of the strikes, and of what it let pass.
BlindKept ==
  /\ nones' \in 0..Strikes /\ unmeasured' \in 0..Strikes /\ StrikesCount'

LEMMA DiskPassesKeeps ==
  ASSUME GatesInv, NEW measured \in BOOLEAN, NEW blinded \in {unmeasured, MoreUnmeasured(unmeasured)},
         DiskPasses(measured), unmeasured' = IF measured THEN 0 ELSE blinded
  PROVE  BlindKept
<1>1. /\ nones \in 0..Strikes /\ unmeasured \in 0..Strikes /\ unmeasured <= nones
      /\ unmeasured < Strikes
  BY DEF GatesInv, GatesTypeOK, StrikesCount
<1>2. CASE measured
  BY <1>2, GateNumbers DEF DiskPasses, BlindKept, StrikesCount
<1>3. CASE ~measured
  <2>1. nones' = nones + 1 /\ ~(nones + 1 >= Strikes)
    BY <1>3 DEF DiskPasses, StruckOut
  <2>2. blinded \in 0..Strikes /\ blinded <= unmeasured + 1
    BY <1>1, GateNumbers DEF MoreUnmeasured
  <2>3. unmeasured' = blinded
    BY <1>3
  <2>4. QED
    BY <1>1, <2>1, <2>2, <2>3, GateNumbers DEF BlindKept, StrikesCount
<1>4. QED
  BY <1>2, <1>3

\* What a tick does to the history of the pause.
PauseSteps ==
  /\ episode' \in [age : 0..AlertAfter, alerted : BOOLEAN, open : BOOLEAN]
  /\ idle' \in 0..AlertAfter /\ reported' \in BOOLEAN /\ alert' \in BOOLEAN
  /\ PauseTold'
  /\ alert' /\ ~alert => idle = AlertAfter /\ ~reported

LEMMA PauseTypes ==
  ASSUME GatesInv
  PROVE  /\ episode \in [age : 0..AlertAfter, alerted : BOOLEAN, open : BOOLEAN]
         /\ episode.age \in 0..AlertAfter /\ episode.alerted \in BOOLEAN /\ episode.open \in BOOLEAN
         /\ idle \in 0..AlertAfter /\ reported \in BOOLEAN /\ alert \in BOOLEAN
         /\ episode.open => episode.age <= idle
         /\ reported => episode.open /\ episode.alerted
  BY DEF GatesInv, GatesTypeOK, PauseTold

LEMMA QuietlySteps ==
  ASSUME GatesInv, Quietly
  PROVE  PauseSteps
  BY PauseTypes DEF Quietly, PauseSteps, PauseTold

LEMMA ServingSteps ==
  ASSUME GatesInv, Serving
  PROVE  PauseSteps
<1>1. NoPause \in [age : 0..AlertAfter, alerted : BOOLEAN, open : BOOLEAN] /\ ~NoPause.open
  BY GateNumbers DEF NoPause
<1>2. episode' = NoPause /\ idle' = 0 /\ reported' = FALSE /\ alert' = FALSE
  BY DEF Serving
<1>3. 0 \in 0..AlertAfter
  BY GateNumbers
<1>4. PauseTold'
  BY <1>1, <1>2 DEF PauseTold
<1>5. QED
  BY <1>1, <1>2, <1>3, <1>4 DEF PauseSteps

LEMMA PausedSteps ==
  ASSUME GatesInv, NEW headroom \in BOOLEAN, NEW due \in BOOLEAN,
         due => AlertDue(TRUE, headroom),
         episode' = EpisodeAfter(TRUE, due), alert' = due, reported' = (reported \/ due),
         UNCHANGED idle
  PROVE  PauseSteps
<1>1. PICK a \in 0..AlertAfter, b \in BOOLEAN, c \in BOOLEAN, z \in 0..AlertAfter :
        /\ episode.age = a /\ episode.alerted = b /\ episode.open = c /\ idle = z
        /\ c => a <= z
        /\ reported => c /\ b
  BY PauseTypes
<1>2. episode' = [open |-> TRUE, age |-> IF c THEN a ELSE 0, alerted |-> due \/ (c /\ b)]
  BY <1>1 DEF EpisodeAfter
<1>3. /\ (IF c THEN a ELSE 0) \in 0..AlertAfter /\ (IF c THEN a ELSE 0) <= z
      /\ (due \/ (c /\ b)) \in BOOLEAN
  BY <1>1, GateNumbers
<1>s. \A x, y : LET e == [open |-> TRUE, age |-> x, alerted |-> y]
               IN  /\ e.open = TRUE /\ e.age = x /\ e.alerted = y
                   /\ x \in 0..AlertAfter /\ y \in BOOLEAN =>
                        e \in [age : 0..AlertAfter, alerted : BOOLEAN, open : BOOLEAN]
  OBVIOUS
<1>4. episode' \in [age : 0..AlertAfter, alerted : BOOLEAN, open : BOOLEAN]
  <2>1. PICK x \in 0..AlertAfter, y \in BOOLEAN : x = (IF c THEN a ELSE 0) /\ y = (due \/ (c /\ b))
    BY <1>3
  <2>2. episode' = [open |-> TRUE, age |-> x, alerted |-> y]
    BY <1>2, <2>1
  <2>3. [open |-> TRUE, age |-> x, alerted |-> y]
          \in [age : 0..AlertAfter, alerted : BOOLEAN, open : BOOLEAN]
    BY <1>s, Zenon
  <2>4. QED
    BY <2>2, <2>3
<1>5. /\ episode'.open = TRUE /\ episode'.age = (IF c THEN a ELSE 0)
      /\ episode'.alerted = (due \/ (c /\ b))
  <2>1. PICK x, y, e : e = episode' /\ x = (IF c THEN a ELSE 0) /\ y = (due \/ (c /\ b))
    OBVIOUS
  <2>2. e = [open |-> TRUE, age |-> x, alerted |-> y]
    BY <1>2, <2>1
  <2>3. e.open = TRUE /\ e.age = x
    BY <2>2
  <2>4. e.alerted = y
    BY <1>s, <2>2, Zenon
  <2>5. QED
    BY <2>1, <2>3, <2>4
<1>6. due => c /\ ~b /\ a = AlertAfter
  BY <1>1 DEF AlertDue
<1>7. due => z = AlertAfter /\ ~reported
  BY <1>1, <1>6, GateNumbers
<1>8. PauseTold'
  BY <1>1, <1>3, <1>5 DEF PauseTold
<1>9. QED
  BY <1>1, <1>4, <1>7, <1>8, PauseTypes DEF PauseSteps

\* The kinds of ticks.
TickKept ==
  /\ window' \in Seq(Readings) /\ Len(window') <= WindowSize
  /\ source' \in Sources \cup {NoSource}
  /\ verdict' \in {"none", "full", "refused", "starved", "paused", "admitted"}
  /\ BlindKept /\ PauseSteps

LEMMA TickKeeps == TickKept => GatesInv' /\ (alert' /\ ~alert => idle = AlertAfter /\ ~reported)
  BY DEF TickKept, GatesInv, GatesTypeOK, BlindKept, PauseSteps

LEMMA BlindStays ==
  ASSUME GatesInv
  PROVE  /\ UNCHANGED <<nones, unmeasured>> => BlindKept
         /\ nones' = 0 /\ unmeasured' = 0 => BlindKept
         /\ nones' = (IF nones < Strikes THEN nones + 1 ELSE nones) /\ UNCHANGED unmeasured => BlindKept
<1>1. /\ nones \in 0..Strikes /\ unmeasured \in 0..Strikes /\ unmeasured <= nones
      /\ unmeasured < Strikes
  BY DEF GatesInv, GatesTypeOK, StrikesCount
<1>2. UNCHANGED <<nones, unmeasured>> => BlindKept
  BY <1>1 DEF BlindKept, StrikesCount
<1>3. nones' = 0 /\ unmeasured' = 0 => BlindKept
  BY GateNumbers DEF BlindKept, StrikesCount
<1>4. nones' = (IF nones < Strikes THEN nones + 1 ELSE nones) /\ UNCHANGED unmeasured => BlindKept
  BY <1>1, GateNumbers DEF BlindKept, StrikesCount
<1>5. QED
  BY <1>2, <1>3, <1>4

LEMMA EnsureTickKeeps ==
  ASSUME GatesInv, EnsureTick
  PROVE  TickKept
<1>t. GatesTypeOK /\ window \in Seq(Readings) /\ Len(window) <= WindowSize
      /\ source \in Sources \cup {NoSource}
  BY DEF GatesInv, GatesTypeOK
<1>1. CASE Barred
  BY <1>1, <1>t, BlindStays, QuietlySteps DEF Barred, TickKept
<1>2. ASSUME NEW src \in Sources
      PROVE  /\ Full(src) => TickKept
             /\ HostDiskRefuses(src) => TickKept
             /\ DiskFloorRefuses(src) => TickKept
             /\ DiskUnknownRefuses(src) => TickKept
  <2>1. ASSUME source' = src, window' = WindowFor(src), verdict' \in {"full", "refused"}
        PROVE  /\ window' \in Seq(Readings) /\ Len(window') <= WindowSize
               /\ source' \in Sources \cup {NoSource}
               /\ verdict' \in {"none", "full", "refused", "starved", "paused", "admitted"}
    BY <1>t, <1>2, <2>1, WindowKeeps
  <2>2. Full(src) => TickKept
    BY <2>1, BlindStays, ServingSteps DEF Full, TickKept
  <2>3. HostDiskRefuses(src) => TickKept
    BY <2>1, BlindStays, QuietlySteps DEF HostDiskRefuses, TickKept
  <2>4. DiskFloorRefuses(src) => TickKept
    BY <2>1, BlindStays, QuietlySteps DEF DiskFloorRefuses, TickKept
  <2>5. DiskUnknownRefuses(src) => TickKept
    BY <2>1, BlindStays, QuietlySteps DEF DiskUnknownRefuses, TickKept
  <2>6. QED
    BY <2>2, <2>3, <2>4, <2>5
<1>3. ASSUME NEW src \in Sources, NEW measured \in BOOLEAN, NEW level \in Levels,
             NEW memory \in {"scarce", "enough", "ample"}, MemoryGate(src, measured, level, memory)
      PROVE  TickKept
  <2> DEFINE pushed == Push(WindowFor(src), [level |-> level, from |-> src])
             refused == Refuses(level, memory)
             stops == refused \/ Rising(pushed)
             due == AlertDue(stops, memory = "ample")
  <2>1. /\ DiskPasses(measured) /\ source' = src
        /\ window' = IF refused THEN WindowFor(src) ELSE pushed
        /\ unmeasured' = IF measured THEN 0 ELSE IF stops THEN unmeasured ELSE MoreUnmeasured(unmeasured)
    BY <1>3 DEF MemoryGate
  <2>2. IF stops
        THEN /\ verdict' = IF memory = "ample" THEN "starved" ELSE "paused"
             /\ episode' = EpisodeAfter(TRUE, due) /\ alert' = due
             /\ reported' = (reported \/ due) /\ UNCHANGED idle
        ELSE verdict' = "admitted" /\ Serving
    BY <1>3 DEF MemoryGate
  <2>3. /\ pushed \in Seq(Readings) /\ Len(pushed) <= WindowSize
        /\ WindowFor(src) \in Seq(Readings) /\ Len(WindowFor(src)) <= WindowSize
    BY <1>t, <1>3, WindowKeeps
  <2>4. due \in BOOLEAN /\ (due => AlertDue(TRUE, memory = "ample")) /\ (memory = "ample") \in BOOLEAN
    BY DEF AlertDue
  <2> HIDE DEF pushed, refused, stops, due
  <2>5. window' \in Seq(Readings) /\ Len(window') <= WindowSize
    BY <2>1, <2>3
  <2>6. BlindKept
    BY <1>3, <2>1, DiskPassesKeeps
  <2>7. PauseSteps
    <3>1. CASE stops
      BY <2>2, <2>4, <3>1, PausedSteps
    <3>2. CASE ~stops
      BY <2>2, <3>2, ServingSteps
    <3>3. QED
      BY <3>1, <3>2
  <2>8. verdict' \in {"none", "full", "refused", "starved", "paused", "admitted"}
    BY <2>2
  <2>9. QED
    BY <1>3, <2>1, <2>5, <2>6, <2>7, <2>8 DEF TickKept
<1>4. ASSUME NEW src \in Sources, NEW measured \in BOOLEAN, ProbeFails(src, measured)
      PROVE  TickKept
  <2>1. /\ DiskPasses(measured) /\ source' = src
        /\ window' = Push(WindowFor(src), [level |-> 0, from |-> src])
        /\ unmeasured' = IF measured THEN 0 ELSE IF HostReserve THEN unmeasured ELSE MoreUnmeasured(unmeasured)
    BY <1>4 DEF ProbeFails
  <2>2. IF HostReserve
        THEN /\ verdict' = "paused" /\ episode' = EpisodeAfter(TRUE, FALSE) /\ alert' = FALSE
             /\ UNCHANGED <<idle, reported>>
        ELSE verdict' = "admitted" /\ Serving
    BY <1>4 DEF ProbeFails
  <2>3. window' \in Seq(Readings) /\ Len(window') <= WindowSize
    BY <1>4, <1>t, <2>1, WindowKeeps, GateNumbers
  <2>4. BlindKept
    BY <1>4, <2>1, DiskPassesKeeps
  <2>5. PauseSteps
    <3>1. CASE HostReserve
      <4>1. reported' = (reported \/ FALSE)
        BY <2>2, <3>1, PauseTypes
      <4>2. QED
        BY <2>2, <3>1, <4>1, PausedSteps
    <3>2. CASE ~HostReserve
      BY <2>2, <3>2, ServingSteps
    <3>3. QED
      BY <3>1, <3>2
  <2>6. verdict' \in {"none", "full", "refused", "starved", "paused", "admitted"}
    BY <2>2
  <2>7. QED
    BY <1>4, <2>1, <2>3, <2>4, <2>5, <2>6 DEF TickKept
<1>5. QED
  BY <1>1, <1>2, <1>3, <1>4 DEF EnsureTick

LEMMA GatesStepInv ==
  GatesInv /\ [GatesNext]_gateVars =>
    GatesInv' /\ ((alert' /\ ~alert) => (idle = AlertAfter /\ ~reported))
<1> SUFFICES ASSUME GatesInv, [GatesNext]_gateVars
             PROVE  GatesInv' /\ ((alert' /\ ~alert) => (idle = AlertAfter /\ ~reported))
  OBVIOUS
<1>1. CASE EnsureTick
  BY <1>1, EnsureTickKeeps, TickKeeps
<1>2. CASE GateElapse
  <2>1. /\ idle' = Older(idle)
        /\ episode' = IF episode.open THEN [episode EXCEPT !.age = Older(episode.age)] ELSE episode
        /\ UNCHANGED <<nones, window, source, verdict, reported, alert, unmeasured>>
    BY <1>2 DEF GateElapse
  <2>2. Older(idle) \in 0..AlertAfter /\ Older(episode.age) \in 0..AlertAfter
        /\ (episode.age <= idle => Older(episode.age) <= Older(idle))
        /\ idle <= Older(idle)
    BY PauseTypes, GateNumbers DEF Older
  <2>3. /\ episode' \in [age : 0..AlertAfter, alerted : BOOLEAN, open : BOOLEAN]
        /\ episode'.open = episode.open /\ episode'.alerted = episode.alerted
        /\ episode.open => episode'.age = Older(episode.age)
    BY <2>1, <2>2, PauseTypes
  <2>4. GatesTypeOK'
    BY <2>1, <2>2, <2>3 DEF GatesInv, GatesTypeOK
  <2>5. PauseTold'
    BY <2>1, <2>2, <2>3, PauseTypes DEF PauseTold
  <2>6. StrikesCount'
    BY <2>1 DEF GatesInv, StrikesCount
  <2>7. QED
    BY <2>1, <2>4, <2>5, <2>6 DEF GatesInv
<1>3. CASE UNCHANGED gateVars
  BY <1>3 DEF gateVars, GatesInv, GatesTypeOK, StrikesCount, PauseTold
<1>4. QED
  BY <1>1, <1>2, <1>3 DEF GatesNext

LEMMA GatesInvSays == GatesInv => GatesTypeOK /\ BlindRefillsBounded
  BY DEF GatesInv, StrikesCount, BlindRefillsBounded

-----------------------------------------------------------------------------
(* AdmissionBudget                                                         *)

\* What the batch that is open may still start fits under the slice, and only
\* one batch has any start left.
BudgetRoom ==
  \A d \in Daemons :
    /\ holder # d => slots[d] = 0
    /\ slots[d] > 0 => used + (slots[d] * RunnerCap[d]) <= Hard + excess

StrayCaps == [d \in Daemons |-> strays[d] * RunnerCap[d]]

\* The excess is what the containers that came late were given.
ExcessIsOfStrays == \E g : Sums(g, StrayCaps, Daemons) /\ excess = g[Daemons]

BudgetInv == BudgetTypeOK /\ BudgetHeld /\ BudgetRoom /\ ExcessIsOfStrays

LEMMA CapTimes ==
  ASSUME NEW r \in Nat, NEW c \in Nat, c > 0
  PROVE  r \div c \in Nat /\ \A m \in Nat : m <= r \div c => m * c <= r
  OBVIOUS

LEMMA Times ==
  ASSUME NEW n \in Nat, NEW c \in Nat
  PROVE  /\ n * c \in Nat /\ (n + 1) * c = (n * c) + c
         /\ n > 0 => (n - 1) * c = (n * c) - c /\ n * c >= c
  OBVIOUS

LEMMA Shifted ==
  ASSUME NEW u \in Int, NEW v \in Int, NEW x \in Int, NEW y \in Int, NEW h \in Int,
         v - y <= u - x, u <= h + x
  PROVE  v <= h + y
  OBVIOUS

LEMMA Moved ==
  ASSUME NEW u \in Int, NEW v \in Int, NEW x \in Int, NEW y \in Int, NEW h \in Int,
         NEW k \in Nat, v - y <= u - x, u + k <= h + x
  PROVE  v + k <= h + y
  OBVIOUS

LEMMA BudgetNumbers ==
  ASSUME BudgetTypeOK
  PROVE  /\ Hard \in Nat /\ MaxLate \in Nat /\ Nobody \notin Daemons /\ IsFiniteSet(Daemons)
         /\ used \in Int /\ excess \in Int
         /\ \A d \in Daemons : /\ RunnerCap[d] \in Nat /\ RunnerCap[d] > 0 /\ Wanted[d] \in Nat
                               /\ slots[d] \in Nat /\ live[d] \in Nat /\ late[d] \in Nat
                               /\ strays[d] \in Nat /\ slots[d] * RunnerCap[d] \in Nat
  BY BudgetAssumption, Times DEF BudgetTypeOK

\* The excess is never negative, and changes with the strays of a daemon.
LEMMA ExcessKnown ==
  ASSUME BudgetTypeOK, ExcessIsOfStrays
  PROVE  excess >= 0
<1>1. PICK g : Sums(g, StrayCaps, Daemons) /\ excess = g[Daemons]
  BY DEF ExcessIsOfStrays
<1>2. \A d \in Daemons : StrayCaps[d] \in Nat
  BY BudgetNumbers, Times DEF StrayCaps
<1>3. QED
  BY <1>1, <1>2, BudgetNumbers, SumsOfNaturals

LEMMA ExcessMoves ==
  ASSUME BudgetTypeOK, ExcessIsOfStrays, NEW d \in Daemons, NEW n \in Nat,
         strays' = [strays EXCEPT ![d] = n],
         excess' = excess + (n * RunnerCap[d]) - (strays[d] * RunnerCap[d])
  PROVE  ExcessIsOfStrays'
<1>1. PICK g : Sums(g, StrayCaps, Daemons) /\ excess = g[Daemons]
  BY DEF ExcessIsOfStrays
<1>2. \A e \in Daemons : strays'[e] = IF e = d THEN n ELSE strays[e]
  BY DEF BudgetTypeOK
<1>3. \A e \in Daemons : StrayCaps[e] \in Int /\ StrayCaps'[e] \in Int
  <2>1. SUFFICES ASSUME NEW e \in Daemons
                 PROVE  StrayCaps[e] \in Int /\ StrayCaps'[e] \in Int
    OBVIOUS
  <2>2. strays'[e] \in Nat /\ strays[e] \in Nat /\ RunnerCap[e] \in Nat
    BY <1>2, BudgetNumbers
  <2>3. QED
    BY <2>2, Times DEF StrayCaps
<1>4. /\ StrayCaps'[d] = n * RunnerCap[d] /\ StrayCaps[d] = strays[d] * RunnerCap[d]
      /\ \A e \in Daemons \ {d} : StrayCaps[e] = StrayCaps'[e]
  BY <1>2 DEF StrayCaps
<1>5. PICK h : Sums(h, StrayCaps', Daemons)
  BY <1>3, BudgetNumbers, SumsExist
<1>6. h[Daemons] = g[Daemons] - StrayCaps[d] + StrayCaps'[d]
  BY <1>1, <1>3, <1>4, <1>5, BudgetNumbers, SumsChange
<1>7. excess' = h[Daemons]
  BY <1>1, <1>3, <1>4, <1>6, BudgetNumbers
<1>8. QED
  BY <1>5, <1>7 DEF ExcessIsOfStrays

LEMMA BudgetInitInv == BudgetInit => BudgetInv
<1> SUFFICES ASSUME BudgetInit
             PROVE  BudgetInv
  OBVIOUS
<1>1. BudgetTypeOK
  BY DEF BudgetInit, BudgetTypeOK
<1>2. \A d \in Daemons : StrayCaps[d] = 0
  <2>1. \A d \in Daemons : strays[d] = 0
    BY DEF BudgetInit
  <2>2. \A d \in Daemons : 0 * RunnerCap[d] = 0
    BY <1>1, BudgetNumbers
  <2>3. QED
    BY <2>1, <2>2 DEF StrayCaps
<1>3. PICK g : Sums(g, StrayCaps, Daemons)
  BY <1>1, <1>2, BudgetNumbers, SumsExist
<1>4. g[Daemons] = 0
  <2>1. g[Daemons] \in Nat /\ g[Daemons] <= Cardinality(Daemons) * 0
    BY <1>1, <1>2, <1>3, BudgetNumbers, SumsBounded
  <2>2. Cardinality(Daemons) * 0 = 0
    BY <1>1, BudgetNumbers, FS_CardinalityType
  <2>3. QED
    BY <2>1, <2>2
<1>5. ExcessIsOfStrays
  BY <1>3, <1>4 DEF ExcessIsOfStrays, BudgetInit
<1>6. QED
  BY <1>1, <1>5, BudgetNumbers DEF BudgetInit, BudgetInv, BudgetHeld, BudgetRoom

LEMMA BudgetStepInv == BudgetInv /\ [BudgetNext]_budgetVars => BudgetInv'
<1> SUFFICES ASSUME BudgetInv, [BudgetNext]_budgetVars
             PROVE  BudgetInv'
  OBVIOUS
<1>t. /\ BudgetTypeOK /\ BudgetHeld /\ BudgetRoom /\ ExcessIsOfStrays
      /\ Hard \in Nat /\ used \in Int /\ excess \in Int /\ excess >= 0
      /\ slots \in [Daemons -> Nat] /\ live \in [Daemons -> Nat] /\ late \in [Daemons -> Nat]
      /\ strays \in [Daemons -> Nat] /\ used <= Hard + excess
  BY BudgetNumbers, ExcessKnown DEF BudgetInv, BudgetTypeOK, BudgetHeld
<1>n. ASSUME NEW d \in Daemons
      PROVE  /\ RunnerCap[d] \in Nat /\ RunnerCap[d] > 0 /\ slots[d] \in Nat /\ live[d] \in Nat
             /\ late[d] \in Nat /\ strays[d] \in Nat /\ slots[d] * RunnerCap[d] \in Nat
             /\ d # Nobody /\ Wanted[d] \in Nat
             /\ holder # d => slots[d] = 0
             /\ slots[d] > 0 => used + (slots[d] * RunnerCap[d]) <= Hard + excess
  BY <1>t, BudgetNumbers DEF BudgetRoom
<1>s. UNCHANGED strays /\ UNCHANGED excess => ExcessIsOfStrays'
  BY <1>t DEF ExcessIsOfStrays, StrayCaps
<1>1. ASSUME NEW d \in Daemons, OpenBatch(d)
      PROVE  BudgetInv'
  <2>1. holder = Nobody /\ holder' = d /\ slots' = [slots EXCEPT ![d] = Granted(d)]
        /\ Alive(d) < Wanted[d] /\ UNCHANGED <<live, used, late, strays, excess>>
    BY <1>1 DEF OpenBatch
  <2>2. Alive(d) \in Nat /\ Wanted[d] - Alive(d) \in Nat
    BY <1>n, <2>1 DEF Alive
  <2>3. Room(d) \in Nat /\ (Room(d) > 0 =>
          used <= Hard /\ \A m \in Nat : m <= Room(d) => m * RunnerCap[d] <= Hard - used)
    <3>1. CASE used > Hard
      BY <1>t, <3>1 DEF Room
    <3>2. CASE ~(used > Hard)
      <4>1. Hard - used \in Nat /\ used <= Hard /\ Room(d) = (Hard - used) \div RunnerCap[d]
        BY <1>t, <3>2 DEF Room
      <4>2. QED
        BY <1>n, <4>1, CapTimes
    <3>3. QED
      BY <3>1, <3>2
  <2>4. Granted(d) \in Nat /\ Granted(d) <= Room(d)
    BY <2>2, <2>3 DEF Granted
  <2>5. Granted(d) > 0 => used + (Granted(d) * RunnerCap[d]) <= Hard + excess
    <3>1. SUFFICES ASSUME Granted(d) > 0
                   PROVE  used + (Granted(d) * RunnerCap[d]) <= Hard + excess
      OBVIOUS
    <3>2. Granted(d) * RunnerCap[d] <= Hard - used
      BY <2>3, <2>4, <3>1
    <3>3. Granted(d) * RunnerCap[d] \in Nat
      BY <1>n, <2>4, Times
    <3>4. QED
      BY <1>t, <3>2, <3>3
  <2>6. BudgetTypeOK'
    BY <1>t, <2>1, <2>4 DEF BudgetTypeOK
  <2>7. BudgetRoom'
    <3>1. SUFFICES ASSUME NEW e \in Daemons
                   PROVE  /\ d # e => slots'[e] = 0
                          /\ slots'[e] > 0 =>
                               used + (slots'[e] * RunnerCap[e]) <= Hard + excess
      BY <2>1 DEF BudgetRoom
    <3>2. CASE e = d
      BY <1>t, <2>1, <2>5, <3>2
    <3>3. CASE e # d
      <4>1. slots'[e] = slots[e] /\ slots[e] = 0
        BY <1>t, <1>n, <2>1, <3>3
      <4>2. QED
        BY <3>3, <4>1
    <3>4. QED
      BY <3>2, <3>3
  <2>8. QED
    BY <1>s, <1>t, <2>1, <2>6, <2>7 DEF BudgetInv, BudgetHeld
<1>2. ASSUME NEW d \in Daemons, Take(d), UNCHANGED <<strays, excess>>,
             \/ UNCHANGED used
             \/ used' = used + RunnerCap[d],
             live' \in [Daemons -> Nat], late' \in [Daemons -> Nat]
      PROVE  BudgetInv'
  <2>1. holder = d /\ slots[d] > 0 /\ slots' = [slots EXCEPT ![d] = slots[d] - 1]
        /\ holder' = holder
    BY <1>2 DEF Take
  <2>2. slots[d] - 1 \in Nat /\ (slots[d] - 1) * RunnerCap[d] = (slots[d] * RunnerCap[d]) - RunnerCap[d]
        /\ slots[d] * RunnerCap[d] >= RunnerCap[d]
    BY <1>n, <2>1, Times
  <2>3. BudgetTypeOK' /\ used' \in Int
    BY <1>2, <1>n, <1>t, <2>1, <2>2 DEF BudgetTypeOK
  <2>4. used + (slots[d] * RunnerCap[d]) <= Hard + excess
    BY <1>n, <2>1
  <2>5. used' + ((slots[d] - 1) * RunnerCap[d]) <= Hard + excess /\ used' <= Hard + excess
    BY <1>2, <1>n, <1>t, <2>2, <2>4
  <2>6. BudgetRoom'
    <3>1. SUFFICES ASSUME NEW e \in Daemons
                   PROVE  /\ holder # e => slots'[e] = 0
                          /\ slots'[e] > 0 =>
                               used' + (slots'[e] * RunnerCap[e]) <= Hard + excess
      BY <1>2, <2>1 DEF BudgetRoom
    <3>2. CASE e = d
      BY <1>t, <2>1, <2>5, <3>2
    <3>3. CASE e # d
      <4>1. slots'[e] = slots[e] /\ slots[e] = 0
        BY <1>t, <1>n, <2>1, <3>3
      <4>2. QED
        BY <4>1
    <3>4. QED
      BY <3>2, <3>3
  <2>7. QED
    BY <1>2, <1>s, <2>3, <2>5, <2>6 DEF BudgetInv, BudgetHeld
<1>3. ASSUME NEW d \in Daemons, StartWorks(d)
      PROVE  BudgetInv'
  <2>1. Take(d) /\ UNCHANGED <<strays, excess>> /\ used' = used + RunnerCap[d]
        /\ live' = [live EXCEPT ![d] = live[d] + 1] /\ late' = late
    BY <1>3 DEF StartWorks, Take
  <2>2. live[d] + 1 \in Nat
    BY <1>n
  <2>3. live' \in [Daemons -> Nat] /\ late' \in [Daemons -> Nat]
    BY <1>t, <2>1, <2>2
  <2>4. QED
    BY <1>2, <2>1, <2>3
<1>4. ASSUME NEW d \in Daemons, StartFails(d)
      PROVE  BudgetInv'
  BY <1>2, <1>4, <1>t DEF StartFails, Take
<1>5. ASSUME NEW d \in Daemons, StartTimesOut(d)
      PROVE  BudgetInv'
  <2>1. Take(d) /\ UNCHANGED <<strays, excess>> /\ used' = used
        /\ late' = [late EXCEPT ![d] = late[d] + 1] /\ live' = live
    BY <1>5 DEF StartTimesOut, Take
  <2>2. late[d] + 1 \in Nat
    BY <1>n
  <2>3. live' \in [Daemons -> Nat] /\ late' \in [Daemons -> Nat]
    BY <1>t, <2>1, <2>2
  <2>4. QED
    BY <1>2, <2>1, <2>3
<1>6. ASSUME NEW d \in Daemons, DropBatch(d)
      PROVE  BudgetInv'
  <2>1. holder = d /\ holder' = Nobody /\ slots' = [slots EXCEPT ![d] = 0]
        /\ UNCHANGED <<live, used, late, strays, excess>>
    BY <1>6 DEF DropBatch, Released
  <2>2. BudgetTypeOK'
    BY <1>t, <2>1 DEF BudgetTypeOK
  <2>3. \A e \in Daemons : slots'[e] = 0
    BY <1>t, <1>n, <2>1
  <2>4. BudgetRoom'
    BY <2>3 DEF BudgetRoom
  <2>5. QED
    BY <1>s, <1>t, <2>1, <2>2, <2>4 DEF BudgetInv, BudgetHeld
<1>7. ASSUME NEW d \in Daemons, UNCHANGED <<holder, slots>>,
             BudgetTypeOK', ExcessIsOfStrays', used' - excess' <= used - excess
      PROVE  BudgetInv'
  <2>1. used' \in Int /\ excess' \in Int
    BY <1>7 DEF BudgetTypeOK
  <2>2. used' <= Hard + excess'
    <3>1. used' - excess' <= used - excess
      BY <1>7
    <3>2. used \in Int /\ excess \in Int /\ Hard \in Int /\ used <= Hard + excess
      BY <1>t
    <3>3. QED
      BY <2>1, <3>1, <3>2, Shifted
  <2>3. BudgetRoom'
    <3>1. SUFFICES ASSUME NEW e \in Daemons
                   PROVE  /\ holder # e => slots[e] = 0
                          /\ slots[e] > 0 =>
                               used' + (slots[e] * RunnerCap[e]) <= Hard + excess'
      BY <1>7 DEF BudgetRoom
    <3>2. holder # e => slots[e] = 0
      BY <1>n
    <3>3. SUFFICES ASSUME slots[e] > 0
                   PROVE  used' + (slots[e] * RunnerCap[e]) <= Hard + excess'
      BY <3>2
    <3>4. PICK k \in Nat : k = slots[e] * RunnerCap[e]
      BY <1>n
    <3>5. used + k <= Hard + excess
      BY <1>n, <3>3, <3>4
    <3>6. used' - excess' <= used - excess
      BY <1>7
    <3>7. used \in Int /\ excess \in Int /\ Hard \in Int
      BY <1>t
    <3>8. used' + k <= Hard + excess'
      <4>1. SUFFICES ASSUME NEW u \in Int, NEW v \in Int, NEW x \in Int, NEW y \in Int,
                            NEW h \in Int,
                            u = used, v = used', x = excess, y = excess', h = Hard
                     PROVE  v + k <= h + y
        BY <2>1, <3>7
      <4>2. v - y <= u - x
        BY <3>6, <4>1
      <4>3. u + k <= h + x
        BY <3>5, <4>1
      <4>4. QED
        BY <4>2, <4>3
    <3>9. QED
      BY <3>4, <3>8
  <2>4. QED
    BY <1>7, <2>2, <2>3 DEF BudgetInv, BudgetHeld
<1>8. ASSUME NEW d \in Daemons, CreatedLate(d)
      PROVE  BudgetInv'
  <2>1. late[d] > 0 /\ late' = [late EXCEPT ![d] = late[d] - 1]
        /\ strays' = [strays EXCEPT ![d] = strays[d] + 1]
        /\ used' = used + RunnerCap[d] /\ excess' = excess + RunnerCap[d]
        /\ UNCHANGED <<holder, slots, live>>
    BY <1>8 DEF CreatedLate
  <2>2. late[d] - 1 \in Nat /\ strays[d] + 1 \in Nat
        /\ (strays[d] + 1) * RunnerCap[d] = (strays[d] * RunnerCap[d]) + RunnerCap[d]
        /\ strays[d] * RunnerCap[d] \in Nat
    <3>1. late[d] \in Nat /\ late[d] > 0 /\ strays[d] \in Nat /\ RunnerCap[d] \in Nat
      BY <1>n, <2>1
    <3>2. late[d] - 1 \in Nat /\ strays[d] + 1 \in Nat
      BY <3>1
    <3>3. QED
      BY <3>1, <3>2, Times
  <2>3. BudgetTypeOK'
    BY <1>n, <1>t, <2>1, <2>2 DEF BudgetTypeOK
  <2>4. excess' = excess + ((strays[d] + 1) * RunnerCap[d]) - (strays[d] * RunnerCap[d])
    BY <1>n, <1>t, <2>1, <2>2
  <2>5. ExcessIsOfStrays'
    BY <1>t, <2>1, <2>2, <2>4, ExcessMoves
  <2>6. QED
    BY <1>7, <1>n, <1>t, <2>1, <2>3, <2>5
<1>9. ASSUME NEW d \in Daemons, Exits(d)
      PROVE  BudgetInv'
  <2>1. live[d] > 0 /\ live' = [live EXCEPT ![d] = live[d] - 1]
        /\ used' = used - RunnerCap[d] /\ UNCHANGED <<holder, slots, late, strays, excess>>
    BY <1>9 DEF Exits
  <2>2. BudgetTypeOK' /\ used' - excess' <= used - excess
    BY <1>n, <1>t, <2>1 DEF BudgetTypeOK
  <2>3. QED
    BY <1>7, <1>s, <2>1, <2>2
<1>10. ASSUME NEW d \in Daemons, StrayExits(d)
       PROVE  BudgetInv'
  <2>1. strays[d] > 0 /\ strays' = [strays EXCEPT ![d] = strays[d] - 1]
        /\ used' = used - RunnerCap[d] /\ excess' = excess - RunnerCap[d]
        /\ UNCHANGED <<holder, slots, live, late>>
    BY <1>10 DEF StrayExits
  <2>2. strays[d] - 1 \in Nat
        /\ (strays[d] - 1) * RunnerCap[d] = (strays[d] * RunnerCap[d]) - RunnerCap[d]
        /\ strays[d] * RunnerCap[d] \in Nat
    <3>1. strays[d] \in Nat /\ strays[d] > 0 /\ RunnerCap[d] \in Nat
      BY <1>n, <2>1
    <3>2. QED
      BY <3>1, Times
  <2>3. BudgetTypeOK' /\ used' - excess' <= used - excess
    BY <1>n, <1>t, <2>1, <2>2 DEF BudgetTypeOK
  <2>4. excess' = excess + ((strays[d] - 1) * RunnerCap[d]) - (strays[d] * RunnerCap[d])
    BY <1>n, <1>t, <2>1, <2>2
  <2>5. ExcessIsOfStrays'
    BY <1>t, <2>1, <2>2, <2>4, ExcessMoves
  <2>6. QED
    BY <1>7, <2>1, <2>3, <2>5
<1>11. CASE UNCHANGED budgetVars
  <2>1. BudgetTypeOK' /\ BudgetHeld' /\ BudgetRoom'
    BY <1>11, <1>t DEF budgetVars, BudgetTypeOK, BudgetHeld, BudgetRoom
  <2>2. QED
    BY <1>11, <1>s, <2>1 DEF budgetVars, BudgetInv
<1>12. QED
  BY <1>1, <1>3, <1>4, <1>5, <1>6, <1>8, <1>9, <1>10, <1>11 DEF BudgetNext, BatchStep

-----------------------------------------------------------------------------
(* HostLimits                                                              *)

\* The numbers of a configuration.
CfgTyped ==
  /\ cfg \in Configs /\ cfg \in ConfigType
  /\ launch \in {"starting", "serving", "refused"}
  /\ daemonMem \in DaemonSizes /\ {inVm, controller, small, checked, turned} \subseteq BOOLEAN
  /\ cache \in [value : BOOLEAN, age : 0..ProbeTTL]
  /\ grant \in [Places -> Nat] /\ blind \subseteq Places /\ resized \in 0..Resizes
  /\ previewed \in {"none", "pass", "fail", "unknown"}

\* A service that serves passed the checks of its start, and what it was
\* guarded by then still guards it.
StartChecked ==
  launch = "serving" =>
    /\ Valid(cfg) /\ FitsHost(cfg)
    /\ cfg.vmTotal # 0 => BudgetHolds(cfg.vmTotal)
    /\ cfg.vmTotal = 0 /\ checked /\ ~small => BudgetHolds(daemonMem)

\* Each runner has its share at most.
SharesKept == \A s \in Places \ blind : grant[s] <= Share(VmTotal(daemonMem))

\* What a preview said of a start that is still to come.
PreviewHolds ==
  launch = "starting" =>
    /\ previewed = "pass" => Valid(cfg) /\ BudgetHolds(VmTotal(daemonMem))
    /\ previewed = "fail" => ~BudgetHolds(VmTotal(daemonMem))

LimitsInv == CfgTyped /\ StartChecked /\ SharesKept /\ PreviewHolds /\ PreviewTrue

LEMMA CfgNumbers ==
  ASSUME CfgTyped
  PROVE  /\ cfg.count \in Nat /\ cfg.memory \in Nat /\ cfg.vmTotal \in Nat
         /\ cfg.guestReserve \in Nat /\ cfg.hostReserve \in Nat /\ cfg.floor \in Nat
         /\ cfg.burst \in BOOLEAN /\ daemonMem \in Nat /\ daemonMem # 0
         /\ HostMemory \in Nat /\ ProbeTTL \in Nat /\ ProbeTTL > 0
  BY LimitsAssumption DEF CfgTyped, ConfigType

LEMMA VmTotals ==
  ASSUME CfgTyped
  PROVE  /\ VmTotal(daemonMem) \in Nat /\ VmTotal(daemonMem) # 0
         /\ cfg.vmTotal # 0 => \A m : VmTotal(m) = cfg.vmTotal
         /\ cfg.vmTotal = 0 => \A m : VmTotal(m) = m
         /\ \A m \in Capacity : VmTotal(m) # 0 => VmTotal(m) = VmTotal(daemonMem)
  BY CfgNumbers DEF VmTotal, Capacity

LEMMA ShareOfTotal ==
  ASSUME CfgTyped, NEW t \in Nat
  PROVE  /\ FleetBudget(t) \in Nat
         /\ Valid(cfg) => Share(t) \in Nat /\ Share(t) >= 1
         /\ Valid(cfg) /\ BudgetHolds(t) => cfg.count * Share(t) <= FleetBudget(t)
<1>1. FleetBudget(t) \in Nat
  BY CfgNumbers DEF FleetBudget, Minus
<1>2. ASSUME Valid(cfg)
      PROVE  Share(t) \in Nat /\ Share(t) >= 1
  BY <1>1, <1>2, CfgNumbers DEF Share, Greater, Valid
<1>3. ASSUME Valid(cfg), BudgetHolds(t)
      PROVE  cfg.count * Share(t) <= FleetBudget(t)
  <2>1. PICK n \in Nat, b \in Nat, f \in Nat : n = cfg.count /\ b = FleetBudget(t) /\ f = cfg.floor
    BY <1>1, CfgNumbers
  <2>2. n >= 1 /\ f >= 1 /\ n * f <= b
    BY <1>3, <2>1 DEF Valid, BudgetHolds
  <2>3. n <= n * f
    BY <2>2
  <2>4. b \div n \in Nat /\ n * (b \div n) <= b /\ b \div n >= 1
    BY <2>2, <2>3
  <2>5. Share(t) = b \div n
    BY <2>1, <2>4 DEF Share, Greater
  <2>6. QED
    BY <2>1, <2>4, <2>5
<1>4. QED
  BY <1>1, <1>2, <1>3

LEMMA LimitsInitInv == LimitsInit => LimitsInv
<1> SUFFICES ASSUME LimitsInit
             PROVE  LimitsInv
  OBVIOUS
<1>1. CfgTyped
  <2>1. cache \in [value : BOOLEAN, age : 0..ProbeTTL] /\ 0 \in 0..Resizes
    BY LimitsAssumption DEF LimitsInit
  <2>2. cfg \in ConfigType /\ grant \in [Places -> Nat] /\ blind \subseteq Places
    BY LimitsAssumption DEF LimitsInit
  <2>3. QED
    BY <2>1, <2>2 DEF LimitsInit, CfgTyped
<1>2. \A s \in Places : grant[s] = 0
  BY DEF LimitsInit
<1>3. FleetBudget(VmTotal(daemonMem)) \in Nat
  BY <1>1, VmTotals, ShareOfTotal
<1>4. SharesKept
  <2>1. Share(VmTotal(daemonMem)) >= 1 \/ ~(cfg.count >= 1)
    BY <1>1, <1>3, CfgNumbers DEF Share, Greater
  <2>2. ~(cfg.count >= 1) => Places = {}
    BY <1>1, CfgNumbers DEF Places
  <2>3. CASE cfg.count >= 1
    BY <1>1, <1>2, <1>3, <2>3, CfgNumbers DEF SharesKept, Share, Greater
  <2>4. QED
    BY <2>2, <2>3 DEF SharesKept
<1>5. QED
  BY <1>1, <1>4 DEF LimitsInv, LimitsInit, StartChecked, PreviewHolds, PreviewTrue

LEMMA LimitsStepInv == LimitsInv /\ [LimitsNext]_limitVars => LimitsInv'
<1> SUFFICES ASSUME LimitsInv, [LimitsNext]_limitVars
             PROVE  LimitsInv'
  OBVIOUS
<1>t. CfgTyped /\ StartChecked /\ SharesKept /\ PreviewHolds /\ PreviewTrue
  BY DEF LimitsInv
<1>n. /\ cfg.count \in Nat /\ cfg.memory \in Nat /\ cfg.vmTotal \in Nat
      /\ daemonMem \in Nat /\ daemonMem # 0 /\ cfg.burst \in BOOLEAN
      /\ VmTotal(daemonMem) \in Nat /\ VmTotal(daemonMem) # 0
      /\ \A m \in Capacity : VmTotal(m) # 0 => VmTotal(m) = VmTotal(daemonMem)
  BY <1>t, CfgNumbers, VmTotals
<1>1. CASE StartService
  <2>1. PICK capacity \in Capacity, insideVm \in {inVm, FALSE} :
          /\ launch = "starting"
          /\ launch' = IF /\ Valid(cfg) /\ FitsHost(cfg) /\ ~BurstRefused(capacity, insideVm)
                          /\ VmTotal(capacity) # 0 => BudgetHolds(VmTotal(capacity))
                       THEN "serving" ELSE "refused"
          /\ checked' = (VmTotal(capacity) # 0)
    BY <1>1 DEF StartService
  <2>2. UNCHANGED <<cfg, daemonMem, inVm, controller, cache, grant, blind, turned, resized,
                   previewed>> /\ small' = FALSE
    BY <1>1 DEF StartService
  <2>3. CfgTyped'
    BY <1>t, <2>1, <2>2 DEF CfgTyped, Places
  <2>4. StartChecked'
    <3>1. SUFFICES ASSUME launch' = "serving"
                   PROVE  /\ Valid(cfg) /\ FitsHost(cfg)
                          /\ cfg.vmTotal # 0 => BudgetHolds(cfg.vmTotal)
                          /\ cfg.vmTotal = 0 /\ checked' => BudgetHolds(daemonMem)
      BY <2>2 DEF StartChecked, Valid, FitsHost, BudgetHolds, FleetBudget
    <3>2. Valid(cfg) /\ FitsHost(cfg) /\ (VmTotal(capacity) # 0 => BudgetHolds(VmTotal(capacity)))
      BY <2>1, <3>1
    <3>3. QED
      BY <1>t, <2>1, <3>2, VmTotals DEF Capacity
  <2>5. SharesKept'
    BY <1>t, <2>2 DEF SharesKept, Places, Share, FleetBudget, VmTotal
  <2>6. PreviewHolds'
    BY <2>1 DEF PreviewHolds
  <2>7. PreviewTrue'
    <3>1. ASSUME launch' = "refused", previewed = "pass", FitsHost(cfg), ~cfg.burst
          PROVE  FALSE
      <4>1. Valid(cfg) /\ BudgetHolds(VmTotal(daemonMem))
        BY <1>t, <2>1, <3>1 DEF PreviewHolds
      <4>2. ~BurstRefused(capacity, insideVm)
        BY <3>1 DEF BurstRefused
      <4>3. VmTotal(capacity) # 0 => BudgetHolds(VmTotal(capacity))
        BY <1>n, <4>1
      <4>4. QED
        BY <2>1, <3>1, <4>1, <4>2, <4>3
    <3>2. ASSUME launch' = "serving", previewed = "fail", checked'
          PROVE  FALSE
      <4>1. ~BudgetHolds(VmTotal(daemonMem)) /\ VmTotal(capacity) # 0
        BY <1>t, <2>1, <3>2 DEF PreviewHolds
      <4>2. QED
        BY <1>n, <2>1, <3>2, <4>1
    <3>3. FitsHost(cfg)' = FitsHost(cfg) /\ cfg' = cfg /\ previewed' = previewed
      BY <2>2 DEF FitsHost
    <3>4. QED
      BY <3>1, <3>2, <3>3 DEF PreviewTrue
  <2>8. QED
    BY <2>3, <2>4, <2>5, <2>6, <2>7 DEF LimitsInv
<1>2. CASE Preview
  <2>1. PICK capacity \in Capacity : launch = "starting" /\ Valid(cfg) /\ previewed' = PreviewOf(capacity)
    BY <1>2 DEF Preview
  <2>2. UNCHANGED <<cfg, launch, daemonMem, inVm, controller, cache, grant, blind, small,
                    checked, turned, resized>>
    BY <1>2 DEF Preview
  <2>3. CfgTyped' /\ StartChecked' /\ SharesKept'
    BY <1>t, <2>1, <2>2
       DEF PreviewOf, CfgTyped, StartChecked, SharesKept, Places, Share, FleetBudget, VmTotal
  <2>4. PreviewHolds'
    <3>1. /\ previewed' = "pass" => BudgetHolds(VmTotal(daemonMem))
          /\ previewed' = "fail" => ~BudgetHolds(VmTotal(daemonMem))
      BY <1>n, <2>1 DEF PreviewOf
    <3>2. VmTotal(daemonMem)' = VmTotal(daemonMem)
      BY <2>2 DEF VmTotal
    <3>3. BudgetHolds(VmTotal(daemonMem))' = BudgetHolds(VmTotal(daemonMem)) /\ Valid(cfg)'
      BY <2>1, <2>2, <3>2 DEF BudgetHolds, FleetBudget, Valid
    <3>4. QED
      BY <3>1, <3>3 DEF PreviewHolds
  <2>5. PreviewTrue'
    BY <2>1, <2>2 DEF PreviewTrue
  <2>6. QED
    BY <2>3, <2>4, <2>5 DEF LimitsInv
<1>3. CASE Resize
  <2>1. /\ daemonMem' \in DaemonSizes /\ resized < Resizes /\ resized' = resized + 1
        /\ grant' = [s \in Places |-> 0] /\ small' = (small \/ daemonMem' < daemonMem)
        /\ UNCHANGED <<cfg, launch, inVm, controller, cache, blind, checked, turned>>
        /\ previewed' = "none"
    BY <1>3 DEF Resize
  <2>2. CfgTyped'
    BY <1>t, <2>1, LimitsAssumption DEF CfgTyped, Places
  <2>3. StartChecked'
    <3>1. SUFFICES ASSUME launch = "serving"
                   PROVE  /\ Valid(cfg) /\ FitsHost(cfg)
                          /\ cfg.vmTotal # 0 => BudgetHolds(cfg.vmTotal)
                          /\ cfg.vmTotal = 0 /\ checked /\ ~small' => BudgetHolds(daemonMem')
      BY <2>1 DEF StartChecked, Valid, FitsHost, BudgetHolds, FleetBudget
    <3>2. ASSUME BudgetHolds(daemonMem), ~(daemonMem' < daemonMem)
          PROVE  BudgetHolds(daemonMem')
      <4>1. PICK n \in Nat, g \in Nat, f \in Nat :
              n = cfg.count /\ g = cfg.guestReserve /\ f = cfg.floor
        BY <1>t, CfgNumbers
      <4>2. daemonMem \in Nat /\ daemonMem' \in Nat
        BY <1>n, <2>1, LimitsAssumption
      <4>3. PICK d \in Nat, e \in Nat : d = daemonMem /\ e = daemonMem'
        BY <4>2
      <4>4. n * f <= Minus(d, g) /\ d <= e
        BY <3>2, <4>1, <4>3 DEF BudgetHolds, FleetBudget
      <4>5. Minus(d, g) \in Nat /\ Minus(e, g) \in Nat /\ Minus(d, g) <= Minus(e, g)
        BY <4>4 DEF Minus
      <4>6. n * f <= Minus(daemonMem', g)
        <5>1. n * f \in Nat
          OBVIOUS
        <5>2. QED
          BY <4>3, <4>4, <4>5, <5>1
      <4>7. QED
        BY <4>1, <4>6 DEF BudgetHolds, FleetBudget
    <3>3. QED
      BY <1>t, <2>1, <3>1, <3>2 DEF StartChecked
  <2>4. SharesKept'
    <3>1. VmTotal(daemonMem)' \in Nat
      BY <1>n, <2>1, LimitsAssumption DEF VmTotal
    <3>2. SUFFICES ASSUME NEW s \in Places'
                   PROVE  grant'[s] <= Share(VmTotal(daemonMem))'
      BY DEF SharesKept
    <3>3. grant'[s] = 0 /\ cfg.count >= 1
      BY <1>n, <2>1, <3>2 DEF Places
    <3>4. FleetBudget(VmTotal(daemonMem))' \in Nat
      <4>1. PICK v \in Nat, r \in Nat : v = VmTotal(daemonMem)' /\ r = cfg.guestReserve
        BY <1>t, <3>1, CfgNumbers
      <4>2. FleetBudget(VmTotal(daemonMem))' = Minus(v, r)
        BY <2>1, <4>1 DEF FleetBudget
      <4>3. QED
        BY <4>2 DEF Minus
    <3>5. FleetBudget(VmTotal(daemonMem))' \div cfg.count \in Nat
      BY <1>n, <3>3, <3>4
    <3>6. Share(VmTotal(daemonMem))' \in Nat
      BY <2>1, <3>5 DEF Share, Greater
    <3>7. QED
      BY <3>3, <3>6
  <2>5. PreviewHolds' /\ PreviewTrue'
    BY <2>1 DEF PreviewHolds, PreviewTrue
  <2>6. QED
    BY <2>2, <2>3, <2>4, <2>5 DEF LimitsInv
<1>4. ASSUME UNCHANGED <<cfg, launch, daemonMem, small, checked, previewed>>
      PROVE  StartChecked' /\ PreviewHolds' /\ PreviewTrue' /\ Places' = Places
             /\ Share(VmTotal(daemonMem))' = Share(VmTotal(daemonMem))
  BY <1>4, <1>t
     DEF StartChecked, PreviewHolds, PreviewTrue, Valid, FitsHost, BudgetHolds, FleetBudget,
         VmTotal, Places, Share
<1>5. CASE ControllerChanges
  <2>1. CfgTyped'
    BY <1>5, <1>t DEF ControllerChanges, CfgTyped, Places
  <2>2. QED
    BY <1>4, <1>5, <1>t, <2>1 DEF ControllerChanges, LimitsInv, SharesKept
<1>6. CASE CacheAges
  <2>1. cache' \in [value : BOOLEAN, age : 0..ProbeTTL]
    BY <1>6, <1>t, CfgNumbers DEF CacheAges, CfgTyped
  <2>2. CfgTyped'
    BY <1>6, <1>t, <2>1 DEF CacheAges, CfgTyped, Places
  <2>3. QED
    BY <1>4, <1>6, <1>t, <2>2 DEF CacheAges, LimitsInv, SharesKept
<1>7. ASSUME NEW s \in Places, StartRunner(s)
      PROVE  LimitsInv'
  <2>1. PICK capacity \in Capacity :
          /\ cache' = Probed
          /\ IF cache'.value
             THEN /\ grant' = [grant EXCEPT ![s] = Limit(capacity)]
                  /\ blind' = IF capacity = 0 THEN blind \cup {s} ELSE blind \ {s}
                  /\ turned' = FALSE
             ELSE turned' = TRUE /\ UNCHANGED <<grant, blind>>
    BY <1>7 DEF StartRunner
  <2>2. /\ launch = "serving"
        /\ UNCHANGED <<cfg, launch, daemonMem, inVm, controller, small, checked, resized,
                   previewed>>
    BY <1>7 DEF StartRunner
  <2>3. Valid(cfg) /\ Share(VmTotal(daemonMem)) \in Nat
    BY <1>n, <1>t, <2>2, ShareOfTotal DEF StartChecked
  <2>4. Limit(capacity) \in Nat /\ (capacity # 0 => Limit(capacity) <= Share(VmTotal(daemonMem)))
    <3>1. CASE capacity = 0
      BY <1>n, <3>1 DEF Limit
    <3>2. CASE capacity # 0
      <4>1. VmTotal(capacity) = VmTotal(daemonMem)
        BY <3>2 DEF Capacity
      <4>2. QED
        BY <1>n, <2>3, <3>2, <4>1 DEF Limit, SmallerOf
    <3>3. QED
      BY <3>1, <3>2
  <2>5. cache' \in [value : BOOLEAN, age : 0..ProbeTTL]
    BY <1>t, <2>1, CfgNumbers DEF Probed, CfgTyped
  <2>6. grant' \in [Places -> Nat] /\ blind' \subseteq Places /\ turned' \in BOOLEAN
    BY <1>t, <2>1, <2>4 DEF CfgTyped
  <2>7. CfgTyped'
    BY <1>t, <2>2, <2>5, <2>6 DEF CfgTyped, Places
  <2>8. SharesKept'
    <3>1. SUFFICES ASSUME NEW r \in Places \ blind'
                   PROVE  grant'[r] <= Share(VmTotal(daemonMem))
      BY <1>4, <2>2 DEF SharesKept
    <3>2. CASE ~cache'.value
      BY <1>t, <2>1, <3>2 DEF SharesKept
    <3>3. CASE cache'.value /\ r = s
      BY <1>t, <2>1, <2>4, <3>1, <3>3 DEF CfgTyped
    <3>4. CASE cache'.value /\ r # s
      BY <1>t, <2>1, <3>1, <3>4 DEF CfgTyped, SharesKept
    <3>5. QED
      BY <3>2, <3>3, <3>4
  <2>9. QED
    BY <1>4, <2>2, <2>7, <2>8 DEF LimitsInv
<1>8. ASSUME NEW s \in Places, RunnerEnds(s)
      PROVE  LimitsInv'
  <2>1. /\ grant' = [grant EXCEPT ![s] = 0]
        /\ UNCHANGED <<cfg, launch, daemonMem, inVm, controller, cache, blind, small, checked,
                   turned, resized, previewed>>
    BY <1>8 DEF RunnerEnds
  <2>2. CfgTyped'
    BY <1>t, <2>1 DEF CfgTyped, Places
  <2>3. SharesKept'
    <3>1. SUFFICES ASSUME NEW r \in Places \ blind
                   PROVE  grant'[r] <= Share(VmTotal(daemonMem))
      BY <1>4, <2>1 DEF SharesKept
    <3>2. grant[r] \in Nat /\ grant[r] <= Share(VmTotal(daemonMem))
      BY <1>t DEF CfgTyped, SharesKept
    <3>3. Share(VmTotal(daemonMem)) \in Nat
      <4>1. cfg.count >= 1
        BY <1>n DEF Places
      <4>2. FleetBudget(VmTotal(daemonMem)) \in Nat
        BY <1>n, <1>t, ShareOfTotal
      <4>3. FleetBudget(VmTotal(daemonMem)) \div cfg.count \in Nat
        BY <1>n, <4>1, <4>2
      <4>4. QED
        BY <4>3 DEF Share, Greater
    <3>4. grant'[r] = grant[r] \/ grant'[r] = 0
      BY <1>t, <2>1 DEF CfgTyped
    <3>5. QED
      BY <3>2, <3>3, <3>4
  <2>4. QED
    BY <1>4, <2>1, <2>2, <2>3 DEF LimitsInv
<1>9. CASE UNCHANGED limitVars
  <2>1. CfgTyped' /\ SharesKept'
    BY <1>4, <1>9, <1>t DEF limitVars, CfgTyped, SharesKept, Places
  <2>2. QED
    BY <1>4, <1>9, <2>1 DEF limitVars, LimitsInv
<1>10. QED
  BY <1>1, <1>2, <1>3, <1>5, <1>6, <1>7, <1>8, <1>9 DEF LimitsNext

LEMMA LimitsInvTyped == LimitsInv => LimitsTypeOK
  BY DEF LimitsInv, CfgTyped, LimitsTypeOK

LEMMA LimitsInvSays == LimitsInv => FleetFits /\ PreviewTrue
<1> SUFFICES ASSUME LimitsInv
             PROVE  FleetFits
  BY DEF LimitsInv
<1>t. CfgTyped /\ StartChecked /\ SharesKept
  BY DEF LimitsInv
<1>1. SUFFICES ASSUME launch = "serving", Guarded
               PROVE  /\ GrantedTo(Places \ blind) <= FleetBudget(VmTotal(daemonMem))
                      /\ cfg.vmTotal # 0 =>
                           GrantedTo(Places \ blind) + cfg.guestReserve + cfg.hostReserve <= HostMemory
  BY DEF FleetFits
<1>2. /\ Valid(cfg) /\ FitsHost(cfg) /\ VmTotal(daemonMem) \in Nat
      /\ BudgetHolds(VmTotal(daemonMem))
  BY <1>1, <1>t, VmTotals DEF StartChecked, Guarded
<1> DEFINE n == cfg.count
           b == FleetBudget(VmTotal(daemonMem))
           m == Share(VmTotal(daemonMem))
           S == Places \ blind
<1>3. n \in Nat /\ b \in Nat /\ m \in Nat /\ n * m <= b
  BY <1>2, <1>t, CfgNumbers, ShareOfTotal
<1>4. IsFiniteSet(S) /\ Cardinality(S) \in Nat /\ Cardinality(S) <= n
  <2>1. IsFiniteSet(1..n) /\ Cardinality(1..n) = n
    <3>1. 1 \in Int /\ n \in Int
      BY <1>3
    <3>2. IsFiniteSet(1..n) /\ Cardinality(1..n) = IF 1 > n THEN 0 ELSE n - 1 + 1
      BY <3>1, FS_Interval
    <3>3. QED
      BY <1>3, <3>2
  <2>2. QED
    BY <1>3, <2>1, FS_Subset, FS_CardinalityType DEF Places
<1>5. \A s \in S : grant[s] \in Nat /\ grant[s] <= m
  BY <1>t DEF CfgTyped, SharesKept
<1>6. PICK g : Sums(g, grant, S)
  <2>1. \A s \in S : grant[s] \in Int
    BY <1>5
  <2>2. QED
    BY <1>4, <2>1, SumsExist
<1>7. g[S] \in Nat /\ g[S] <= Cardinality(S) * m
  BY <1>3, <1>4, <1>5, <1>6, SumsBounded
<1>8. GrantedTo(S) = g[S]
  <2>1. \A s \in S : grant[s] \in Int
    BY <1>5
  <2>2. QED
    BY <1>4, <1>6, <2>1, FoldIsSum DEF GrantedTo
<1>9. g[S] <= b
  <2> HIDE DEF n, b, m, S
  <2>1. PICK k \in Nat, v \in Nat : k = Cardinality(S) /\ v = g[S]
    BY <1>4, <1>7
  <2>2. k <= n /\ v <= k * m
    BY <1>4, <1>7, <2>1
  <2>3. k * m <= n * m
    BY <1>3, <2>2
  <2>4. v <= b
    BY <1>3, <2>2, <2>3
  <2>5. QED
    BY <2>1, <2>4
<1>10. cfg.vmTotal # 0 => g[S] + cfg.guestReserve + cfg.hostReserve <= HostMemory
  <2>1. SUFFICES ASSUME cfg.vmTotal # 0
                 PROVE  g[S] + cfg.guestReserve + cfg.hostReserve <= HostMemory
    OBVIOUS
  <2>2. PICK v \in Nat, r \in Nat, h \in Nat, t \in Nat, w \in Nat :
          /\ v = g[S] /\ r = cfg.guestReserve /\ h = cfg.hostReserve /\ t = cfg.vmTotal
          /\ w = HostMemory
    BY <1>t, <1>7, CfgNumbers
  <2>3. w >= h /\ t <= w - h
    BY <1>2, <2>1, <2>2 DEF FitsHost
  <2>4. b = Minus(t, r)
    BY <1>t, <2>1, <2>2, VmTotals DEF FleetBudget
  <2>5. cfg.count * cfg.floor >= 1 /\ cfg.count * cfg.floor <= b
    BY <1>2, <1>t, CfgNumbers DEF Valid, BudgetHolds
  <2>6. b >= 1 /\ v <= b
    BY <1>3, <1>9, <1>t, <2>2, <2>5, CfgNumbers
  <2>7. v + r + h <= w
    BY <2>3, <2>4, <2>6 DEF Minus
  <2>8. QED
    BY <2>2, <2>7
<1>11. QED
  BY <1>8, <1>9, <1>10

-----------------------------------------------------------------------------
(* Shutdown                                                                *)

Housing == \A s \in Slots : container[s] = None <=> phase[s] = "off"

\* No two slots share a runner that has a container, and no row names a
\* sibling's.
OwnersApart ==
  /\ \A s, t \in Slots : s # t /\ container[s] = container[t] => container[s] = None
  /\ \A s, t \in Slots : s # t /\ container[s] \in Ids => table[t] # container[s]
  /\ \A s \in Slots : table[s] \notin Siblings

\* The listing of the drain has every container there still is.
ListingCovers ==
  where = "drain slots" /\ housedThen # Unlisted => RunningSlots \subseteq housedThen

DrainTime ==
  /\ where = "drain" => elapsed = 0
  /\ DrainBounded

\* What is left to ask GitHub for is not a sibling's.
AsksOwn ==
  /\ asked \cap Siblings = {}
  /\ where = "deregister" => remaining \cap Siblings = {}

ShutInv ==
  ShutdownTypeOK /\ Housing /\ OwnersApart /\ ListingCovers /\ DrainTime /\ AsksOwn

LEMMA ShutNumbers ==
  /\ DrainBudget \in Nat /\ DockerTimeout \in Nat /\ GhTimeout \in Nat /\ GhGrace \in Nat
  /\ StopLimit \in Nat /\ None \notin Ids /\ Reserved \notin Ids /\ Reserved # None
  /\ Garbled \notin Ids /\ Garbled # None /\ Siblings \subseteq Ids /\ Count \in Nat
  /\ None \notin Slots
  BY ShutdownAssumption, NoneAssumption, CountAssumption DEF Slots

\* What the steps of the drain may do.
DrainSteps ==
  DrainStep => \A s \in Slots :
    container[s] # None => /\ container'[s] = container[s]
                           /\ named'[container[s]] = named[container[s]]

DrainKeepsRows ==
  where = "drain slots" => \A s \in Slots :
    table[s] \in Ids /\ table'[s] # table[s] => named'[table[s]] = None

LEMMA ShutInitInv == ShutdownInit => ShutInv
<1> SUFFICES ASSUME ShutdownInit
             PROVE  ShutInv
  OBVIOUS
<1>1. WorldTypeOK /\ Housing
  BY DEF ShutdownInit, WorldTypeOK, Housing, Phases
<1>2. ShutdownTypeOK
  <2>1. LastInstant \in Nat
    BY ShutNumbers DEF LastInstant
  <2>2. table \in [Slots -> Ids \cup {None, Reserved, Garbled}]
    BY DEF ShutdownInit
  <2>3. elapsed \in 0..LastInstant
    BY <2>1 DEF ShutdownInit
  <2>4. QED
    BY <1>1, <2>2, <2>3 DEF ShutdownInit, ShutdownTypeOK
<1>3. OwnersApart
  BY ShutNumbers DEF ShutdownInit, OwnersApart
<1>4. DrainTime
  BY ShutNumbers DEF ShutdownInit, DrainTime, DrainBounded, Longer
<1>5. QED
  BY <1>1, <1>2, <1>3, <1>4 DEF ShutdownInit, ShutInv, ListingCovers, AsksOwn

\* Containers come from nowhere here, they go.
ContainersGo == \A s \in Slots : container'[s] = container[s] \/ container'[s] = None

LEMMA WorldKeeps ==
  ASSUME WorldTypeOK, Housing, WorldNext
  PROVE  WorldTypeOK' /\ Housing' /\ ContainersGo
<1> USE DEF WorldTypeOK, Housing, RemoveContainer, Unregister, Phases, ContainersGo, github, docker
<1>1. ASSUME NEW s \in Slots,
             \/ Connect(s) \/ AssignJob(s) \/ CompleteJob(s)
             \/ ExitUnregistered(s) \/ Die(s) \/ Reconnect(s)
      PROVE  WorldTypeOK' /\ Housing' /\ ContainersGo
  <2>1. CASE Connect(s)
    BY <2>1 DEF Connect
  <2>2. CASE AssignJob(s)
    BY <2>2 DEF AssignJob
  <2>3. CASE CompleteJob(s)
    BY <2>3 DEF CompleteJob
  <2>4. CASE ExitUnregistered(s)
    BY <2>4 DEF ExitUnregistered
  <2>5. CASE Die(s)
    BY <2>5 DEF Die
  <2>6. CASE Reconnect(s)
    BY <2>6 DEF Reconnect
  <2>7. QED
    BY <1>1, <2>1, <2>2, <2>3, <2>4, <2>5, <2>6
<1>2. ASSUME NEW i \in Ids, LoseHeartbeat(i) \/ ReleaseLock(i) \/ Forget(i)
      PROVE  WorldTypeOK' /\ Housing' /\ ContainersGo
  BY <1>2 DEF LoseHeartbeat, ReleaseLock, Forget
<1>3. QED
  BY <1>1, <1>2 DEF WorldNext

LEMMA DeleteKeeps ==
  ASSUME WorldTypeOK, NEW i \in Ids, NEW r, Delete(i, r)
  PROVE  /\ named' \in [Ids -> Slots \cup {None}] /\ online' \in SUBSET Ids /\ busy' \in SUBSET Ids
         /\ \A j \in Ids \ {i} : named'[j] = named[j]
         /\ r = "ok" => named'[i] = None
  BY DEF Delete, Unregister, WorldTypeOK, github

\* The containers and rows of a step that only lets them go.
LEMMA ApartKept ==
  ASSUME OwnersApart, ContainersGo,
         \A s \in Slots : table'[s] = table[s] \/ table'[s] = None
  PROVE  OwnersApart'
<1>1. \A s \in Slots : container'[s] \in Ids => container'[s] = container[s]
  BY ShutNumbers DEF ContainersGo
<1>2. ASSUME NEW s \in Slots, NEW t \in Slots, s # t, container'[s] = container'[t]
      PROVE  container'[s] = None
  BY <1>2 DEF OwnersApart, ContainersGo
<1>3. ASSUME NEW s \in Slots, NEW t \in Slots, s # t, container'[s] \in Ids
      PROVE  table'[t] # container'[s]
  BY <1>1, <1>3, ShutNumbers DEF OwnersApart
<1>4. ASSUME NEW s \in Slots
      PROVE  table'[s] \notin Siblings
  BY <1>4, ShutNumbers DEF OwnersApart
<1>5. QED
  BY <1>2, <1>3, <1>4 DEF OwnersApart

LEMMA TookKeeps ==
  ASSUME NEW d \in Nat, Took(d), elapsed \in 0..LastInstant,
         elapsed + d <= Longer(DockerTimeout, DrainBudget + GhGrace)
  PROVE  elapsed' \in 0..LastInstant /\ DrainBounded'
<1>1. LastInstant \in Nat /\ Longer(DockerTimeout, DrainBudget + GhGrace) \in Nat
      /\ Longer(DockerTimeout, DrainBudget + GhGrace) <= LastInstant
  BY ShutNumbers DEF LastInstant, Longer
<1>2. PICK m \in Nat, b \in Nat, e \in Nat :
        m = LastInstant /\ b = Longer(DockerTimeout, DrainBudget + GhGrace) /\ e = elapsed /\ e <= m
  BY <1>1
<1>3. elapsed' = e + d /\ e + d <= b /\ b <= m
  BY <1>1, <1>2 DEF Took
<1>4. elapsed' \in 0..m /\ elapsed' <= b
  BY <1>3
<1>5. QED
  BY <1>2, <1>4 DEF DrainBounded

LEMMA ShutStepInv ==
  ShutInv /\ [ShutdownNext]_shutdownVars => ShutInv' /\ DrainSteps /\ DrainKeepsRows
<1> SUFFICES ASSUME ShutInv, [ShutdownNext]_shutdownVars
             PROVE  ShutInv' /\ DrainSteps /\ DrainKeepsRows
  OBVIOUS
<1>t. /\ ShutdownTypeOK /\ WorldTypeOK /\ Housing /\ OwnersApart /\ ListingCovers /\ DrainTime
      /\ AsksOwn
  BY DEF ShutInv, ShutdownTypeOK
<1>b. /\ table \in [Slots -> Ids \cup {None, Reserved, Garbled}]
      /\ container \in [Slots -> Ids \cup {None}] /\ elapsed \in 0..LastInstant
      /\ remaining \subseteq Slots \cup Ids /\ RunningSlots \subseteq Slots
  BY <1>t DEF ShutdownTypeOK, WorldTypeOK, RunningSlots
<1>f. ASSUME NEW s \in Slots, TryFreeRow(s)
      PROVE  /\ table' \in [Slots -> Ids \cup {None, Reserved, Garbled}]
             /\ \A t \in Slots : table'[t] = table[t] \/ (t = s /\ table'[t] = None)
  BY <1>b, <1>f DEF TryFreeRow, FreeRow
\* Steps that leave the world alone.
<1>w. ASSUME UNCHANGED world,
             table' \in [Slots -> Ids \cup {None, Reserved, Garbled}],
             \A s \in Slots : table'[s] = table[s] \/ table'[s] = None
      PROVE  WorldTypeOK' /\ Housing' /\ OwnersApart' /\ RunningSlots' = RunningSlots
             /\ DrainSteps
  <2>1. UNCHANGED <<named, online, busy, container, phase>>
    BY <1>w DEF world
  <2>2. WorldTypeOK' /\ Housing' /\ RunningSlots' = RunningSlots /\ ContainersGo
    BY <1>t, <2>1 DEF WorldTypeOK, Housing, RunningSlots, ContainersGo
  <2>3. DrainSteps
    BY <2>1 DEF DrainSteps
  <2>4. QED
    BY <1>t, <1>w, <2>2, <2>3, ApartKept
<1>1. CASE BeginDrain
  <2>1. where = "drain" /\ UNCHANGED <<world, table, deferred, asked>>
    BY <1>1 DEF BeginDrain
  <2>2. \/ housedThen' = RunningSlots
        \/ housedThen' = Unlisted
    BY <1>1 DEF BeginDrain
  <2>3. \E d \in {0, DockerTimeout} : Took(d)
    BY <1>1 DEF BeginDrain
  <2>4. \/ remaining' = {s \in Slots : table[s] # None} /\ where' = "drain slots"
        \/ remaining' = {} /\ where' = "drained"
    BY <1>1 DEF BeginDrain
  <2>5. elapsed' \in 0..LastInstant /\ DrainBounded'
    <3>1. PICK d \in {0, DockerTimeout} : Took(d)
      BY <2>3
    <3>2. d \in Nat /\ elapsed = 0
      BY <1>t, <2>1, ShutNumbers DEF DrainTime
    <3>3. d <= Longer(DockerTimeout, DrainBudget + GhGrace)
      BY ShutNumbers DEF Longer
    <3>4. QED
      BY <1>b, <3>1, <3>2, <3>3, TookKeeps
  <2>6. WorldTypeOK' /\ Housing' /\ OwnersApart' /\ RunningSlots' = RunningSlots /\ DrainSteps
    BY <1>b, <1>w, <2>1
  <2>7. ShutdownTypeOK'
    <3>1. housedThen' \in (SUBSET Slots) \cup {Unlisted}
      BY <1>b, <2>2
    <3>2. remaining' \subseteq Slots \cup Ids /\ where' \in {"drained", "drain slots"}
      BY <2>4
    <3>3. QED
      BY <1>t, <2>1, <2>5, <2>6, <3>1, <3>2 DEF ShutdownTypeOK
  <2>8. ListingCovers' /\ DrainTime' /\ AsksOwn'
    BY <1>t, <2>1, <2>2, <2>4, <2>5, <2>6 DEF ListingCovers, DrainTime, AsksOwn
  <2>9. QED
    BY <2>1, <2>6, <2>7, <2>8 DEF ShutInv, DrainKeepsRows
<1>2. ASSUME NEW s \in Slots, FreeReservation(s)
      PROVE  ShutInv' /\ DrainSteps /\ DrainKeepsRows
  <2>1. /\ where = "drain slots" /\ remaining' = remaining \ {s} /\ table[s] = Reserved
        /\ TryFreeRow(s) /\ UNCHANGED <<world, where, housedThen, elapsed, deferred, asked>>
    BY <1>2 DEF FreeReservation, Draining
  <2>2. /\ table' \in [Slots -> Ids \cup {None, Reserved, Garbled}]
        /\ \A t \in Slots : table'[t] = table[t] \/ (t = s /\ table'[t] = None)
    BY <1>f, <2>1
  <2>3. WorldTypeOK' /\ Housing' /\ OwnersApart' /\ RunningSlots' = RunningSlots /\ DrainSteps
    BY <1>w, <2>1, <2>2
  <2>4. ShutdownTypeOK'
    BY <1>b, <1>t, <2>1, <2>2, <2>3 DEF ShutdownTypeOK
  <2>5. ListingCovers' /\ DrainTime' /\ AsksOwn'
    BY <1>t, <2>1, <2>3 DEF ListingCovers, DrainTime, DrainBounded, AsksOwn
  <2>6. DrainKeepsRows
    BY <2>1, <2>2, ShutNumbers DEF DrainKeepsRows
  <2>7. QED
    BY <2>3, <2>4, <2>5, <2>6 DEF ShutInv
<1>3. ASSUME NEW s \in Slots, Defer(s) \/ Preserve(s)
      PROVE  ShutInv' /\ DrainSteps /\ DrainKeepsRows
  <2>1. /\ where = "drain slots" /\ remaining' = remaining \ {s} /\ deferred' \in {deferred, deferred \cup {s}}
        /\ UNCHANGED <<world, table, where, housedThen, elapsed, asked>>
    BY <1>3 DEF Defer, Preserve, Draining
  <2>2. WorldTypeOK' /\ Housing' /\ OwnersApart' /\ RunningSlots' = RunningSlots /\ DrainSteps
    BY <1>b, <1>w, <2>1
  <2>3. ShutdownTypeOK'
    BY <1>b, <1>t, <2>1, <2>2 DEF ShutdownTypeOK
  <2>4. ListingCovers' /\ DrainTime' /\ AsksOwn' /\ DrainKeepsRows
    BY <1>t, <2>1, <2>2 DEF ListingCovers, DrainTime, DrainBounded, AsksOwn, DrainKeepsRows
  <2>5. QED
    BY <2>2, <2>3, <2>4 DEF ShutInv
<1>4. ASSUME NEW s \in Slots, Deregister(s)
      PROVE  ShutInv' /\ DrainSteps /\ DrainKeepsRows
  <2>1. /\ where = "drain slots" /\ remaining' = remaining \ {s}
        /\ table[s] \in Ids /\ housedThen # Unlisted /\ s \notin housedThen
        /\ elapsed < DrainBudget
        /\ \E d \in {0, LongestDelete} : Took(d)
        /\ UNCHANGED <<container, phase, where, housedThen, asked>>
    BY <1>4 DEF Deregister, Draining, InFlight, docker
  <2>2. PICK r \in DeleteResults :
          /\ Delete(table[s], r)
          /\ IF r = "ok" THEN TryFreeRow(s) /\ UNCHANGED deferred
             ELSE deferred' = deferred \cup {s} /\ UNCHANGED table
    BY <1>4 DEF Deregister
  <2>3. elapsed' \in 0..LastInstant /\ DrainBounded'
    <3>1. PICK d \in {0, LongestDelete} : Took(d)
      BY <2>1
    <3>2. d \in Nat /\ elapsed + d <= Longer(DockerTimeout, DrainBudget + GhGrace)
      <4>1. PICK e \in Nat : e = elapsed /\ e < DrainBudget
        <5>1. LastInstant \in Nat
          BY ShutNumbers DEF LastInstant
        <5>2. elapsed \in Nat
          BY <1>b, <5>1
        <5>3. elapsed < DrainBudget
          BY <2>1
        <5>4. QED
          BY <5>2, <5>3
      <4>2. LongestDelete = (DrainBudget - e) + GhGrace
        BY <4>1, ShutNumbers DEF LongestDelete, Longer
      <4>3. d \in Nat /\ e + d <= DrainBudget + GhGrace
        BY <4>1, <4>2, ShutNumbers
      <4>4. DrainBudget + GhGrace <= Longer(DockerTimeout, DrainBudget + GhGrace)
        BY ShutNumbers DEF Longer
      <4>5. Longer(DockerTimeout, DrainBudget + GhGrace) \in Nat
        BY ShutNumbers DEF Longer
      <4>6. QED
        BY <4>1, <4>3, <4>4, <4>5, ShutNumbers
    <3>3. QED
      BY <1>b, <3>1, <3>2, TookKeeps
  <2>4. /\ named' \in [Ids -> Slots \cup {None}] /\ online' \in SUBSET Ids /\ busy' \in SUBSET Ids
        /\ \A j \in Ids \ {table[s]} : named'[j] = named[j]
        /\ r = "ok" => named'[table[s]] = None
    BY <1>t, <2>1, <2>2, DeleteKeeps
  <2>5. WorldTypeOK' /\ Housing' /\ RunningSlots' = RunningSlots /\ ContainersGo
    BY <1>t, <2>1, <2>4 DEF WorldTypeOK, Housing, RunningSlots, ContainersGo
  <2>6. /\ table' \in [Slots -> Ids \cup {None, Reserved, Garbled}]
        /\ \A t \in Slots : table'[t] = table[t] \/ (t = s /\ table'[t] = None /\ r = "ok")
    <3>1. CASE r = "ok"
      BY <1>f, <2>2, <3>1
    <3>2. CASE r # "ok"
      BY <1>b, <2>2, <3>2
    <3>3. QED
      BY <3>1, <3>2
  <2>7. OwnersApart'
    BY <1>t, <2>5, <2>6, ApartKept
  <2>8. deferred' \subseteq Slots
    BY <1>t, <2>2 DEF ShutdownTypeOK
  <2>9. ShutdownTypeOK'
    BY <1>b, <1>t, <2>1, <2>3, <2>5, <2>6, <2>8 DEF ShutdownTypeOK
  <2>10. ListingCovers' /\ DrainTime' /\ AsksOwn'
    BY <1>t, <2>1, <2>3, <2>5 DEF ListingCovers, DrainTime, AsksOwn
  <2>11. DrainSteps
    <3>1. SUFFICES ASSUME NEW t \in Slots, container[t] # None
                   PROVE  container'[t] = container[t] /\ named'[container[t]] = named[container[t]]
      BY DEF DrainSteps
    <3>2. container[t] \in Ids /\ t \in RunningSlots
      BY <1>b, <3>1 DEF RunningSlots
    <3>3. t # s
      BY <1>t, <2>1, <3>2 DEF ListingCovers
    <3>4. container[t] # table[s]
      BY <1>t, <3>2, <3>3 DEF OwnersApart
    <3>5. QED
      BY <2>1, <2>4, <3>2, <3>4
  <2>12. DrainKeepsRows
    BY <2>4, <2>6 DEF DrainKeepsRows
  <2>13. QED
    BY <2>5, <2>7, <2>9, <2>10, <2>11, <2>12 DEF ShutInv
<1>5. ASSUME UNCHANGED <<world, elapsed, deferred>>, where' # "drain slots", where' # "drain",
             housedThen' \in (SUBSET Slots) \cup {Unlisted},
             where' \in {"drained", "rm", "deregister", "release", "stopped", "stop failed"},
             table' \in [Slots -> Ids \cup {None, Reserved, Garbled}],
             \A s \in Slots : table'[s] = table[s] \/ table'[s] = None,
             where = "drain slots" => UNCHANGED table,
             remaining' \subseteq Slots \cup Ids,
             asked' \subseteq Ids, AsksOwn'
      PROVE  ShutInv' /\ DrainSteps /\ DrainKeepsRows
  <2>1. WorldTypeOK' /\ Housing' /\ OwnersApart' /\ DrainSteps
    BY <1>5, <1>w
  <2>2. ShutdownTypeOK'
    BY <1>5, <1>t, <2>1 DEF ShutdownTypeOK
  <2>3. ListingCovers' /\ DrainTime' /\ DrainKeepsRows
    BY <1>5, <1>t DEF ListingCovers, DrainTime, DrainBounded, DrainKeepsRows
  <2>4. QED
    BY <2>1, <2>2, <2>3, <1>5 DEF ShutInv
<1>v. housedThen \in (SUBSET Slots) \cup {Unlisted} /\ asked \subseteq Ids
  BY <1>t DEF ShutdownTypeOK
<1>6. CASE EndDrain
  <2>1. /\ where' = "drained"
        /\ UNCHANGED <<world, table, housedThen, remaining, elapsed, deferred, asked>>
    BY <1>6 DEF EndDrain
  <2>2. AsksOwn'
    BY <1>t, <2>1 DEF AsksOwn
  <2>3. QED
    BY <1>5, <1>b, <1>v, <2>1, <2>2
<1>7. CASE Sigkill
  <2>1. /\ where' = "drained" /\ remaining' = {}
        /\ UNCHANGED <<world, table, housedThen, elapsed, deferred, asked>>
    BY <1>7 DEF Sigkill
  <2>2. AsksOwn'
    BY <1>t, <2>1 DEF AsksOwn
  <2>3. QED
    BY <1>5, <1>b, <1>v, <2>1, <2>2
<1>8. CASE BeginStop
  <2>1. /\ where' \in {"rm", "stop failed"}
        /\ UNCHANGED <<world, table, elapsed, deferred, asked>>
    BY <1>8 DEF BeginStop
  <2>2. /\ housedThen' \in {RunningSlots, housedThen}
        /\ remaining' \in {RunningSlots, remaining}
    BY <1>8 DEF BeginStop
  <2>3. AsksOwn'
    BY <1>t, <2>1 DEF AsksOwn
  <2>4. housedThen' \in (SUBSET Slots) \cup {Unlisted}
    BY <1>b, <1>v, <2>2
  <2>5. remaining' \subseteq Slots \cup Ids
    BY <1>b, <2>2
  <2>6. QED
    BY <1>5, <1>b, <1>v, <2>1, <2>3, <2>4, <2>5
<1>9. ASSUME NEW s \in Slots, RemoveOne(s)
      PROVE  ShutInv' /\ DrainSteps /\ DrainKeepsRows
  <2>1. /\ where = "rm" /\ remaining' = remaining \ {s}
        /\ UNCHANGED <<named, online, busy, table, where, housedThen, elapsed, deferred, asked>>
        /\ \/ RemoveContainer(s)
           \/ UNCHANGED <<container, phase>>
    BY <1>9 DEF RemoveOne, github, docker
  <2>2. WorldTypeOK' /\ Housing' /\ ContainersGo
    BY <1>t, <2>1 DEF WorldTypeOK, Housing, ContainersGo, RemoveContainer, Phases
  <2>3. OwnersApart'
    BY <1>t, <2>1, <2>2, ApartKept
  <2>4. ShutdownTypeOK'
    BY <1>b, <1>t, <2>1, <2>2 DEF ShutdownTypeOK
  <2>5. ListingCovers' /\ DrainTime' /\ AsksOwn' /\ DrainKeepsRows
    BY <1>t, <2>1 DEF ListingCovers, DrainTime, DrainBounded, AsksOwn, DrainKeepsRows
  <2>6. DrainSteps
    BY <2>1 DEF DrainSteps, DrainStep, BeginDrain, EndDrain, FreeReservation, Defer,
                Preserve, Deregister, Draining
  <2>7. QED
    BY <2>2, <2>3, <2>4, <2>5, <2>6 DEF ShutInv
<1>10. CASE ListOwn
  <2>1. /\ \/ remaining' = {i \in OwnIds : Idle(i)}
           \/ remaining' = remaining /\ where' = "stop failed"
        /\ where' \in {"deregister", "stop failed"}
        /\ UNCHANGED <<world, table, housedThen, elapsed, deferred, asked>>
    BY <1>10 DEF ListOwn
  <2>2. OwnIds \subseteq Ids /\ OwnIds \cap Siblings = {}
    BY <1>t DEF OwnIds, OwnersApart
  <2>3. AsksOwn'
    BY <1>t, <2>1, <2>2 DEF AsksOwn
  <2>4. remaining' \subseteq Slots \cup Ids
    BY <1>b, <2>1, <2>2
  <2>5. where # "drain slots"
    BY <1>10 DEF ListOwn
  <2>6. QED
    BY <1>5, <1>b, <1>v, <2>1, <2>3, <2>4, <2>5
<1>11. ASSUME NEW i \in Ids, DeregisterOwn(i)
       PROVE  ShutInv' /\ DrainSteps /\ DrainKeepsRows
  <2>1. /\ where = "deregister" /\ i \in remaining /\ remaining' = remaining \ {i}
        /\ asked' = asked \cup {i}
        /\ UNCHANGED <<container, phase, table, where, housedThen, elapsed, deferred>>
    BY <1>11 DEF DeregisterOwn, docker
  <2>2. /\ named' \in [Ids -> Slots \cup {None}] /\ online' \in SUBSET Ids /\ busy' \in SUBSET Ids
    <3>1. PICK r \in DeleteResults : Delete(i, r)
      BY <1>11 DEF DeregisterOwn
    <3>2. QED
      BY <1>t, <3>1, DeleteKeeps
  <2>3. WorldTypeOK' /\ Housing' /\ ContainersGo
    BY <1>t, <2>1, <2>2 DEF WorldTypeOK, Housing, ContainersGo
  <2>4. OwnersApart'
    BY <1>t, <2>1, <2>3, ApartKept
  <2>5. ShutdownTypeOK'
    BY <1>b, <1>t, <1>v, <2>1, <2>3 DEF ShutdownTypeOK
  <2>6. ListingCovers' /\ DrainTime' /\ AsksOwn' /\ DrainKeepsRows
    BY <1>t, <2>1 DEF ListingCovers, DrainTime, DrainBounded, AsksOwn, DrainKeepsRows
  <2>7. DrainSteps
    BY <2>1 DEF DrainSteps, DrainStep, BeginDrain, EndDrain, FreeReservation, Defer,
                Preserve, Deregister, Draining
  <2>8. QED
    BY <2>3, <2>4, <2>5, <2>6, <2>7 DEF ShutInv
<1>12. CASE BeginRelease
  <2>1. /\ where = "deregister" /\ where' = "release"
        /\ remaining' = {s \in Slots : table[s] # None}
        /\ UNCHANGED <<world, table, housedThen, elapsed, deferred, asked>>
    BY <1>12 DEF BeginRelease
  <2>2. AsksOwn' /\ remaining' \subseteq Slots \cup Ids
    BY <1>t, <2>1 DEF AsksOwn
  <2>3. QED
    BY <1>5, <1>b, <1>v, <2>1, <2>2
<1>13. ASSUME NEW s \in Slots, ReleaseOne(s)
       PROVE  ShutInv' /\ DrainSteps /\ DrainKeepsRows
  <2>1. /\ where = "release" /\ remaining' = remaining \ {s} /\ TryFreeRow(s)
        /\ UNCHANGED <<world, where, housedThen, elapsed, deferred, asked>>
    BY <1>13 DEF ReleaseOne
  <2>2. /\ table' \in [Slots -> Ids \cup {None, Reserved, Garbled}]
        /\ \A t \in Slots : table'[t] = table[t] \/ (t = s /\ table'[t] = None)
    BY <1>f, <2>1
  <2>3. AsksOwn' /\ remaining' \subseteq Slots \cup Ids
    BY <1>b, <1>t, <2>1 DEF AsksOwn
  <2>4. QED
    BY <1>5, <1>v, <2>1, <2>2, <2>3
<1>14. CASE EndStop
  <2>1. /\ where = "release" /\ where' = "stopped"
        /\ UNCHANGED <<world, table, housedThen, remaining, elapsed, deferred, asked>>
    BY <1>14 DEF EndStop
  <2>2. AsksOwn'
    BY <1>t, <2>1 DEF AsksOwn
  <2>3. QED
    BY <1>5, <1>b, <1>v, <2>1, <2>2
<1>15. CASE Around
  <2>1. /\ WorldNext
        /\ UNCHANGED <<table, where, housedThen, remaining, elapsed, deferred, asked>>
    BY <1>15 DEF Around
  <2>2. WorldTypeOK' /\ Housing' /\ ContainersGo
    BY <1>t, <2>1, WorldKeeps
  <2>3. OwnersApart'
    BY <1>t, <2>1, <2>2, ApartKept
  <2>4. ShutdownTypeOK'
    BY <1>t, <2>1, <2>2 DEF ShutdownTypeOK
  <2>5. RunningSlots' \subseteq RunningSlots
    BY <2>2 DEF RunningSlots, ContainersGo
  <2>6. ListingCovers' /\ DrainTime' /\ AsksOwn' /\ DrainKeepsRows
    BY <1>t, <2>1, <2>5 DEF ListingCovers, DrainTime, DrainBounded, AsksOwn, DrainKeepsRows
  <2>7. ~DrainStep
    BY <2>1 DEF DrainStep, BeginDrain, EndDrain, FreeReservation, Defer, Preserve,
                Deregister, Draining
  <2>8. QED
    BY <2>2, <2>3, <2>4, <2>6, <2>7 DEF ShutInv, DrainSteps
<1>16. CASE UNCHANGED shutdownVars
  <2>1. UNCHANGED <<world, table, where, housedThen, remaining, elapsed, deferred, asked>>
    BY <1>16 DEF shutdownVars
  <2>2. WorldTypeOK' /\ Housing' /\ OwnersApart' /\ RunningSlots' = RunningSlots /\ DrainSteps
    BY <1>b, <1>w, <2>1
  <2>3. ShutdownTypeOK'
    BY <1>t, <2>1, <2>2 DEF ShutdownTypeOK
  <2>4. ListingCovers' /\ DrainTime' /\ AsksOwn' /\ DrainKeepsRows
    BY <1>t, <2>1, <2>2 DEF ListingCovers, DrainTime, DrainBounded, AsksOwn, DrainKeepsRows
  <2>5. QED
    BY <2>2, <2>3, <2>4 DEF ShutInv
<1>17. QED
  BY <1>1, <1>2, <1>3, <1>4, <1>6, <1>7, <1>8, <1>9, <1>10, <1>11, <1>12, <1>13, <1>14, <1>15, <1>16
     DEF ShutdownNext, DrainStep, StopStep, AllStopped

LEMMA ShutInvSays == ShutInv => ShutdownTypeOK /\ DrainBounded /\ StopSparesSiblings
BY DEF ShutInv, DrainTime, AsksOwn, StopSparesSiblings

-----------------------------------------------------------------------------
(* The composition: a step of the services is a step of one part, and the  *)
(* others rest.                                                            *)

LEMMA RestingPart ==
  /\ Resting("call") = UNCHANGED transportVars
  /\ Resting("token") = UNCHANGED tokenVars
  /\ Resting("zombie") = UNCHANGED reaperVars
  /\ Resting("children") = UNCHANGED childVars
  /\ Resting("readiness") = UNCHANGED passVars
  /\ Resting("gates") = UNCHANGED gateVars
  /\ Resting("budget") = UNCHANGED budgetVars
  /\ Resting("limits") = UNCHANGED limitVars
  /\ Resting("stop") = UNCHANGED shutdownVars
  /\ Resting("lima") = UNCHANGED limaVars
  /\ Resting("config") = UNCHANGED configVars
  /\ Resting("telemetry") = UNCHANGED telemetryVars
  /\ Resting("install") = UNCHANGED installVars
  /\ Resting("refill") = UNCHANGED evidenceVars
  BY DEF Resting

\* A step of the services is a step or a rest of every part.
EveryPart ==
  /\ [TransportNext]_transportVars /\ [TokenNext]_tokenVars /\ [ReaperNext]_reaperVars
  /\ [ChildrenNext]_childVars /\ [ReadinessNext]_passVars /\ [GatesNext]_gateVars
  /\ [BudgetNext]_budgetVars /\ [LimitsNext]_limitVars /\ [ShutdownNext]_shutdownVars
  /\ [LimaNext]_limaVars /\ [ConfigurationNext]_configVars
  /\ [TelemetryNext]_telemetryVars /\ [InstallNext]_installVars
  /\ [EvidenceNext]_evidenceVars

LEMMA EveryPartSteps == [ServicesNext]_serviceVars => EveryPart
<1> SUFFICES ASSUME [ServicesNext]_serviceVars
             PROVE  EveryPart
  OBVIOUS
<1>1. CASE UNCHANGED serviceVars
  BY <1>1 DEF serviceVars, EveryPart
<1>2. ASSUME ServicesNext
      PROVE  EveryPart
  <2> DEFINE Moves(p) ==
        CASE p = "call"      -> TransportNext
          [] p = "token"     -> TokenNext
          [] p = "zombie"    -> ReaperNext
          [] p = "children"  -> ChildrenNext
          [] p = "readiness" -> ReadinessNext
          [] p = "gates"     -> GatesNext
          [] p = "budget"    -> BudgetNext
          [] p = "limits"    -> LimitsNext
          [] p = "stop"      -> ShutdownNext
          [] p = "lima"      -> LimaNext
          [] p = "config"    -> ConfigurationNext
          [] p = "telemetry" -> TelemetryNext
          [] p = "install"   -> InstallNext
          [] p = "refill"    -> EvidenceNext
  <2>1. Moves("call") = TransportNext /\ Moves("token") = TokenNext
        /\ Moves("zombie") = ReaperNext /\ Moves("children") = ChildrenNext
        /\ Moves("readiness") = ReadinessNext /\ Moves("gates") = GatesNext
        /\ Moves("budget") = BudgetNext /\ Moves("limits") = LimitsNext
        /\ Moves("stop") = ShutdownNext /\ Moves("lima") = LimaNext
        /\ Moves("config") = ConfigurationNext /\ Moves("telemetry") = TelemetryNext
        /\ Moves("install") = InstallNext /\ Moves("refill") = EvidenceNext
    OBVIOUS
  <2> HIDE DEF Moves
  <2>2. \A p \in Parts : Moves(p) \/ Resting(p)
    BY <1>2, <2>1 DEF ServicesNext, OthersRest
  <2>3. QED
    BY <2>1, <2>2, RestingPart DEF Parts, EveryPart
<1>3. QED
  BY <1>1, <1>2

ServicesInv ==
  /\ TransportInv /\ TokenInv /\ ReaperInv /\ ChildInv /\ PassInv /\ GatesInv /\ BudgetInv
  /\ LimitsInv /\ ShutInv /\ LimaInv /\ ConfigInv /\ TelemetryInv /\ InstallInv /\ EvidenceInv

LEMMA ServicesInitInv == ServicesInit => ServicesInv
  BY TransportInitInv, TokenInitInv, ReaperInitInv, ChildInitInv, PassInitInv, GatesInitInv,
     BudgetInitInv, LimitsInitInv, ShutInitInv, LimaInitInv, ConfigInitInv, TelemetryInitInv,
     InstallInitInv, EvidenceInitInv
     DEF ServicesInit, ServicesInv

HeadroomSteps == (alert' /\ ~alert) => (idle = AlertAfter /\ ~reported)

\* What a step of the services does.
ServicesStep ==
  HeadroomSteps /\ DrainSteps /\ DrainKeepsRows /\ InstallSpares /\ NotTornAlone

LEMMA ServicesStepInv ==
  ServicesInv /\ [ServicesNext]_serviceVars => ServicesInv' /\ ServicesStep
<1> SUFFICES ASSUME ServicesInv, EveryPart
             PROVE  ServicesInv' /\ ServicesStep
  BY EveryPartSteps
<1>1. TransportInv' /\ TokenInv' /\ ReaperInv' /\ ChildInv' /\ PassInv'
  BY TransportStepInv, TokenStepInv, ReaperStepInv, ChildStepInv, PassStepInv
     DEF ServicesInv, EveryPart
<1>2. GatesInv' /\ HeadroomSteps
  BY GatesStepInv DEF ServicesInv, EveryPart, HeadroomSteps
<1>3. BudgetInv' /\ LimitsInv'
  BY BudgetStepInv, LimitsStepInv DEF ServicesInv, EveryPart
<1>4. ShutInv' /\ DrainSteps /\ DrainKeepsRows
  BY ShutStepInv DEF ServicesInv, EveryPart
<1>5. LimaInv' /\ EvidenceInv' /\ TelemetryInv'
  BY LimaStepInv, EvidenceStepInv, TelemetryStepInv DEF ServicesInv, EveryPart
<1>6. ConfigInv' /\ NotTornAlone
  BY ConfigStepInv DEF ServicesInv, EveryPart
<1>7. InstallInv' /\ InstallSpares
  BY InstallStepInv DEF ServicesInv, EveryPart
<1>8. QED
  BY <1>1, <1>2, <1>3, <1>4, <1>5, <1>6, <1>7 DEF ServicesInv, ServicesStep

LEMMA ServicesHold == ServicesSpec => []ServicesInv
  BY ServicesInitInv, ServicesStepInv, PTL DEF ServicesSpec

\* ServicesTypeOK: every variable of the services keeps its type.
THEOREM ServicesAreTyped == ServicesSpec => []ServicesTypeOK
<1>1. ServicesInv => ServicesTypeOK
  BY TransportInvSays, TokenInvSays, ChildInvSays, PassInvSays, GatesInvSays, LimitsInvTyped,
     ShutInvSays, LimaInvTyped, ConfigInvSays, TelemetryInvSays, InstallInvSays,
     EvidenceInvSays
     DEF ServicesInv, ServicesTypeOK, BudgetInv, ReaperInv
<1>2. QED
  BY <1>1, ServicesHold, PTL

\* GithubCallsPaced, run_gh_with_retry_until and the 401 refresh: no call of gh
\* outlives its budget by more than one grace, none is repeated within the delay
\* that GitHub asked for, and the supervisor is kicked once in a cooldown.
THEOREM CallsArePaced == ServicesSpec => []GithubCallsPaced
<1>1. ServicesInv => GithubCallsPaced
  BY TransportInvSays, TokenInvSays DEF ServicesInv, GithubCallsPaced
<1>2. QED
  BY <1>1, ServicesHold, PTL

\* EveryChildHeld, the registry of docker children: each child process that was
\* spawned and not reaped has one holder, and no more than the cap are active.
THEOREM ChildrenAreHeld == ServicesSpec => []EveryChildHeld
<1>1. ServicesInv => EveryChildHeld
  BY ChildInvSays DEF ServicesInv
<1>2. QED
  BY <1>1, ServicesHold, PTL

\* FleetToldTruly: neither the verdict of a readiness pass nor the account of
\* a refill, nor what `ezgha start` makes of it, tells of what was not seen.
THEOREM FleetIsToldTruly == ServicesSpec => []FleetToldTruly
<1>1. ServicesInv => FleetToldTruly
  BY PassInvSays, EvidenceInvSays DEF ServicesInv, FleetToldTruly
<1>2. QED
  BY <1>1, ServicesHold, PTL

\* MemoryFits: the leases that daemons of one host hold are within the budget of
\* its memory, a fleet's limits within the VM's, what init writes fits Docker,
\* and no command runs on a file without limits.
THEOREM MemoryIsKept == ServicesSpec => []MemoryFits
<1>1. ServicesInv => MemoryFits
  BY LimitsInvSays, ConfigInvSays DEF ServicesInv, MemoryFits, BudgetInv
<1>2. QED
  BY <1>1, ServicesHold, PTL

\* GatesHold, admission_gate_with: the headroom alert is raised at AlertAfter
\* paused ticks and once, and the disk guard fails open for a bounded number of
\* refills.
THEOREM GatesAreHonest == ServicesSpec => GatesHold
<1>1. ServicesInv => BlindRefillsBounded
  BY GatesInvSays DEF ServicesInv
<1>2. ServicesInv /\ [ServicesNext]_serviceVars => [HeadroomSteps]_gateVars
  BY ServicesStepInv DEF ServicesStep
<1>3. ServicesSpec => []BlindRefillsBounded
  BY <1>1, ServicesHold, PTL
<1>4. ServicesSpec => HeadroomAlertTrue
  BY <1>2, ServicesHold, PTL DEF ServicesSpec, HeadroomAlertTrue, HeadroomSteps
<1>5. QED
  BY <1>3, <1>4 DEF GatesHold

\* StopLosesNothing, drain_inflight_registrations and stop_all: a drain touches
\* no runner with a container and forgets none that stays registered, within its
\* deadline, and a stop deregisters no sibling.
THEOREM StopsLoseNothing == ServicesSpec => StopLosesNothing
<1>1. ServicesInv => (part = "stop" => DrainBounded /\ StopSparesSiblings)
  BY ShutInvSays DEF ServicesInv
<1>2. ServicesInv /\ [ServicesNext]_serviceVars => [DrainSteps]_shutdownVars
  BY ServicesStepInv DEF ServicesStep
<1>3. ServicesInv /\ [ServicesNext]_serviceVars => [DrainKeepsRows]_shutdownVars
  BY ServicesStepInv DEF ServicesStep
<1>4. ServicesSpec => [](part = "stop" => DrainBounded /\ StopSparesSiblings)
  BY <1>1, ServicesHold, PTL
<1>5. ServicesSpec => DrainSparesContainers
  BY <1>2, ServicesHold, PTL DEF ServicesSpec, DrainSparesContainers, DrainSteps
<1>6. ServicesSpec => DrainForgetsNoRunner
  BY <1>3, ServicesHold, PTL DEF ServicesSpec, DrainForgetsNoRunner, DrainKeepsRows
<1>7. QED
  BY <1>4, <1>5, <1>6 DEF StopLosesNothing

\* CommandsHold: an init that is alone never leaves half a config, an install
\* leaves the daemon alone or restarts it as the supervisor asks, and telemetry
\* is what was seen.
THEOREM CommandsLeaveNoHalf == ServicesSpec => CommandsHold
<1>1. ServicesInv => InstallHolds
  BY InstallInvSays DEF ServicesInv
<1>2. ServicesInv => TelemetryTrue
  BY TelemetryInvSays DEF ServicesInv
<1>3. ServicesInv /\ [ServicesNext]_serviceVars => [NotTornAlone]_configVars
  BY ServicesStepInv DEF ServicesStep
<1>4. ServicesInv /\ [ServicesNext]_serviceVars => [InstallSpares]_installVars
  BY ServicesStepInv DEF ServicesStep
<1>5. ServicesSpec => []InstallHolds
  BY <1>1, ServicesHold, PTL
<1>6. ServicesSpec => []TelemetryTrue
  BY <1>2, ServicesHold, PTL
<1>7. ServicesSpec => ConfigNotTorn
  BY <1>3, ServicesHold, PTL DEF ServicesSpec, ConfigNotTorn, NotTornAlone
<1>8. ServicesSpec => InstallSparesDaemon
  BY <1>4, ServicesHold, PTL DEF ServicesSpec, InstallSparesDaemon, InstallSpares
<1>9. QED
  BY <1>5, <1>6, <1>7, <1>8 DEF CommandsHold

\* RollbackRestores and DeleteAfterJobOver as the run of the services checks them.
THEOREM ServicesUndoSafely == ServicesSpec => [](RollbackRestores /\ DeleteAfterJobOver)
<1>1. ServicesInv => RollbackRestores /\ DeleteAfterJobOver
  BY LimaInvSays DEF ServicesInv, ReaperInv
<1>2. QED
  BY <1>1, ServicesHold, PTL
=============================================================================
