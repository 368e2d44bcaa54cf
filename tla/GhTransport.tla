----------------------------- MODULE GhTransport -----------------------------
(***************************************************************************)
(* One request to GitHub through the gh CLI, src/github.rs: its callers,   *)
(* and the retry loop of run_gh_with_backoff_core_capped around            *)
(* run_gh_with_timeout in its three forms: "plain" (run_gh_with_backoff),  *)
(* "until" (the sleeps between attempts respect the caller's deadline) and *)
(* "capped" (the attempts do, too).  A reply is classified by its text:    *)
(* what the server says of a rate limit decides whether, and how long, the *)
(* loop waits.                                                             *)
(***************************************************************************)
EXTENDS Integers

CONSTANTS
  MaxRetries,  \* GH_MAX_RETRIES
  BaseDelay,   \* GH_RETRY_BASE_DELAY
  MaxDelay,    \* GH_RETRY_MAX_DELAY
  Floor,       \* GH_SECONDARY_MIN_DELAY
  Timeout,     \* GH_TIMEOUT
  Grace,       \* the extra time stderr gets
  Budget,      \* the callers' deadline
  RetryAfters  \* the waits the server may ask for

ASSUME TransportAssumption ==
  /\ {MaxRetries, BaseDelay, MaxDelay, Floor, Timeout, Budget} \subseteq Nat \ {0}
  /\ Grace \in Nat
  /\ BaseDelay <= MaxDelay
  /\ RetryAfters \subseteq Nat

VARIABLES
  caller,   \* the function that asked, or "none"
  point,    \* "idle", "attempt", "reply" or "sleep"
  attempt,  \* number of the attempt
  delay,    \* the exponential part of the back-off
  left,     \* time to the caller's deadline
  reply,    \* what the last attempt brought
  nap,      \* how long the loop sleeps
  owed,     \* history: what is left of the wait the server is owed
  told      \* what that function returned last

transportVars == <<caller, point, attempt, delay, left, reply, nap, owed, told>>

NoWait == -1
Asks == RetryAfters \cup {NoWait}

\* A reply: its class, and the Retry-After in its text.  "timeout" is a child
\* that was killed, "refused" everything the loop does not retry.
\* "garbled" is a success whose body is not what was asked for.
Classes == {"ok", "garbled", "secondary", "primary", "transient", "refused", "timeout"}
Reply == [class : Classes, ask : Asks]

\* The form of the loop each caller takes: api_json and api_post_empty the
\* plain one, api_json_until the one that minds its deadline, and the probe of
\* the REST budget the capped one.
Form == [api_json |-> "plain", api_post_empty |-> "plain",
         api_json_until |-> "until", rest_budget_remaining |-> "capped"]
Callers == DOMAIN Form

Results == {"body", "done", "error", "known", "unknown"}

Smaller(m, n) == IF m < n THEN m ELSE n
Larger(m, n) == IF m < n THEN n ELSE m

\* Past this the model stops counting.
Latest == -(2 * (Timeout + Grace))

TransportTypeOK ==
  /\ caller \in Callers \cup {"none"}
  /\ point \in {"idle", "attempt", "reply", "sleep"}
  /\ attempt \in 1..MaxRetries
  /\ delay \in 1..MaxDelay
  /\ left \in Latest..Budget
  /\ reply \in Reply
  /\ nap \in Nat
  /\ owed \in Nat
  /\ told \in Results \cup {"nothing"}

----------------------------------------------------------------------------
\* classify_retry_delay: the wait a reply asks for, or NoWait if the loop
\* does not retry it.  A secondary limit is honoured as it stands, a primary
\* one within 1 and MaxDelay.
Wait(r) ==
  CASE r.class = "secondary" -> IF r.ask = NoWait THEN Floor ELSE r.ask
    [] r.class = "primary" ->
         Larger(Smaller(IF r.ask = NoWait THEN BaseDelay ELSE r.ask, MaxDelay), 1)
    [] r.class = "transient" -> BaseDelay
    [] OTHER -> NoWait

Capped == caller \in Callers /\ Form[caller] = "capped"

\* Mutant: an attempt ignores the deadline.
ChildBudgetUncapped == Timeout

\* run_gh_with_timeout: how long an attempt may take.
ChildBudget ==
  IF Capped THEN Smaller(Larger(left, 0), Timeout) ELSE Timeout

HasDeadline == caller \in Callers /\ Form[caller] \in {"until", "capped"}
LeftAfter(d) == IF HasDeadline THEN Larger(left - d, Latest) ELSE left

\* With a deadline, the loop does not sleep up to it.
Bails(d) == HasDeadline /\ left - d <= 0

----------------------------------------------------------------------------
Begin(c) ==
  /\ point = "idle"
  /\ caller' = c
  /\ point' = "attempt"
  /\ attempt' = 1
  /\ delay' = BaseDelay
  /\ left' = Budget
  /\ owed' = 0
  /\ UNCHANGED <<reply, nap, told>>

ApiJson == Begin("api_json")
ApiPostEmpty == Begin("api_post_empty")
ApiJsonUntil == Begin("api_json_until")
RestBudgetProbe == Begin("rest_budget_remaining")

\* The child ends by itself within its budget, its stderr within Grace more,
\* or stdout does not end and the child is killed.
Attempt ==
  /\ point = "attempt"
  /\ \E d \in {0, ChildBudget, ChildBudget + Grace}, r \in Reply :
       /\ r.class = "timeout" => d = ChildBudget
       /\ r.ask # NoWait => r.class \in {"secondary", "primary"}
       /\ reply' = r
       /\ left' = LeftAfter(d)
       /\ owed' = IF r.class = "secondary" THEN Wait(r) ELSE 0
  /\ point' = "reply"
  /\ UNCHANGED <<caller, attempt, delay, nap, told>>

\* What the caller makes of the end of its call.  A failed exit is an error
\* like a child that was killed, and only the probe of the budget looks into
\* the body: whatever it cannot trust is an unknown budget, not a low one.
Outcome(class) ==
  CASE caller = "rest_budget_remaining" -> IF class = "ok" THEN "known" ELSE "unknown"
    [] class \notin {"ok", "garbled"}  -> "error"
    [] caller = "api_post_empty"        -> "done"
    [] OTHER                            -> "body"

\* A killed child, a success, a reply that is not retried, the last attempt
\* and a wait that would pass the deadline end the call.
Answer ==
  /\ point = "reply"
  /\ \/ Wait(reply) = NoWait
     \/ attempt = MaxRetries
     \/ Bails(Larger(Wait(reply), delay))
  /\ point' = "idle"
  /\ caller' = "none"
  /\ told' = Outcome(reply.class)
  /\ UNCHANGED <<attempt, delay, left, reply, nap, owed>>

BackOff ==
  /\ point = "reply"
  /\ Wait(reply) # NoWait
  /\ attempt < MaxRetries
  /\ ~Bails(Larger(Wait(reply), delay))
  /\ nap' = Larger(Wait(reply), delay)
  /\ point' = "sleep"
  /\ UNCHANGED <<caller, attempt, delay, left, reply, owed, told>>

\* Mutant: the back-off is not capped.
NextDelayUncapped == 2 * delay

NextDelay == Smaller(2 * delay, MaxDelay)

Wake ==
  /\ point = "sleep"
  /\ left' = LeftAfter(nap)
  /\ owed' = Larger(owed - nap, 0)
  /\ delay' = NextDelay
  /\ attempt' = attempt + 1
  /\ point' = "attempt"
  /\ UNCHANGED <<caller, reply, nap, told>>

TransportInit ==
  /\ caller = "none" /\ point = "idle"
  /\ attempt = 1 /\ delay = BaseDelay /\ left = Budget
  /\ reply = [class |-> "ok", ask |-> NoWait]
  /\ nap = 0 /\ owed = 0 /\ told = "nothing"

TransportLoop == Attempt \/ Answer \/ BackOff \/ Wake

TransportNext ==
  TransportLoop \/ ApiJson \/ ApiPostEmpty \/ ApiJsonUntil \/ RestBudgetProbe

TransportSpec ==
  TransportInit /\ [][TransportNext]_transportVars /\ WF_transportVars(TransportLoop)

----------------------------------------------------------------------------
\* A caller with a deadline gets its answer in time, however the waits the
\* server asks for and the children that hang add up: with capped attempts
\* within the grace of stderr, with plain ones within one attempt more.
AnswersInTime ==
  HasDeadline => left >= -(Grace + (IF Capped THEN 0 ELSE Timeout))

\* A call leaves GitHub alone for as long as a secondary rate limit asks.
SecondaryHonoured == point = "attempt" => owed = 0
=============================================================================
