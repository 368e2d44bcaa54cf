------------------------------ MODULE JobAges ------------------------------
(***************************************************************************)
(* How the queue monitor turns GitHub's timestamps into waits              *)
(* (src/queue_monitor.rs): a timestamp is parsed into a number of days of  *)
(* the proleptic Gregorian calendar, the waits are counted from it, and    *)
(* queue_stats takes their median, their 90th percentile and their tail.   *)
(* The reference is a clock that ticks from one day to the next and knows  *)
(* when each job was really created.  Within a day a timestamp is linear,  *)
(* so that a job is created at midnight, and ages are counted in days.     *)
(***************************************************************************)
EXTENDS Integers, Sequences, FiniteSets

CONSTANTS
    FirstDays,  \* the dates a behaviour may start at
    MaxDays,    \* bound on the days it goes on for
    MaxJobs,    \* bound on the jobs that are created
    StaleAfter, \* queue_monitor.stale_hours, in days
    WarnAfter   \* queue_monitor.tail_warn_minutes, in days

Dates == [year : Nat, month : 1..12, day : 1..31]

ASSUME AgesAssumption ==
    /\ {MaxDays, MaxJobs, WarnAfter} \subseteq Nat /\ StaleAfter \in Nat \ {0}

VARIABLES
    today,    \* the date by the calendar
    elapsed,  \* the days since the first
    waiting   \* the queued and the running jobs: what created_at and started_at
              \* say, and the day it really is aged from

agesVars == <<today, elapsed, waiting>>

(* A timestamp that does not parse, and a started_at that is not given.    *)
Unreadable == [year |-> 0, month |-> 13, day |-> 0]
Unstated == [year |-> 0, month |-> 0, day |-> 0]

AgesTypeOK ==
    /\ today \in Dates /\ elapsed \in 0..MaxDays
    /\ Len(waiting) <= MaxJobs
    /\ \A i \in DOMAIN waiting :
          /\ waiting[i].running \in BOOLEAN
          /\ waiting[i].createdAt \in Dates \cup {Unreadable}
          /\ waiting[i].startedAt \in Dates \cup {Unstated}
          /\ waiting[i].since \in 0..MaxDays + 1

-----------------------------------------------------------------------------
(* The calendar.                                                           *)
Divides(k, n) == n % k = 0
LeapYear(y) == Divides(400, y) \/ (Divides(4, y) /\ ~Divides(100, y))

LengthOf(y, m) ==
    CASE m \in {4, 6, 9, 11}             -> 30
      [] m \in {1, 3, 5, 7, 8, 10, 12}   -> 31
      [] m = 2                           -> IF LeapYear(y) THEN 29 ELSE 28

IsDay(d) == d \in Dates /\ d.day <= LengthOf(d.year, d.month)

ASSUME FirstDaysAssumption == \A d \in FirstDays : IsDay(d)

NextDate(d) ==
    IF d.day < LengthOf(d.year, d.month) THEN [d EXCEPT !.day = @ + 1]
    ELSE IF d.month < 12 THEN [d EXCEPT !.day = 1, !.month = @ + 1]
    ELSE [year |-> d.year + 1, month |-> 1, day |-> 1]

-----------------------------------------------------------------------------
(* is_leap_year and days_from_civil: March is the first month of a year,   *)
(* an era has 400 years.  A day that the month does not have is refused.   *)
NoDay == -1000000

IsLeapYear(y) == (y % 4 = 0 /\ y % 100 # 0) \/ y % 400 = 0

MaxDay(y, m) == IF m = 2 THEN (IF IsLeapYear(y) THEN 29 ELSE 28)
                ELSE IF m \in {4, 6, 9, 11} THEN 30 ELSE 31

DayOfEra(yoe, doy) == yoe * 365 + yoe \div 4 - yoe \div 100 + doy

DaysFromCivil(date) ==
    LET y   == IF date.month <= 2 THEN date.year - 1 ELSE date.year
        era == y \div 400
        yoe == y - era * 400
        doy == ((153 * (date.month + (IF date.month > 2 THEN -3 ELSE 9)) + 2) \div 5)
                 + date.day - 1
    IN  IF date.month \notin 1..12 \/ date.day \notin 1..MaxDay(date.year, date.month)
        THEN NoDay
        ELSE era * 146097 + DayOfEra(yoe, doy) - 719468

-----------------------------------------------------------------------------
(* queue_stats: a running job is aged from its start where that is told.   *)
(* A job from the future, GitHub's clock being ahead, has age 0.           *)
AgedFrom(job) ==
    IF job.running /\ job.startedAt # Unstated THEN job.startedAt ELSE job.createdAt

Parsed(job) == DaysFromCivil(AgedFrom(job)) # NoDay

AgeOfJob(job) ==
    LET age == DaysFromCivil(today) - DaysFromCivil(AgedFrom(job))
    IN  IF age < 0 THEN 0 ELSE age

StaleJob(job) == ~job.running /\ AgeOfJob(job) >= StaleAfter

FreshJobs ==
    {i \in DOMAIN waiting :
        Parsed(waiting[i]) /\ ~waiting[i].running /\ ~StaleJob(waiting[i])}
StaleJobs == {i \in DOMAIN waiting : Parsed(waiting[i]) /\ StaleJob(waiting[i])}
CurrentJobs == {i \in DOMAIN waiting : Parsed(waiting[i]) /\ ~StaleJob(waiting[i])}

(* The ages of the jobs that are not stale, sorted: the k-th is the least  *)
(* age that k of them do not exceed.                                       *)
NoMore(f, a) == {i \in DOMAIN f : f[i] <= a}

IsKth(f, k, a) ==
    /\ Cardinality(NoMore(f, a)) >= k
    /\ \A i \in DOMAIN f : Cardinality(NoMore(f, f[i])) >= k => a <= f[i]

Sorted(f) ==
    [k \in 1..Cardinality(DOMAIN f) |-> CHOOSE a \in {f[i] : i \in DOMAIN f} : IsKth(f, k, a)]

CurrentAges == Sorted([i \in CurrentJobs |-> AgeOfJob(waiting[i])])

(* Twice the median, and a percentile in tenths.                           *)
TwiceMedian(v) ==
    IF v = << >> THEN 0
    ELSE LET mid == Len(v) \div 2
         IN  IF Len(v) % 2 = 0 THEN v[mid] + v[mid + 1] ELSE 2 * v[mid + 1]

Percentile(v, tenths) ==
    IF v = << >> THEN 0
    ELSE LET idx == (Len(v) * tenths) \div 10
         IN  v[1 + (IF idx < Len(v) THEN idx ELSE Len(v) - 1)]

Tail90 == Percentile(CurrentAges, 9)
Longest ==
    LET v == CurrentAges
    IN  IF v = << >> THEN 0 ELSE v[Len(v)]
TailIsBad == Longest > WarnAfter

-----------------------------------------------------------------------------
DayPasses ==
    /\ elapsed < MaxDays
    /\ today' = NextDate(today) /\ elapsed' = elapsed + 1
    /\ UNCHANGED waiting

(* A job is queued today, by a clock that may be a day ahead, and its      *)
(* timestamp may be one the parser does not know.                          *)
Stamps == {[says |-> today, day |-> elapsed], [says |-> Unreadable, day |-> elapsed],
           [says |-> NextDate(today), day |-> elapsed + 1]}

Queued ==
    /\ Len(waiting) < MaxJobs
    /\ \E stamp \in Stamps :
          waiting' = Append(waiting, [running |-> FALSE, createdAt |-> stamp.says,
                                      startedAt |-> Unstated, since |-> stamp.day])
    /\ UNCHANGED <<today, elapsed>>

(* A job begins to run, and GitHub need not say when.                      *)
Begins ==
    /\ \E i \in DOMAIN waiting :
          \E stamp \in {[says |-> today, day |-> elapsed],
                       [says |-> Unstated, day |-> waiting[i].since]} :
             /\ ~waiting[i].running
             /\ waiting' = [waiting EXCEPT ![i] =
                    [running |-> TRUE, createdAt |-> @.createdAt,
                     startedAt |-> stamp.says, since |-> stamp.day]]
    /\ UNCHANGED <<today, elapsed>>

AgesInit == today \in FirstDays /\ elapsed = 0 /\ waiting = << >>

AgesNext == DayPasses \/ Queued \/ Begins

AgesSpec == AgesInit /\ [][AgesNext]_agesVars

-----------------------------------------------------------------------------
(* The jobs whose age can be told, by how long they really wait or run.    *)
AgeTold == {i \in DOMAIN waiting : AgedFrom(waiting[i]) # Unreadable}
TrueAge(i) == IF waiting[i].since > elapsed THEN 0 ELSE elapsed - waiting[i].since
Running == {i \in AgeTold : waiting[i].running}
Young == {i \in AgeTold \ Running : TrueAge(i) < StaleAfter}
Current == Young \cup Running

(* Over the turns of months, leap years and centuries, the statistics are  *)
(* those of the time that really passed: every queued job with a timestamp *)
(* is counted as fresh or stale by its true wait; of the fresh and the     *)
(* running ones half at least are as old as the median or older and half   *)
(* no older, nine in ten no older than the 90th percentile; and the tail   *)
(* is bad exactly if one of them really waits or runs too long.            *)
AgesTrue ==
    /\ FreshJobs = Young /\ StaleJobs = AgeTold \ Current
    /\ LET tail == Tail90
       IN  10 * Cardinality({i \in Current : TrueAge(i) <= tail}) >= 9 * Cardinality(Current)
    /\ LET median == TwiceMedian(CurrentAges)
       IN  /\ 2 * Cardinality({i \in Current : 2 * TrueAge(i) <= median}) >= Cardinality(Current)
           /\ 2 * Cardinality({i \in Current : 2 * TrueAge(i) >= median}) >= Cardinality(Current)
    /\ TailIsBad <=> \E i \in Current : TrueAge(i) > WarnAfter
=============================================================================
