---------------------------- MODULE TokenRefresh ----------------------------
(***************************************************************************)
(* The installation token of the gh CLI (src/github.rs).  Every gh call    *)
(* reads the token file afresh (apply_gh_token_file); a reply of 401 Bad   *)
(* credentials kicks the supervisor's refresh job, at most once per        *)
(* cooldown for all threads of the daemon together                         *)
(* (maybe_trigger_token_refresh): the stamp of the last kick is a process- *)
(* wide atomic that a thread loads, compares and swaps in steps of its     *)
(* own.  The job, and the timer that also starts it, are not in src/src:   *)
(* a run of it mints a token or fails.                                     *)
(***************************************************************************)
EXTENDS Naturals

CONSTANTS
  Threads,      \* the serve loop, the queue monitor, the canary
  Cooldown401,  \* TOKEN_REFRESH_TRIGGER_COOLDOWN
  TokenFaults   \* subset of {"unreadable", "job"}

ASSUME TokenAssumption == Cooldown401 \in Nat \ {0}

VARIABLES
  token,   \* the token in the file: "good", "dead" or "unreadable"
  age,     \* age of LAST_TRIGGER_EPOCH, saturating
  stamps,  \* how many kicks LAST_TRIGGER_EPOCH has seen, modulo the threads
  thread,  \* what each thread does
  loaded,  \* the stamp a thread loaded
  job,     \* a refresh job runs
  storm    \* history: kicks since the clock last moved the stamp out of reach

tokenVars == <<token, age, stamps, thread, loaded, job, storm>>

Stamps == 0..3

TokenTypeOK ==
  /\ token \in {"good", "dead", "unreadable"}
  /\ age \in 0..Cooldown401
  /\ stamps \in Stamps
  /\ thread \in [Threads -> {"working", "refused", "due"}]
  /\ loaded \in [Threads -> Stamps]
  /\ job \in BOOLEAN
  /\ storm \in Nat

\* A call with a token GitHub does not take: a dead one, or the sentinel put
\* in place of a file that cannot be read, never the default account.
Refused(t) ==
  /\ thread[t] = "working"
  /\ token # "good"
  /\ thread' = [thread EXCEPT ![t] = "refused"]
  /\ UNCHANGED <<token, age, stamps, loaded, job, storm>>

\* token_refresh_due, on the loaded stamp.
RefreshDue == age >= Cooldown401

Load(t) ==
  /\ thread[t] = "refused"
  /\ loaded' = [loaded EXCEPT ![t] = stamps]
  /\ thread' = [thread EXCEPT ![t] = IF RefreshDue THEN "due" ELSE "working"]
  /\ UNCHANGED <<token, age, stamps, job, storm>>

\* compare_exchange: only the thread that finds the stamp unchanged kicks.
Wins(t) == loaded[t] = stamps

Kick(t) ==
  /\ thread[t] = "due"
  /\ thread' = [thread EXCEPT ![t] = "working"]
  /\ IF Wins(t)
     THEN /\ age' = 0
          /\ stamps' = (stamps + 1) % 4
          /\ storm' = storm + 1
          /\ job' = TRUE
     ELSE UNCHANGED <<age, stamps, storm, job>>
  /\ UNCHANGED <<token, loaded>>

\* The job mints a token or, with the App key unusable, or if it could not
\* even be started, fails.
JobMints ==
  /\ job
  /\ job' = FALSE
  /\ token' = "good"
  /\ UNCHANGED <<age, stamps, thread, loaded, storm>>

JobFails ==
  /\ job
  /\ "job" \in TokenFaults
  /\ job' = FALSE
  /\ UNCHANGED <<token, age, stamps, thread, loaded, storm>>

\* The key is rotated, or the file becomes unreadable.
TokenBreaks ==
  /\ token = "good"
  /\ token' \in {"dead"} \cup (TokenFaults \cap {"unreadable"})
  /\ UNCHANGED <<age, stamps, thread, loaded, job, storm>>

\* A thread does not linger between its load and its swap.
TokenTick ==
  /\ \A t \in Threads : thread[t] # "due"
  /\ age < Cooldown401
  /\ age' = age + 1
  /\ storm' = IF age' = Cooldown401 THEN 0 ELSE storm
  /\ UNCHANGED <<token, stamps, thread, loaded, job>>

TokenInit ==
  /\ token = "good"
  /\ age = Cooldown401
  /\ stamps = 0
  /\ thread = [t \in Threads |-> "working"]
  /\ loaded = [t \in Threads |-> 0]
  /\ job = FALSE
  /\ storm = 0

TokenNext ==
  \/ \E t \in Threads : Refused(t) \/ Load(t) \/ Kick(t)
  \/ JobMints \/ JobFails \/ TokenBreaks \/ TokenTick

\* The threads keep calling GitHub, and a job ends, in whatever way.
TokenSpec ==
  /\ TokenInit /\ [][TokenNext]_tokenVars
  /\ \A t \in Threads : WF_tokenVars(Refused(t) \/ Load(t) \/ Kick(t))
  /\ WF_tokenVars(JobMints \/ JobFails)
  /\ WF_tokenVars(TokenTick)

----------------------------------------------------------------------------
\* However many threads see the 401 at once, one kick is made per cooldown.
OneKickPerCooldown == storm <= 1

\* As long as the token is dead a refresh job is started again and again,
\* without the timer's help: the cooldown and a job that failed delay the next
\* kick and do not prevent it.
RefreshKeepsComing == token # "good" ~> job \/ token = "good"
=============================================================================
