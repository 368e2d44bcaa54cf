---------------------------- MODULE BoundedProbe ----------------------------
(***************************************************************************)
(* A probe of the host by a child process, in the two forms the daemon     *)
(* has.  "capture" (platform.rs) waits for the end of the child's output   *)
(* and then for the child; it asks docker and uname what the host offers.  *)
(* "findmnt" (config.rs) polls the child and waits for its output only     *)
(* once it has exited, each under a budget of its own, and leaves a child  *)
(* that is late to a thread: it asks which filesystem serves the workspace *)
(* of the runners, and a wedged mount must not hold the start.             *)
(***************************************************************************)
EXTENDS Naturals

CONSTANT ProbeLimit    \* PROBE_TIMEOUT, workspace_probe_budget

ASSUME ProbeLimitAssumption == ProbeLimit \in Nat \ {0}

VARIABLES form,         \* "capture" or "findmnt"
          answer,       \* what the child writes: "fuse", "kernel", "nothing"
          child,        \* "running", "succeeded", "failed", "killed"
          open,         \* who holds the child's stdout: the child, a descendant
          stuck,        \* the child is in a call that no signal ends
          signalled,    \* the caller has sent it SIGKILL
          early,        \* the child has closed its stdout and runs on
          waiting,      \* what the caller waits for: "output", "exit", "death", "nothing"
          elapsed,      \* since the probe began
          spent,        \* since the caller began to wait for this
          told,      \* what the probe tells its caller
          reaped        \* somebody has waited for the child

probeVars == <<form, answer, child, open, stuck, signalled, early, waiting, elapsed, spent,
               told, reaped>>

Late == 3 * ProbeLimit + 1
Tellings == {"none", "fuse", "kernel", "unverified"}

ProbeTypeOK ==
    /\ form \in {"capture", "findmnt"} /\ answer \in {"fuse", "kernel", "nothing"}
    /\ child \in {"running", "succeeded", "failed", "killed"}
    /\ open \subseteq {"child", "descendant"}
    /\ stuck \in BOOLEAN /\ signalled \in BOOLEAN /\ early \in BOOLEAN /\ reaped \in BOOLEAN
    /\ waiting \in {"output", "exit", "death", "nothing"}
    /\ elapsed \in 0..Late /\ spent \in 0..ProbeLimit
    /\ told \in Tellings

ProbeInit ==
    /\ form \in {"capture", "findmnt"} /\ answer \in {"fuse", "kernel", "nothing"}
    /\ child = "running" /\ open = {"child"}
    /\ stuck = FALSE /\ signalled = FALSE /\ early = FALSE
    /\ waiting = IF form = "capture" THEN "output" ELSE "exit"
    /\ elapsed = 0 /\ spent = 0 /\ told = "none" /\ reaped = FALSE

Alive == child = "running"
Asking == waiting # "nothing"

-----------------------------------------------------------------------------
(* The child and what it leaves behind.                                    *)

(* A child in a call that no signal ends neither exits nor dies.           *)
ChildExits(how) ==
    /\ Alive /\ ~stuck
    /\ child' = how /\ open' = open \ {"child"}
    /\ UNCHANGED <<form, answer, stuck, signalled, early, waiting, elapsed, spent, told,
                   reaped>>

ChildForks ==
    /\ Alive /\ "child" \in open /\ Asking
    /\ open' = open \cup {"descendant"}
    /\ UNCHANGED <<form, answer, child, stuck, signalled, early, waiting, elapsed, spent,
                   told, reaped>>

DescendantEnds ==
    /\ "descendant" \in open /\ open' = open \ {"descendant"}
    /\ UNCHANGED <<form, answer, child, stuck, signalled, early, waiting, elapsed, spent,
                   told, reaped>>

ChildCloses ==
    /\ Alive /\ "child" \in open /\ Asking
    /\ open' = open \ {"child"} /\ early' = TRUE
    /\ UNCHANGED <<form, answer, child, stuck, signalled, waiting, elapsed, spent, told,
                   reaped>>

ChildStuck ==
    /\ Alive /\ stuck' = ~stuck
    /\ UNCHANGED <<form, answer, child, open, signalled, early, waiting, elapsed, spent,
                   told, reaped>>

KillTakes ==
    /\ signalled /\ Alive /\ ~stuck
    /\ child' = "killed" /\ open' = open \ {"child"}
    /\ UNCHANGED <<form, answer, stuck, signalled, early, waiting, elapsed, spent, told,
                   reaped>>

-----------------------------------------------------------------------------
(* The caller.                                                             *)

(* What a whole output tells: a listing with fuse in it is a rejection, an *)
(* empty one is no told.                                                *)
Told == IF child # "succeeded" \/ answer = "nothing" THEN "unverified" ELSE answer

Tell(v) == told' = v /\ waiting' = "nothing" /\ UNCHANGED spent
WaitFor(w) == waiting' = w /\ spent' = 0 /\ UNCHANGED told

(* read_to_end on a thread of its own: it returns once nobody holds the    *)
(* pipe.                                                                   *)
OutputComplete ==
    /\ waiting = "output" /\ open = {}
    /\ IF form = "capture" THEN WaitFor("death") ELSE Tell(Told)
    /\ UNCHANGED <<form, answer, child, open, stuck, signalled, early, elapsed, reaped>>

(* capture waits for the child, without a limit.                           *)
WaitReturns ==
    /\ form = "capture" /\ waiting = "death" /\ ~Alive
    /\ Tell(IF signalled THEN "unverified" ELSE Told) /\ reaped' = TRUE
    /\ UNCHANGED <<form, answer, child, open, stuck, signalled, early, elapsed>>

(* findmnt polls it; an exit that is no success needs no output.           *)
PollReturns ==
    /\ form = "findmnt" /\ waiting = "exit" /\ ~Alive /\ reaped' = TRUE
    /\ IF child = "succeeded" THEN WaitFor("output") ELSE Tell("unverified")
    /\ UNCHANGED <<form, answer, child, open, stuck, signalled, early, elapsed>>

AfterLate == IF form = "capture" THEN WaitFor("death") ELSE Tell("unverified")

(* A late output of findmnt is left alone: its child has exited.           *)
BudgetSpent ==
    /\ spent = ProbeLimit /\ waiting \in {"output", "exit"}
    /\ IF form = "findmnt" /\ waiting = "output"
       THEN Tell("unverified") /\ UNCHANGED signalled
       ELSE AfterLate /\ signalled' = TRUE
    /\ UNCHANGED <<form, answer, child, open, stuck, early, elapsed, reaped>>

LeftToThread == form = "findmnt" /\ waiting = "nothing" /\ signalled

(* The thread that findmnt leaves a late child to.                         *)
ThreadReaps ==
    /\ LeftToThread /\ ~Alive /\ ~reaped
    /\ reaped' = TRUE
    /\ UNCHANGED <<form, answer, child, open, stuck, signalled, early, waiting, elapsed, spent,
                   told>>

(* recv_timeout and the deadline of the poll fire when their time is up; a *)
(* child that can die of its signal, and a wait for a dead one, take none. *)
ProbeElapse ==
    /\ Asking /\ elapsed < Late /\ elapsed' = elapsed + 1
    /\ waiting = "death" \/ spent < ProbeLimit
    /\ ~(signalled /\ Alive /\ ~stuck) /\ ~(waiting = "death" /\ ~Alive)
    /\ spent' = IF spent < ProbeLimit THEN spent + 1 ELSE spent
    /\ UNCHANGED <<form, answer, child, open, stuck, signalled, early, waiting, told, reaped>>

Callers == OutputComplete \/ WaitReturns \/ PollReturns \/ BudgetSpent

ProbeNext ==
    \/ ChildExits("succeeded") \/ ChildExits("failed")
    \/ ChildForks \/ DescendantEnds \/ ChildCloses \/ ChildStuck \/ KillTakes
    \/ Callers \/ ThreadReaps \/ ProbeElapse

ProbeFairness ==
    /\ WF_probeVars(Callers) /\ WF_probeVars(ThreadReaps) /\ WF_probeVars(KillTakes)
    /\ WF_probeVars(ProbeElapse)

ProbeSpec == ProbeInit /\ [][ProbeNext]_probeVars /\ ProbeFairness

-----------------------------------------------------------------------------
(* findmnt returns within its two budgets whatever its child and its       *)
(* descendants do; capture outlasts its own only while its child is stuck, *)
(* or has closed its output and runs on; and neither takes for an answer   *)
(* what a child has not written and then succeeded.                        *)
ProbeReturns ==
    [][/\ form = "findmnt" /\ elapsed' # elapsed => elapsed' <= 2 * ProbeLimit
       /\ form = "capture" /\ elapsed' # elapsed /\ elapsed >= ProbeLimit => stuck \/ early
       /\ told' \in {"fuse", "kernel"} => child = "succeeded" /\ answer = told'
      ]_probeVars

(* No probe leaves a zombie, if its child ever comes out of its call.      *)
ProbeReaped == []<>(~Alive) => <>reaped
=============================================================================
