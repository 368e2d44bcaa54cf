----------------------------- MODULE Readiness -----------------------------
(***************************************************************************)
(* One readiness pass of the settling loop (docker_backend.rs,             *)
(* local_executing_runner_count): docker ps lists the managed containers,  *)
(* then docker top looks into this host's, at most Width at a time, under  *)
(* one deadline, while runners start and die.                              *)
(***************************************************************************)
EXTENDS Naturals, FiniteSets

CONSTANTS
    Boxes,     \* the containers of the host
    Ours,      \* those named with this host's prefix
    Width,     \* READINESS_PROBE_CONCURRENCY
    TopLimit,  \* LOCAL_TOP_TIMEOUT
    PassLimit  \* LOCAL_READINESS_BUDGET

ASSUME ReadinessAssumption ==
    /\ Ours \subseteq Boxes
    /\ {Width, TopLimit, PassLimit} \subseteq Nat \ {0}

ProbeOutcome == {"Ready", "NotReady", "Absent"}

VARIABLES
    box,      \* what each container is: runner alive, runner dead, gone
    stage,    \* "ps", "top", or the end: "told", "unknown"
    spent,    \* time since the pass began
    todo,     \* containers listed and not yet probed
    probing,  \* the probes of the current batch that run, and for how long
    allowed,  \* the time the probes of the batch were given
    outcome,  \* the probes that ended
    expired,  \* deadline_expired: a container was left out of the batch
    wasReady, \* history: containers whose runner was alive in this pass
    listed    \* history: what docker ps listed of this host's

passVars == <<box, stage, spent, todo, probing, allowed, outcome, expired, wasReady, listed>>

ReadinessTypeOK ==
    /\ box \in [Boxes -> {"alive", "dead", "gone"}]
    /\ stage \in {"ps", "top", "told", "unknown"}
    /\ spent \in 0..PassLimit
    /\ todo \subseteq Ours /\ listed \subseteq Ours /\ wasReady \subseteq Boxes
    /\ DOMAIN probing \subseteq Ours /\ DOMAIN outcome \subseteq Ours
    /\ \A c \in DOMAIN probing : probing[c] \in 0..TopLimit
    /\ \A c \in DOMAIN outcome : outcome[c] \in ProbeOutcome \cup {"Err"}
    /\ allowed \in 0..TopLimit /\ expired \in BOOLEAN

----------------------------------------------------------------------------
Lesser(a, b) == IF a < b THEN a ELSE b
AliveIn(b) == {c \in Boxes : b[c] = "alive"}
Nothing == [c \in {} |-> 0]

(* The host goes on: a runner starts, dies in its container, or the        *)
(* container goes with it (docker run --rm).                               *)
BoxChanges ==
    /\ stage \in {"ps", "top"}
    /\ \E c \in Boxes, new \in {"alive", "dead", "gone"} :
          /\ box[c] # new /\ (box[c] = "gone" => new = "alive" /\ c \notin listed)
          /\ box[c] = "dead" => new = "gone"
          /\ box' = [box EXCEPT ![c] = new]
    /\ wasReady' = wasReady \cup AliveIn(box')
    /\ UNCHANGED <<stage, spent, todo, probing, allowed, outcome, expired, listed>>

(* managed_containers_until_deadline and current_prefix_containers. *)
List ==
    /\ stage = "ps"
    /\ \E answered \in BOOLEAN :
          IF answered /\ spent < PassLimit
          THEN /\ stage' = "top"
               /\ listed' = {c \in Ours : box[c] # "gone"}
               /\ todo' = listed'
          ELSE stage' = "unknown" /\ UNCHANGED <<listed, todo>>
    /\ UNCHANGED <<box, spent, probing, allowed, outcome, expired, wasReady>>

(* A batch: each probe gets what is left, at most TopLimit.  The deadline  *)
(* may pass while the batch is spawned, and the containers left out then   *)
(* fail the pass.                                                          *)
Dispatch ==
    /\ stage = "top" /\ probing = Nothing /\ todo # {} /\ ~expired /\ spent < PassLimit
    /\ \E batch \in SUBSET todo :
          /\ \/ Cardinality(batch) = Lesser(Width, Cardinality(todo))
             \/ spent + 1 = PassLimit /\ Cardinality(batch) < Width
          /\ todo' = todo \ batch
          /\ probing' = [c \in batch |-> 0]
          /\ expired' = (Cardinality(batch) < Lesser(Width, Cardinality(todo)))
    /\ allowed' = Lesser(PassLimit - spent, TopLimit)
    /\ UNCHANGED <<box, stage, spent, outcome, wasReady, listed>>

Expire ==
    /\ stage = "top" /\ probing = Nothing /\ todo # {} /\ ~expired /\ spent = PassLimit
    /\ expired' = TRUE
    /\ UNCHANGED <<box, stage, spent, todo, probing, allowed, outcome, wasReady, listed>>

(* docker top: a Runner.Worker or a Runner.Listener among the processes,   *)
(* neither, or no such container.                                          *)
RunnerPresent(c) == box[c] = "alive"

Seen(c) ==
    CHOOSE o \in ProbeOutcome :
        /\ o = "Absent" <=> box[c] = "gone"
        /\ o = "Ready" <=> RunnerPresent(c)

ProbeEnds ==
    /\ stage = "top"
    /\ \E c \in DOMAIN probing :
         \E seen \in IF probing[c] < allowed THEN {Seen(c), "Err"} ELSE {"Err"} :
          /\ outcome' = [d \in DOMAIN outcome \cup {c} |-> IF d = c THEN seen ELSE outcome[d]]
          /\ probing' = [d \in DOMAIN probing \ {c} |-> probing[d]]
    /\ UNCHANGED <<box, stage, spent, todo, allowed, expired, wasReady, listed>>

(* A pass that left a container out, or whose probe failed, tells nothing. *)
PassComplete == ~expired /\ \A c \in DOMAIN outcome : outcome[c] # "Err"

EndPass ==
    /\ stage = "top" /\ probing = Nothing
    /\ (todo = {} \/ expired)
    /\ stage' = IF PassComplete THEN "told" ELSE "unknown"
    /\ UNCHANGED <<box, spent, todo, probing, allowed, outcome, expired, wasReady, listed>>

(* docker ps and docker top are killed at their limits. *)
PassTime ==
    /\ stage \in {"ps", "top"} /\ spent < PassLimit
    /\ \A c \in DOMAIN probing : probing[c] < allowed
    /\ spent' = spent + 1
    /\ probing' = [c \in DOMAIN probing |-> probing[c] + 1]
    /\ UNCHANGED <<box, stage, todo, allowed, outcome, expired, wasReady, listed>>

ReadinessInit ==
    /\ box \in [Boxes -> {"alive", "dead", "gone"}]
    /\ stage = "ps" /\ spent = 0 /\ todo = {} /\ listed = {}
    /\ probing = Nothing /\ outcome = Nothing
    /\ allowed = 0 /\ expired = FALSE /\ wasReady = AliveIn(box)

PassStep == List \/ Dispatch \/ Expire \/ ProbeEnds \/ EndPass

ReadinessNext == PassStep \/ BoxChanges \/ PassTime

ReadinessFairness == WF_passVars(PassStep)

ReadinessSpec == ReadinessInit /\ [][ReadinessNext]_passVars /\ ReadinessFairness

----------------------------------------------------------------------------
(* The runners a pass calls ready.                                         *)
Ready == {c \in DOMAIN outcome : outcome[c] = "Ready"}
Absent == {c \in DOMAIN outcome : outcome[c] = "Absent"}

(* A pass that tells anything has looked at every container it listed:     *)
(* what it counts as ready was ready while the pass ran, and a slot it     *)
(* reports absent, which settling reconciles at once, has really lost its  *)
(* container.                                                              *)
VerdictIsWhole ==
    stage = "told" =>
        /\ DOMAIN outcome = listed
        /\ Ready \subseteq wasReady
        /\ \A c \in Absent : box[c] = "gone"
=============================================================================
