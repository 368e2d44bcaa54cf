--------------------------- MODULE BackendChoice ---------------------------
(***************************************************************************)
(* The choice of a backend (platform.rs, backend.rs): the probes of the    *)
(* host, one after the other, while the Docker daemon they ask comes and   *)
(* goes, and the strongest backend the policy admits.  Every docker        *)
(* command names its endpoint, so that the daemon that is probed is the    *)
(* one that runs the containers.                                           *)
(***************************************************************************)
EXTENDS Naturals

CONSTANTS Endpoints,    \* Docker daemons of the host, "native" among them
          Unset,        \* no endpoint was selected at installation
          MaxFlips      \* bound on daemons that come or go

Native == "native"

ASSUME ChoiceAssumption == Native \in Endpoints /\ MaxFlips \in Nat

VARIABLES os,           \* "linux" or "macos"
          minimum,      \* policy.minimum_isolation: "container" or "vm"
          tools,        \* tart, virsh and a usable /dev/kvm
          override,     \* DOCKER_HOST_OVERRIDE
          ambient,      \* what docker's own current context names
          daemons,      \* each daemon: is it up, in a VM, with sysbox
          seen,         \* what the probes have told: docker_ok, sysbox_runtime, daemon_in_vm
          looking,      \* the next probe
          choice,       \* the selection, once it is made
          flips,        \* changes so far
          calm          \* none of them during this detection

choiceVars == <<os, minimum, tools, override, ambient, daemons, seen, looking, choice,
                flips, calm>>
facts == <<os, minimum, tools, override>>

Backends == {"tart", "libvirt", "sysbox", "docker"}
Isolations == {"none", "container", "vm"}
Rank(i) == CASE i = "none" -> 0 [] i = "container" -> 1 [] i = "vm" -> 2
NoChoice == [kind |-> "none", backend |-> "none", skipped |-> {}]

ChoiceTypeOK ==
    /\ os \in {"linux", "macos"} /\ minimum \in Isolations
    /\ tools \in [tart : BOOLEAN, virsh : BOOLEAN, kvm : BOOLEAN]
    /\ override \in Endpoints \cup {Unset} /\ ambient \in Endpoints
    /\ daemons \in [Endpoints -> [up : BOOLEAN, vm : BOOLEAN, sysbox : BOOLEAN]]
    /\ seen \in [ok : BOOLEAN, sysbox : BOOLEAN, vm : BOOLEAN]
    /\ looking \in {"version", "runtimes", "kernel", "select", "done"}
    /\ choice.kind \in {"none", "chosen", "blocked"}
    /\ choice.backend \in Backends \cup {"none"}
    /\ flips \in 0..MaxFlips /\ calm \in BOOLEAN

(* There is no Docker on macOS but in a VM, and no other native daemon.    *)
PossibleHost ==
    /\ os = "macos" => \A e \in Endpoints : daemons[e].vm
    /\ os = "linux" => ~daemons[Native].vm
    /\ \A e \in Endpoints \ {Native} : daemons[e].vm

ChoiceInit ==
    /\ os \in {"linux", "macos"} /\ minimum \in {"container", "vm"}
    /\ tools \in [tart : BOOLEAN, virsh : {TRUE}, kvm : BOOLEAN]
    /\ override \in Endpoints \cup {Unset} /\ ambient \in Endpoints
    /\ daemons \in [Endpoints -> [up : BOOLEAN, vm : BOOLEAN, sysbox : BOOLEAN]]
    /\ PossibleHost
    /\ seen = [ok |-> FALSE, sysbox |-> FALSE, vm |-> FALSE]
    /\ looking = "version" /\ choice = NoChoice /\ flips = 0 /\ calm = TRUE

-----------------------------------------------------------------------------
(* docker_command: DOCKER_HOST and DOCKER_CONTEXT are dropped.             *)
Endpoint ==
    IF override # Unset THEN override ELSE IF os = "linux" THEN Native ELSE ambient

(* A probe in its time: a daemon that is down or wedged does not answer.   *)
Answers == daemons[Endpoint].up

Look(next) ==
    looking' = next /\ UNCHANGED <<facts, ambient, daemons, choice, flips, calm>>

ProbeVersion ==
    /\ looking = "version" /\ Look("runtimes")
    /\ seen' = [seen EXCEPT !.ok = Answers]

ProbeRuntimes ==
    /\ looking = "runtimes" /\ Look("kernel")
    /\ seen' = [seen EXCEPT !.sysbox = Answers /\ daemons[Endpoint].sysbox]

(* The kernel is only asked for if the first probe was answered; one that  *)
(* cannot be read is no proof of a VM.                                     *)
ProbeKernel ==
    /\ looking = "kernel" /\ Look("select")
    /\ seen' = [seen EXCEPT !.vm = seen.ok /\ Answers /\ daemons[Endpoint].vm]

-----------------------------------------------------------------------------
Offered(b) ==
    CASE b = "tart"    -> os = "macos" /\ tools.tart
      [] b = "libvirt" -> os = "linux" /\ tools.kvm /\ tools.virsh
      [] b = "sysbox"  -> seen.ok /\ seen.sysbox
      [] b = "docker"  -> seen.ok

Candidates == {b \in Backends : Offered(b)}

(* The order in which they are listed, strongest isolation first.          *)
Strength(b) ==
    CASE b = "tart" -> 4 [] b = "libvirt" -> 3 [] b = "sysbox" -> 2 [] b = "docker" -> 1
Strongest(S) == CHOOSE b \in S : \A c \in S : Strength(c) <= Strength(b)

Implemented(b) == b \in {"sysbox", "docker"}

Isolation(b, vm) == IF b \in {"tart", "libvirt"} \/ vm THEN "vm" ELSE "container"

(* The first implemented candidate decides; the ones before it are told.   *)
Selection ==
    LET usable == {b \in Candidates : Implemented(b)}
        best   == Strongest(usable)
    IN  IF usable = {} THEN NoChoice
        ELSE [kind |-> IF Rank(Isolation(best, seen.vm)) < Rank(minimum)
                       THEN "blocked" ELSE "chosen",
              backend |-> best,
              skipped |-> {b \in Candidates : Strength(b) > Strength(best)}]

SelectBackend ==
    /\ looking = "select" /\ looking' = "done" /\ choice' = Selection
    /\ UNCHANGED <<facts, ambient, daemons, seen, flips, calm>>

(* The caller of a detection that found nothing, or of a command that      *)
(* comes later, detects again.                                             *)
DetectAgain ==
    /\ looking = "done" /\ looking' = "version"
    /\ seen' = [ok |-> FALSE, sysbox |-> FALSE, vm |-> FALSE]
    /\ choice' = NoChoice /\ calm' = TRUE
    /\ UNCHANGED <<facts, ambient, daemons, flips>>

-----------------------------------------------------------------------------
Changes == flips < MaxFlips /\ flips' = flips + 1 /\ calm' = FALSE /\ looking # "done"

DaemonFlips(e) ==
    /\ Changes /\ daemons' = [daemons EXCEPT ![e].up = ~@]
    /\ UNCHANGED <<facts, ambient, seen, looking, choice>>

ContextChanges ==
    /\ Changes /\ ambient' \in Endpoints \ {ambient}
    /\ UNCHANGED <<facts, daemons, seen, looking, choice>>

ChoiceNext ==
    \/ ProbeVersion \/ ProbeRuntimes \/ ProbeKernel \/ SelectBackend \/ DetectAgain
    \/ ContextChanges \/ \E e \in Endpoints : DaemonFlips(e)

ChoiceSpec == ChoiceInit /\ [][ChoiceNext]_choiceVars

-----------------------------------------------------------------------------
(* The daemon that will run the containers: on Linux it does not depend on *)
(* the context of the shell.                                               *)
RunsOn == IF override # Unset THEN override ELSE IF os = "linux" THEN Native ELSE ambient

(* Whatever daemons come and go between the probes, a policy that asks for *)
(* a VM is never served by containers on the host, and what is chosen can  *)
(* be driven.  If nothing changed meanwhile, the choice is the strongest   *)
(* backend that can be driven, a daemon that is up is never passed over,   *)
(* and none is blocked that the policy admits.                             *)
ChoiceSound ==
    /\ choice.kind = "chosen" =>
         /\ choice.backend \in {"sysbox", "docker"}
         /\ minimum = "vm" => daemons[RunsOn].vm
    /\ looking = "done" /\ calm =>
         LET d == daemons[RunsOn] IN
         /\ (choice.kind = "none") = ~d.up
         /\ choice.kind = "blocked" <=> d.up /\ minimum = "vm" /\ ~d.vm
         /\ choice.kind # "none" => (choice.backend = "sysbox") = d.sysbox
         /\ choice.skipped # {} => os = "macos" \/ tools.kvm
=============================================================================
