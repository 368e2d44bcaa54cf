---------------------------- MODULE Containment ----------------------------
(***************************************************************************)
(* The containment of runners on the host (docker_backend.rs): what must   *)
(* hold of the configuration, of actions.slice and of the user manager     *)
(* before a tick and before each start, and the check of where docker has  *)
(* put a container.  A daemon that runs in a VM is bounded by it and is    *)
(* exempt, so the probes that tell a VM from the host must err towards     *)
(* the host.  Memory is counted in MB.                                     *)
(***************************************************************************)
EXTENDS Naturals

CONSTANTS Settings,       \* configurations the operator may write, see SettingsType
          ContainFaults,  \* subset of {"probe", "run", "inspect", "rm", "host"}
          MaxFaults       \* bound on them

Gib == 1024

(* host_actions_profile: what a fleet of this size needs.  No pids, no     *)
(* condition.                                                              *)
AnyPids == 0
Profile(n) ==
    CASE n = 10 -> [memory |-> 2500, pids |-> AnyPids, high |-> 26 * Gib, max |-> 28 * Gib,
                    pidsMax |-> 6000]
      [] n = 14 -> [memory |-> 2000, pids |-> 512, high |-> 26 * Gib, max |-> 28 * Gib,
                    pidsMax |-> 8000]
      [] n = 20 -> [memory |-> 1400, pids |-> 512, high |-> 26 * Gib, max |-> 28 * Gib,
                    pidsMax |-> 8000]
Supported(n) == n \in {10, 14, 20}

SettingsType == [count : Nat, memory : Nat, pids : Nat, parent : BOOLEAN,
                 container : BOOLEAN, declaresVm : BOOLEAN]

ASSUME ContainAssumption == Settings \subseteq SettingsType /\ MaxFaults \in Nat

VARIABLES settings,   \* the configuration of this daemon
          native,     \* docker runs on the kernel of the host
          hypervisor, \* the kernel reports a hypervisor
          honours,    \* docker puts a container under the parent it is told
          slice,      \* pids.max and the other limits of actions.slice
          neutral,    \* the user manager's OOM properties are the expected ones
          doing,      \* "resting", "refilling", "running" or "checking"
          place,      \* where docker has put the container: "slice", "elsewhere", "guest"
          inSlice, elsewhere, inGuest,   \* runners reported as started, by place
          strays,     \* containers whose start was refused and that stayed
          paused,     \* the last tick was refused
          faults      \* failures so far

containVars == <<settings, native, hypervisor, honours, slice, neutral, doing, place,
                 inSlice, elsewhere, inGuest, strays, paused, faults>>
hostFacts == <<settings, native, hypervisor, honours>>
launched == <<inSlice, elsewhere, inGuest, strays>>

Slices == [pidsMax : {6000, 8000}, rest : BOOLEAN, readable : BOOLEAN]
Launched == inSlice + elsewhere + inGuest

ContainTypeOK ==
    /\ settings \in Settings /\ {native, hypervisor, honours, neutral, paused} \subseteq BOOLEAN
    /\ slice \in Slices
    /\ doing \in {"resting", "refilling", "running", "checking"}
    /\ place \in {"none", "slice", "elsewhere", "guest"}
    /\ Launched \in 0..settings.count /\ strays \in 0..MaxFaults /\ faults \in 0..MaxFaults

ContainInit ==
    /\ settings \in Settings
    /\ native \in BOOLEAN /\ hypervisor \in BOOLEAN /\ honours \in BOOLEAN
    /\ slice \in {s \in Slices : s.readable} /\ neutral \in BOOLEAN
    /\ doing = "resting" /\ place = "none"
    /\ inSlice = 0 /\ elsewhere = 0 /\ inGuest = 0 /\ strays = 0
    /\ paused = FALSE /\ faults = 0

May(f) == f \in ContainFaults /\ faults < MaxFaults
Suffer(f) == faults' = faults + f

-----------------------------------------------------------------------------
(* The two kernels are compared; one that cannot be read is no evidence.   *)
InVmIfUnknown(answered) == ~answered \/ ~native       \* mutant of DaemonInVm
DaemonInVm(answered) == answered /\ ~native

VmAsserted == settings.declaresVm /\ hypervisor

VmContained(answered) == DaemonInVm(answered) \/ VmAsserted

SettingsConform ==
    /\ settings.container /\ settings.parent /\ Supported(settings.count)
    /\ settings.memory = Profile(settings.count).memory
    /\ Profile(settings.count).pids \in {AnyPids, settings.pids}

SliceConforms ==
    /\ slice.readable /\ slice.rest
    /\ slice.pidsMax = Profile(settings.count).pidsMax

(* A declared VM is never asked for the slice: it is one, or is refused.   *)
Admitted(answered) ==
    \/ DaemonInVm(answered)
    \/ settings.declaresVm /\ hypervisor
    \/ ~settings.declaresVm /\ SettingsConform /\ SliceConforms /\ neutral

-----------------------------------------------------------------------------
(* A tick: a refusal pauses admission and alerts; nothing latches it.      *)
AdmitTick ==
    /\ doing = "resting"
    /\ \E answered \in BOOLEAN :
          /\ answered \/ May("probe")
          /\ Suffer(IF answered THEN 0 ELSE 1)
          /\ paused' = ~Admitted(answered)
          /\ doing' = IF Admitted(answered) THEN "refilling" ELSE "resting"
    /\ UNCHANGED <<hostFacts, slice, neutral, place, launched>>

BatchEnds ==
    /\ doing = "refilling" /\ doing' = "resting"
    /\ UNCHANGED <<hostFacts, slice, neutral, place, launched, paused, faults>>

(* Every start asks again.                                                 *)
BeginStart ==
    /\ doing = "refilling" /\ Launched < settings.count
    /\ \E answered \in BOOLEAN :
          /\ answered \/ May("probe")
          /\ Suffer(IF answered THEN 0 ELSE 1)
          /\ doing' = IF Admitted(answered) THEN "running" ELSE "refilling"
    /\ UNCHANGED <<hostFacts, slice, neutral, place, launched, paused>>

DockerRun ==
    /\ doing = "running"
    /\ place' = IF ~native THEN "guest"
                ELSE IF settings.parent /\ honours THEN "slice" ELSE "elsewhere"
    /\ doing' = "checking"
    /\ UNCHANGED <<hostFacts, slice, neutral, launched, paused, faults>>

DockerRunFails ==
    /\ doing = "running" /\ May("run") /\ Suffer(1)
    /\ doing' = "refilling"
    /\ UNCHANGED <<hostFacts, slice, neutral, place, launched, paused>>

Done == doing' = "refilling" /\ place' = "none"

(* require_container_actions_ancestry, when it lets the container be: it   *)
(* is known to be in a VM, or its cgroup is under actions.slice.  The pid  *)
(* of a container in a guest is not one of the host.                       *)
AncestryHolds(answered) == VmContained(answered) \/ place = "slice"

StartReported ==
    /\ doing = "checking" /\ Done
    /\ \E answered \in BOOLEAN :
          /\ answered \/ May("probe")
          /\ Suffer(IF answered THEN 0 ELSE 1)
          /\ AncestryHolds(answered)
    /\ inSlice' = inSlice + (IF place = "slice" THEN 1 ELSE 0)
    /\ elsewhere' = elsewhere + (IF place = "elsewhere" THEN 1 ELSE 0)
    /\ inGuest' = inGuest + (IF place = "guest" THEN 1 ELSE 0)
    /\ UNCHANGED <<hostFacts, slice, neutral, strays, paused>>

(* Otherwise, or when docker inspect fails, the container is removed, if   *)
(* docker rm does.                                                         *)
StartUndone ==
    /\ doing = "checking" /\ Done
    /\ \E answered, inspected, removed \in BOOLEAN :
          LET failures == (IF answered THEN 0 ELSE 1) + (IF inspected THEN 0 ELSE 1)
                          + (IF removed THEN 0 ELSE 1)
          IN  /\ answered \/ "probe" \in ContainFaults
              /\ inspected \/ "inspect" \in ContainFaults
              /\ removed \/ "rm" \in ContainFaults
              /\ faults + failures <= MaxFaults /\ Suffer(failures)
              /\ ~VmContained(answered) /\ (inspected => place # "slice")
              /\ strays' = strays + (IF removed THEN 0 ELSE 1)
    /\ UNCHANGED <<hostFacts, slice, neutral, inSlice, elsewhere, inGuest, paused>>

RunnerEnds ==
    /\ \/ inSlice > 0 /\ inSlice' = inSlice - 1 /\ UNCHANGED <<elsewhere, inGuest>>
       \/ elsewhere > 0 /\ elsewhere' = elsewhere - 1 /\ UNCHANGED <<inSlice, inGuest>>
       \/ inGuest > 0 /\ inGuest' = inGuest - 1 /\ UNCHANGED <<inSlice, elsewhere>>
    /\ UNCHANGED <<hostFacts, slice, neutral, doing, place, strays, paused, faults>>

(* The operator changes the slice, or the OOM policy of the user manager.  *)
HostChanges ==
    /\ May("host") /\ Suffer(1)
    /\ slice' \in Slices /\ neutral' \in BOOLEAN
    /\ UNCHANGED <<hostFacts, doing, place, launched, paused>>

ContainNext ==
    \/ AdmitTick \/ BatchEnds \/ BeginStart \/ DockerRun \/ DockerRunFails
    \/ StartReported \/ StartUndone \/ RunnerEnds \/ HostChanges

(* The serve loop ticks on, and a batch ends.                              *)
ContainFairness ==
    /\ WF_containVars(AdmitTick) /\ WF_containVars(BatchEnds) /\ WF_containVars(DockerRun)
    /\ WF_containVars(StartReported \/ StartUndone)

ContainSpec == ContainInit /\ [][ContainNext]_containVars /\ ContainFairness

-----------------------------------------------------------------------------
(* On a host that is no VM every runner reported as started is in the      *)
(* slice, whatever probes fail, and the limits of all of them together fit *)
(* the memory of the slice they were admitted under.                       *)
RunnersContained ==
    /\ elsewhere > 0 => settings.declaresVm /\ hypervisor
    /\ inSlice > 0 /\ ~settings.declaresVm =>
         inSlice * settings.memory <= Profile(settings.count).max

(* A refusal is not held against the host: once it conforms for good,      *)
(* admission is no longer paused.                                          *)
PauseLifts ==
    <>[](Admitted(TRUE)) => <>[]~paused
=============================================================================
