------------------------------ MODULE MCDaemon ------------------------------
(***************************************************************************)
(* The machines of the daemon's main thread for TLC: the serve loop, the   *)
(* wait for and the restarts of its backend, its start under systemd, the  *)
(* choice of a backend, the probes it waits for, the files it keeps, the   *)
(* list of runners it reads, the containment of what it starts, and the    *)
(* heartbeat of its process.  They share no variable: a behaviour picks    *)
(* one of them, its part, and takes only that one's steps.                 *)
(***************************************************************************)
EXTENDS ServeLoop, BackendRecovery, ServiceStart, BackendChoice, BoundedProbe, StateFile,
        RunnerListing, Containment, Heartbeat

VARIABLE part

Parts == {"loop", "recovery", "service", "choice", "probe", "files", "listing", "contain",
          "heart"}

Setting(n, memory, parent, vm) ==
    [count |-> n, memory |-> memory, pids |-> 512, parent |-> parent, container |-> TRUE,
     declaresVm |-> vm]

SomeSettings == {Setting(2, 2000, TRUE, TRUE), Setting(10, 2500, TRUE, FALSE),
                 Setting(14, 2000, FALSE, FALSE)}

DaemonTypeOK ==
    /\ TypeOK /\ RecoveryTypeOK /\ ServiceTypeOK /\ ChoiceTypeOK /\ ProbeTypeOK /\ StateTypeOK
    /\ ListingTypeOK /\ ContainTypeOK /\ HeartTypeOK

(* The parts that are not picked stay in one of their initial states.      *)
ParkedChoice ==
    /\ os = "linux" /\ minimum = "vm" /\ override = Unset /\ ambient = Native
    /\ ~tools.tart /\ ~tools.kvm
    /\ \A e \in Endpoints : ~daemons[e].up /\ ~daemons[e].sysbox

ParkedContainment ==
    /\ settings.declaresVm /\ native /\ ~hypervisor /\ ~honours /\ ~neutral
    /\ slice = [pidsMax |-> 6000, rest |-> FALSE, readable |-> TRUE]

DaemonInit ==
    /\ part \in Parts
    /\ Init /\ (part = "loop" \/ alive = 0)
    /\ RecoveryInit /\ (part = "recovery" \/ (docker = "up" /\ ~gateAsks))
    /\ ServiceInit /\ (part = "service" \/ (host = "native" /\ answers))
    /\ ProbeInit /\ (part = "probe" \/ (form = "capture" /\ answer = "nothing"))
    /\ ListingInit /\ (part = "listing" \/ registered = <<>>)
    /\ ContainInit /\ (part = "contain" \/ ParkedContainment)
    /\ ChoiceInit /\ tools.kvm = tools.tart /\ (part = "choice" \/ ParkedChoice)
    /\ HeartInit /\ (part = "heart" \/ watchdog = 0)
    /\ StateInit /\ (part = "files" \/ kind = "slots")

Resting(p) ==
    CASE p = "loop"     -> UNCHANGED vars
      [] p = "recovery" -> UNCHANGED recoveryVars
      [] p = "service"  -> UNCHANGED serviceVars
      [] p = "choice"   -> UNCHANGED choiceVars
      [] p = "probe"    -> UNCHANGED probeVars
      [] p = "files"    -> UNCHANGED stateVars
      [] p = "listing"  -> UNCHANGED listVars
      [] p = "contain"  -> UNCHANGED containVars
      [] p = "heart"    -> UNCHANGED heartVars

OthersRest == UNCHANGED part /\ \A q \in Parts \ {part} : Resting(q)

DaemonNext ==
    \/ part = "loop" /\ Next /\ OthersRest
    \/ part = "recovery" /\ RecoveryNext /\ OthersRest
    \/ part = "service" /\ ServiceNext /\ OthersRest
    \/ part = "choice" /\ ChoiceNext /\ OthersRest
    \/ part = "probe" /\ ProbeNext /\ OthersRest
    \/ part = "files" /\ StateNext /\ OthersRest
    \/ part = "listing" /\ ListingNext /\ OthersRest
    \/ part = "contain" /\ ContainNext /\ OthersRest
    \/ part = "heart" /\ HeartNext /\ OthersRest

daemonVars == <<vars, recoveryVars, serviceVars, choiceVars, probeVars, stateVars, listVars,
                containVars, heartVars, part>>

DaemonSpec ==
    /\ DaemonInit
    /\ [][DaemonNext]_daemonVars
    /\ WF_vars(part = "loop" /\ Loop)
    /\ WF_recoveryVars(part = "recovery" /\ Daemon)
    /\ WF_serviceVars(part = "service" /\ StartStep)
    /\ WF_serviceVars(part = "service" /\ Restart)
    /\ WF_serviceVars(part = "service" /\ AlertHook)
    /\ WF_serviceVars(part = "service" /\ ServiceTime)
    /\ WF_probeVars(part = "probe" /\ Callers)
    /\ WF_probeVars(part = "probe" /\ ThreadReaps)
    /\ WF_probeVars(part = "probe" /\ KillTakes)
    /\ WF_probeVars(part = "probe" /\ ProbeElapse)
    /\ WF_containVars(part = "contain" /\ AdmitTick)
    /\ WF_containVars(part = "contain" /\ BatchEnds)
    /\ WF_containVars(part = "contain" /\ DockerRun)
    /\ WF_containVars(part = "contain" /\ (StartReported \/ StartUndone))

(* TableIsAtomic and DamageIsKept of module StateFile: no row of a state   *)
(* file is lost to an overlapping command, a kill or damage.               *)
StateSurvives == TableIsAtomic /\ DamageIsKept

(* ChoiceSound of module BackendChoice and RunnersContained of module      *)
(* Containment: neither the choice of a backend nor the runners it starts  *)
(* rest on a probe that failed.                                            *)
HostHolds == ChoiceSound /\ RunnersContained

(* StartsInTime of module BackendRecovery, WatchdogSpares and JoinIsPrompt *)
(* of Heartbeat: no probe or restart holds the start beyond its budget, no *)
(* step of the loop, however long, costs the process its life, and its end *)
(* waits for no sleep.                                                     *)
StartBounded == StartsInTime /\ WatchdogSpares /\ JoinIsPrompt

(* LoopRests, EpisodesEnd, StuckFleetPages and SickDaemonSelfTests of      *)
(* module ServeLoop: neither reconciliations nor an episode of local polls *)
(* go on and on, and neither a fleet whose readiness is never proved nor a *)
(* daemon that is never healthy stays silent.                              *)
LoopProgress ==
    /\ []EpisodesEnd
    /\ part = "loop" => LoopRests /\ StuckFleetPages /\ SickDaemonSelfTests

(* RestartsKeepComing of module BackendRecovery, ServesOnceReachable of    *)
(* module ServiceStart, PauseLifts of Containment, ProbeReturns and        *)
(* ProbeReaped of BoundedProbe: neither a VM, nor a service, nor a host    *)
(* that was refused is given up silently, and a probe that is late holds   *)
(* nobody up and is not forgotten.  For the VM this is so where the        *)
(* containment gate can be met without Docker's answer (PausedBackend      *)
(* shows the other hosts).                                                 *)
ServiceComesUp ==
    /\ ProbeReturns
    /\ part = "recovery" => RestartsKeepComing
    /\ part = "service" => ServesOnceReachable
    /\ part = "contain" => PauseLifts
    /\ part = "probe" => ProbeReaped
=============================================================================
