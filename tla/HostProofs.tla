----------------------------- MODULE HostProofs -----------------------------
(***************************************************************************)
(* Proofs about the machines between the daemon and its host: the choice   *)
(* of a backend, the containment of what it starts, the wait for and the   *)
(* restarts of its backend, the heartbeat, the start under systemd and the *)
(* probes.  Each has an inductive invariant, what its initial states and   *)
(* its steps do to it, and what it implies.                                *)
(***************************************************************************)
EXTENDS BackendChoice, Containment, BackendRecovery, Heartbeat, ServiceStart, BoundedProbe,
        FiniteSetTheorems, TLAPS

-----------------------------------------------------------------------------
(* BackendChoice                                                           *)

----------------------------------------------------------------------------
(* The choice of a backend. *)

Choices == [kind : {"none", "chosen", "blocked"}, backend : Backends \cup {"none"},
            skipped : SUBSET Backends]

ChoiceTyped ==
  /\ os \in {"linux", "macos"} /\ minimum \in {"container", "vm"}
  /\ tools \in [tart : BOOLEAN, virsh : BOOLEAN, kvm : BOOLEAN]
  /\ override \in Endpoints \cup {Unset} /\ ambient \in Endpoints
  /\ daemons \in [Endpoints -> [up : BOOLEAN, vm : BOOLEAN, sysbox : BOOLEAN]]
  /\ seen \in [ok : BOOLEAN, sysbox : BOOLEAN, vm : BOOLEAN]
  /\ looking \in {"version", "runtimes", "kernel", "select", "done"}
  /\ choice \in Choices
  /\ flips \in 0..MaxFlips /\ calm \in BOOLEAN

\* A daemon that was once seen in a VM is the one that containers run on: on
\* Linux the endpoint does not depend on the ambient context, and on macOS
\* every daemon is in a VM.
SeenInVm == seen.vm => daemons[Endpoint].vm

\* While nothing changes, what was seen is so.
SeenStands ==
  calm =>
    /\ looking # "version" => seen.ok = Answers
    /\ looking \notin {"version", "runtimes"} =>
         seen.sysbox = (Answers /\ daemons[Endpoint].sysbox)
    /\ looking \in {"select", "done"} =>
         seen.vm = (seen.ok /\ Answers /\ daemons[Endpoint].vm)

\* What was chosen follows from what was seen.
ChoiceFits ==
  IF looking = "done" THEN choice = Selection ELSE choice = NoChoice

ChoiceInv == ChoiceTyped /\ PossibleHost /\ SeenInVm /\ SeenStands /\ ChoiceFits

LEMMA BestOfUsable ==
  ASSUME ChoiceTyped
  PROVE  LET usable == {b \in Candidates : Implemented(b)}
         IN  /\ usable = {} <=> ~seen.ok
             /\ seen.ok => Strongest(usable) = IF seen.sysbox THEN "sysbox" ELSE "docker"
<1> DEFINE usable == {b \in Candidates : Implemented(b)}
<1>1. usable = {b \in {"sysbox", "docker"} : IF b = "sysbox" THEN seen.ok /\ seen.sysbox
                                             ELSE seen.ok}
  BY DEF Candidates, Implemented, Offered, Backends
<1>2. CASE ~seen.ok
  BY <1>1, <1>2
<1>3. CASE seen.ok /\ ~seen.sysbox
  <2>1. usable = {"docker"}
    BY <1>1, <1>3
  <2>2. QED
    BY <1>3, <2>1 DEF Strongest, Strength
<1>4. CASE seen.ok /\ seen.sysbox
  <2>1. usable = {"docker", "sysbox"}
    BY <1>1, <1>4
  <2>2. Strongest({"docker", "sysbox"}) = "sysbox"
    BY DEF Strongest, Strength
  <2>3. QED
    BY <1>4, <2>1, <2>2
<1>5. QED
  BY <1>2, <1>3, <1>4 DEF ChoiceTyped

\* The selection, case by case.
LEMMA SelectionIs ==
  ASSUME ChoiceTyped
  PROVE  /\ Selection \in Choices
         /\ ~seen.ok => Selection = NoChoice
         /\ seen.ok =>
              /\ Selection.kind = IF minimum = "vm" /\ ~seen.vm THEN "blocked" ELSE "chosen"
              /\ Selection.backend = IF seen.sysbox THEN "sysbox" ELSE "docker"
              /\ Selection.skipped # {} =>
                   (os = "macos" /\ tools.tart) \/ (os = "linux" /\ tools.kvm)
<1> DEFINE usable == {b \in Candidates : Implemented(b)}
           best == Strongest(usable)
           skips == {b \in Candidates : Strength(b) > Strength(best)}
<1>1. CASE ~seen.ok
  <2>1. Selection = NoChoice
    BY <1>1, BestOfUsable DEF Selection
  <2>2. NoChoice \in Choices
    BY DEF NoChoice, Choices
  <2>3. QED
    BY <1>1, <2>1, <2>2
<1>2. CASE seen.ok
  <2>1. best = IF seen.sysbox THEN "sysbox" ELSE "docker"
    BY <1>2, BestOfUsable
  <2>2. Selection = [kind |-> IF Rank(Isolation(best, seen.vm)) < Rank(minimum)
                              THEN "blocked" ELSE "chosen",
                     backend |-> best, skipped |-> skips]
    BY <1>2, BestOfUsable DEF Selection
  <2>3. (Rank(Isolation(best, seen.vm)) < Rank(minimum)) <=> (minimum = "vm" /\ ~seen.vm)
    BY <2>1 DEF Rank, Isolation, ChoiceTyped
  <2>4. skips \subseteq Backends
    BY DEF Candidates
  <2>5. skips # {} => (os = "macos" /\ tools.tart) \/ (os = "linux" /\ tools.kvm)
    <3> SUFFICES ASSUME NEW b \in Candidates, Strength(b) > Strength(best)
                 PROVE  (os = "macos" /\ tools.tart) \/ (os = "linux" /\ tools.kvm)
      OBVIOUS
    <3>1. b \in {"tart", "libvirt"} \/ (b = "sysbox" /\ best = "docker")
      BY <2>1 DEF Candidates, Backends, Strength
    <3>2. ~(b = "sysbox" /\ best = "docker")
      BY <2>1 DEF Candidates, Offered
    <3>3. QED
      BY <3>1, <3>2 DEF Candidates, Offered
  <2>6. best \in Backends
    BY <2>1 DEF Backends
  <2> HIDE DEF best, skips
  <2>7. QED
    BY <1>2, <2>1, <2>2, <2>3, <2>4, <2>5, <2>6 DEF Choices
<1>3. QED
  BY <1>1, <1>2

LEMMA ChoiceInitInv == ChoiceInit => ChoiceInv
<1> SUFFICES ASSUME ChoiceInit
             PROVE  ChoiceInv
  OBVIOUS
<1>1. NoChoice \in Choices
  BY DEF NoChoice, Choices
<1>2. seen \in [ok : BOOLEAN, sysbox : BOOLEAN, vm : BOOLEAN] /\ ~seen.vm
  BY DEF ChoiceInit
<1>3. tools \in [tart : BOOLEAN, virsh : BOOLEAN, kvm : BOOLEAN]
  BY DEF ChoiceInit
<1>4. ChoiceTyped
  BY <1>1, <1>2, <1>3, ChoiceAssumption DEF ChoiceInit, ChoiceTyped
<1>5. QED
  BY <1>2, <1>4 DEF ChoiceInit, ChoiceInv, SeenInVm, SeenStands, ChoiceFits

LEMMA ChoiceStepInv == ChoiceInv /\ [ChoiceNext]_choiceVars => ChoiceInv'
<1> SUFFICES ASSUME ChoiceInv, [ChoiceNext]_choiceVars
             PROVE  ChoiceInv'
  OBVIOUS
<1> USE DEF ChoiceInv
<1>0. NoChoice \in Choices
  BY DEF NoChoice, Choices
<1>e. Endpoint \in Endpoints \/ Endpoint = Native
  BY DEF Endpoint, ChoiceTyped
<1>1. CASE ProbeVersion
  <2>1. Endpoint' = Endpoint /\ Answers' = Answers
    BY <1>1 DEF ProbeVersion, Look, facts, Endpoint, Answers
  <2>2. Answers \in BOOLEAN
    <3>1. daemons[Endpoint] \in [up : BOOLEAN, vm : BOOLEAN, sysbox : BOOLEAN]
      BY <1>e, ChoiceAssumption DEF ChoiceTyped
    <3>2. QED
      BY <3>1 DEF Answers
  <2>3. seen'.ok = Answers /\ seen'.vm = seen.vm
        /\ seen' \in [ok : BOOLEAN, sysbox : BOOLEAN, vm : BOOLEAN]
    BY <1>1, <2>2 DEF ProbeVersion, ChoiceTyped
  <2>4. ChoiceTyped' /\ PossibleHost' /\ ChoiceFits'
    BY <1>1, <2>3 DEF ProbeVersion, Look, facts, ChoiceTyped, PossibleHost, ChoiceFits
  <2>5. SeenInVm' /\ SeenStands'
    BY <1>1, <2>1, <2>3 DEF ProbeVersion, Look, facts, SeenInVm, SeenStands
  <2>6. QED
    BY <2>4, <2>5
<1>2. CASE ProbeRuntimes
  <2>1. Endpoint' = Endpoint /\ Answers' = Answers
    BY <1>2 DEF ProbeRuntimes, Look, facts, Endpoint, Answers
  <2>2. QED
    BY <1>2, <2>1 DEF ProbeRuntimes, Look, facts, ChoiceTyped, PossibleHost, SeenInVm,
       SeenStands, ChoiceFits
<1>3. CASE ProbeKernel
  <2>1. Endpoint' = Endpoint /\ Answers' = Answers
    BY <1>3 DEF ProbeKernel, Look, facts, Endpoint, Answers
  <2>2. QED
    BY <1>3, <2>1 DEF ProbeKernel, Look, facts, ChoiceTyped, PossibleHost, SeenInVm,
       SeenStands, ChoiceFits
<1>4. CASE SelectBackend
  <2>1. Selection \in Choices
    BY SelectionIs
  <2>2. UNCHANGED <<facts, ambient, daemons, seen, flips, calm>> /\ choice' = Selection
    BY <1>4 DEF SelectBackend
  <2>3. Selection' = Selection
    BY <2>2 DEF Selection, Candidates, Offered, facts
  <2>4. Endpoint' = Endpoint /\ Answers' = Answers
    BY <2>2 DEF facts, Endpoint, Answers
  <2>5. QED
    BY <1>4, <2>1, <2>2, <2>3, <2>4 DEF SelectBackend, facts, ChoiceTyped, PossibleHost,
       SeenInVm, SeenStands, ChoiceFits
<1>5. CASE DetectAgain
  <2>1. Endpoint' = Endpoint /\ Answers' = Answers
    BY <1>5 DEF DetectAgain, facts, Endpoint, Answers
  <2>2. QED
    BY <1>0, <1>5, <2>1 DEF DetectAgain, facts, ChoiceTyped, PossibleHost, SeenInVm,
       SeenStands, ChoiceFits
<1>6. ASSUME NEW e \in Endpoints, DaemonFlips(e)
      PROVE  ChoiceInv'
  <2>1. Endpoint' = Endpoint /\ flips' \in 0..MaxFlips
    BY <1>6, ChoiceAssumption DEF DaemonFlips, Changes, facts, Endpoint, ChoiceTyped
  <2>2. \A d \in Endpoints : daemons'[d].vm = daemons[d].vm
    BY <1>6 DEF DaemonFlips, ChoiceTyped
  <2>3. daemons' \in [Endpoints -> [up : BOOLEAN, vm : BOOLEAN, sysbox : BOOLEAN]]
    BY <1>6 DEF DaemonFlips, ChoiceTyped
  <2>4. ChoiceTyped'
    BY <1>6, <2>1, <2>3 DEF DaemonFlips, Changes, facts, ChoiceTyped
  <2>5. QED
    BY <1>6, <1>e, <2>1, <2>2, <2>4 DEF DaemonFlips, Changes, facts, PossibleHost, SeenInVm,
       SeenStands, ChoiceFits
<1>7. CASE ContextChanges
  <2>1. flips' \in 0..MaxFlips /\ ambient' \in Endpoints
    BY <1>7, ChoiceAssumption DEF ContextChanges, Changes, ChoiceTyped
  <2>2. ChoiceTyped' /\ PossibleHost'
    BY <1>7, <2>1 DEF ContextChanges, Changes, facts, ChoiceTyped, PossibleHost
  <2>3. SeenInVm'
    BY <1>7, <2>1 DEF ContextChanges, facts, SeenInVm, Endpoint, PossibleHost, ChoiceTyped
  <2>4. QED
    BY <1>7, <2>2, <2>3 DEF ContextChanges, Changes, SeenStands, ChoiceFits
<1>8. CASE UNCHANGED choiceVars
  <2>1. Endpoint' = Endpoint /\ Answers' = Answers /\ Selection' = Selection
    BY <1>8 DEF choiceVars, facts, Endpoint, Answers, Selection, Candidates, Offered
  <2>2. QED
    BY <1>8, <2>1 DEF choiceVars, facts, ChoiceTyped, PossibleHost, SeenInVm,
       SeenStands, ChoiceFits
<1>9. QED
  BY <1>1, <1>2, <1>3, <1>4, <1>5, <1>6, <1>7, <1>8 DEF ChoiceNext

LEMMA ChoiceInvHolds == ChoiceInv => ChoiceTypeOK /\ ChoiceSound
<1> SUFFICES ASSUME ChoiceInv
             PROVE  ChoiceTypeOK /\ ChoiceSound
  OBVIOUS
<1> USE DEF ChoiceInv
<1>1. ChoiceTypeOK
  BY DEF ChoiceTypeOK, ChoiceTyped, Choices, Isolations
<1>2. RunsOn = Endpoint
  BY DEF RunsOn, Endpoint
<1>3. looking # "done" => choice.kind = "none" /\ choice.backend = "none"
  BY DEF ChoiceFits, NoChoice
<1>4. NoChoice.kind = "none" /\ NoChoice.skipped = {}
  BY DEF NoChoice
<1>5. choice.kind = "chosen" => choice.backend \in {"sysbox", "docker"}
                                /\ (minimum = "vm" => daemons[RunsOn].vm)
  BY <1>2, <1>3, <1>4, SelectionIs DEF ChoiceFits, SeenInVm
<1>6. ASSUME looking = "done", calm
      PROVE  LET d == daemons[RunsOn] IN
             /\ (choice.kind = "none") = ~d.up
             /\ choice.kind = "blocked" <=> d.up /\ minimum = "vm" /\ ~d.vm
             /\ choice.kind # "none" => (choice.backend = "sysbox") = d.sysbox
             /\ choice.skipped # {} => os = "macos" \/ tools.kvm
  <2>1. /\ seen.ok = daemons[RunsOn].up
        /\ seen.sysbox = (daemons[RunsOn].up /\ daemons[RunsOn].sysbox)
        /\ seen.vm = (seen.ok /\ daemons[RunsOn].up /\ daemons[RunsOn].vm)
    BY <1>2, <1>6 DEF SeenStands, Answers
  <2>2. choice = Selection
    BY <1>6 DEF ChoiceFits
  <2>3. RunsOn \in Endpoints
    BY ChoiceAssumption DEF RunsOn, ChoiceTyped
  <2>4. daemons[RunsOn] \in [up : BOOLEAN, vm : BOOLEAN, sysbox : BOOLEAN]
    BY <2>3 DEF ChoiceTyped
  <2>5. CASE ~seen.ok
    BY <1>4, <2>1, <2>2, <2>4, <2>5, SelectionIs
  <2>6. CASE seen.ok
    BY <2>1, <2>2, <2>4, <2>6, SelectionIs DEF ChoiceTyped
  <2>7. QED
    BY <2>5, <2>6
<1>7. QED
  BY <1>1, <1>5, <1>6 DEF ChoiceSound

\* ChoiceSound: a policy that asks for a VM is never served by containers on
\* the host, and while nothing changes the choice is the strongest there is.
THEOREM ChoiceIsSound == ChoiceSpec => []ChoiceSound
  BY ChoiceInitInv, ChoiceStepInv, ChoiceInvHolds, PTL DEF ChoiceSpec

-----------------------------------------------------------------------------
(* Containment                                                             *)

----------------------------------------------------------------------------
(* The containment of runners on the host. *)

\* RunnersContained is not inductive: that a runner in the slice was started
\* under settings that conform, and that one elsewhere or in a guest is where
\* the kernel says, goes back to the admission of its start.
ContainInv ==
  /\ settings \in Settings /\ {native, hypervisor, honours, neutral, paused} \subseteq BOOLEAN
  /\ slice \in Slices
  /\ doing \in {"resting", "refilling", "running", "checking"}
  /\ place \in {"none", "slice", "elsewhere", "guest"}
  /\ inSlice \in Nat /\ elsewhere \in Nat /\ inGuest \in Nat /\ strays \in Nat
  /\ faults \in 0..MaxFaults /\ strays <= faults
  /\ Launched <= settings.count
  /\ doing \in {"running", "checking"} =>
       /\ Launched < settings.count
       /\ ~native \/ VmAsserted \/ (~settings.declaresVm /\ SettingsConform)
  /\ place \in {"slice", "elsewhere"} => native
  /\ place # "none" => doing = "checking"
  /\ elsewhere > 0 => VmAsserted
  /\ inSlice > 0 => VmAsserted \/ (~settings.declaresVm /\ SettingsConform)

LEMMA ContainInitInv == ContainInit => ContainInv
<1> SUFFICES ASSUME ContainInit
             PROVE  ContainInv
  OBVIOUS
<1>1. settings.count \in Nat
  BY ContainAssumption DEF ContainInit, SettingsType
<1>2. Launched = 0 /\ 0 \in 0..MaxFaults
  BY ContainAssumption DEF ContainInit, Launched
<1>3. {native, hypervisor, honours, neutral, paused} \subseteq BOOLEAN /\ slice \in Slices
  BY Zenon DEF ContainInit
<1>4. QED
  BY <1>1, <1>2, <1>3 DEF ContainInit, ContainInv

LEMMA ContainStepInv == ContainInv /\ [ContainNext]_containVars => ContainInv'
<1> SUFFICES ASSUME ContainInv, [ContainNext]_containVars
             PROVE  ContainInv'
  OBVIOUS
<1> USE ContainAssumption DEF ContainInv, Launched, launched, hostFacts, Suffer, May,
        SettingsType
<1>c. settings.count \in Nat
  OBVIOUS
<1>0. VmAsserted' = VmAsserted /\ SettingsConform' = SettingsConform /\ UNCHANGED hostFacts
  BY DEF ContainNext, containVars, AdmitTick, BatchEnds, BeginStart, DockerRun,
     DockerRunFails, StartReported, StartUndone, RunnerEnds, HostChanges, VmAsserted,
     SettingsConform
<1>1. CASE AdmitTick
  BY <1>0, <1>1 DEF AdmitTick
<1>2. CASE BatchEnds
  BY <1>0, <1>2 DEF BatchEnds
<1>3. CASE BeginStart
  <2>1. PICK answered \in BOOLEAN :
          /\ answered \/ May("probe")
          /\ faults' = faults + (IF answered THEN 0 ELSE 1)
          /\ doing' = IF Admitted(answered) THEN "running" ELSE "refilling"
    BY <1>3 DEF BeginStart
  <2>2. Admitted(answered) =>
          ~native \/ VmAsserted \/ (~settings.declaresVm /\ SettingsConform)
    BY DEF Admitted, DaemonInVm, VmAsserted
  <2>3. QED
    BY <1>0, <1>3, <2>1, <2>2 DEF BeginStart
<1>4. CASE DockerRun
  BY <1>0, <1>4 DEF DockerRun
<1>5. CASE DockerRunFails
  BY <1>0, <1>5 DEF DockerRunFails
<1>6. CASE StartReported
  <2>1. VmAsserted \/ ~native \/ place = "slice"
    BY <1>6 DEF StartReported, AncestryHolds, VmContained, DaemonInVm
  <2>2. /\ doing' = "refilling" /\ place' = "none"
        /\ faults' \in {faults, faults + 1} /\ faults' <= MaxFaults
        /\ UNCHANGED <<slice, neutral, strays, paused>>
    BY <1>6 DEF StartReported, Done
  <2>3. /\ inSlice' = inSlice + (IF place = "slice" THEN 1 ELSE 0)
        /\ elsewhere' = elsewhere + (IF place = "elsewhere" THEN 1 ELSE 0)
        /\ inGuest' = inGuest + (IF place = "guest" THEN 1 ELSE 0)
    BY <1>6 DEF StartReported
  <2>4. QED
    BY <1>0, <1>6, <2>1, <2>2, <2>3 DEF StartReported
<1>7. CASE StartUndone
  <2>1. /\ faults' \in faults..MaxFaults /\ strays' - strays <= faults' - faults
        /\ strays' \in Nat
    BY <1>7 DEF StartUndone
  <2>2. QED
    BY <1>0, <1>7, <2>1 DEF StartUndone, Done
<1>8. CASE RunnerEnds
  BY <1>0, <1>8 DEF RunnerEnds
<1>9. CASE HostChanges
  BY <1>0, <1>9 DEF HostChanges
<1>10. CASE UNCHANGED containVars
  BY <1>0, <1>10 DEF containVars
<1>11. QED
  BY <1>1, <1>2, <1>3, <1>4, <1>5, <1>6, <1>7, <1>8, <1>9, <1>10 DEF ContainNext

LEMMA ContainInvHolds == ContainInv => ContainTypeOK /\ RunnersContained
<1> SUFFICES ASSUME ContainInv
             PROVE  ContainTypeOK /\ RunnersContained
  OBVIOUS
<1> USE ContainAssumption DEF ContainInv, SettingsType, Launched
<1>1. ContainTypeOK
  BY DEF ContainTypeOK
<1>2. ASSUME inSlice > 0, ~settings.declaresVm
      PROVE  inSlice * settings.memory <= Profile(settings.count).max
  <2>1. SettingsConform /\ inSlice <= settings.count /\ settings.count \in Nat
    BY <1>2 DEF VmAsserted
  <2>2. settings.count \in {10, 14, 20} /\ settings.memory = Profile(settings.count).memory
    BY <2>1 DEF SettingsConform, Supported
  <2>3. CASE settings.count = 10
    BY <2>1, <2>2, <2>3 DEF Profile, Gib
  <2>4. CASE settings.count = 14
    BY <2>1, <2>2, <2>4 DEF Profile, Gib
  <2>5. CASE settings.count = 20
    BY <2>1, <2>2, <2>5 DEF Profile, Gib
  <2>6. QED
    BY <2>2, <2>3, <2>4, <2>5
<1>3. QED
  BY <1>1, <1>2 DEF RunnersContained, VmAsserted

\* RunnersContained: on a host that is no VM every runner reported as started
\* is in the slice, and the limits of all of them fit the slice.
THEOREM FleetIsContained == ContainSpec => []RunnersContained
  BY ContainInitInv, ContainStepInv, ContainInvHolds, PTL DEF ContainSpec

-----------------------------------------------------------------------------
(* BackendRecovery                                                         *)

----------------------------------------------------------------------------
(* The wait for a backend. *)

RecoverySteps == {"select", "reach", "last chance", "help", "command", "health",
                  "quick", "retry", "serve", "ensure", "gave up"}

RecoveryRecord == [window : 0..(Window + 1), attempts : 0..MaxAttempts, last : 0..NoRestart]

\* The least that is left of the start's budget at each step: no probe, no
\* restart command and no poll begins without what the rest of it needs.
BudgetHolds ==
  /\ step = "select" => left + ProbeTime >= 0
  /\ step = "reach" => left + (2 * ProbeTime) >= 0
  /\ step = "last chance" => left + (3 * ProbeTime) >= 0
  /\ step = "help" => left >= wait
  /\ step = "command" => left - wait + ProbeTime >= 0 \/ left >= Margin
  /\ step = "health" => left - poll >= Margin
  /\ step = "quick" => left >= Margin
  /\ step = "retry" => left - wait + ProbeTime >= 0

RecoveryTyped ==
  /\ gateAsks \in BOOLEAN
  /\ step \in RecoverySteps
  /\ docker \in {"up", "down", "weak"}
  /\ command \in 1..(Commands + 1)
  /\ poll \in 0..HealthCeiling
  /\ wait \in 0..Retry
  /\ serving \in BOOLEAN

BudgetTyped == left \in Int /\ left <= StartBudget /\ left + (4 * ProbeTime) >= 0

RecoveryInv ==
  /\ RecoveryTyped
  /\ BudgetTyped
  /\ recovery \in RecoveryRecord
  /\ serving => step \notin {"select", "last chance", "quick", "retry", "gave up"}
  /\ ~serving => BudgetHolds /\ step \notin {"serve", "ensure"}

RecoveryConstants ==
  /\ StartBudget \in Nat /\ Retry \in Nat /\ Quick \in Nat /\ CommandCeiling \in Nat
  /\ MinBudget \in Nat /\ HealthCeiling \in Nat /\ Cooldown \in Nat /\ Window \in Nat
  /\ MaxAttempts \in Nat /\ Commands \in Nat /\ Margin \in Nat /\ ProbeTime \in Nat
  /\ MaxAttempts > 0 /\ Margin <= MinBudget /\ Retry <= Margin + ProbeTime
  /\ Quick <= Margin + ProbeTime

LEMMA RecoveryNumbers == RecoveryConstants
  BY RecoveryAssumption DEF RecoveryConstants

LEMMA StillLeft ==
  ASSUME NEW a \in Int, NEW w \in Int, NEW p \in Nat, w <= a
  PROVE  a - w + p >= 0
  OBVIOUS

LEMMA AgedIsRecord ==
  ASSUME NEW r \in RecoveryRecord, NEW d \in Nat
  PROVE  Aged(r, d) \in RecoveryRecord
<1>1. Least(r.window + d, Window + 1) \in 0..(Window + 1)
  BY RecoveryNumbers DEF RecoveryRecord, RecoveryConstants, Least
<1>2. Least(r.last + d, NoRestart) \in 0..NoRestart
  BY RecoveryNumbers DEF RecoveryRecord, RecoveryConstants, Least, NoRestart
<1>3. QED
  BY <1>1, <1>2 DEF Aged, RecoveryRecord

LEMMA OpenedIsRecord ==
  ASSUME NEW r \in RecoveryRecord
  PROVE  /\ Opened(r) \in RecoveryRecord
         /\ Allows(r) => Recorded(r) \in RecoveryRecord
<1>1. 0 \in 0..(Window + 1) /\ 0 \in 0..MaxAttempts /\ 0 \in 0..NoRestart
  BY RecoveryNumbers DEF RecoveryConstants, NoRestart
<1>2. Opened(r) \in RecoveryRecord
  BY <1>1 DEF Opened, RecoveryRecord
<1>3. ASSUME Allows(r)
      PROVE  Recorded(r) \in RecoveryRecord
  <2>1. Opened(r).attempts + 1 \in 0..MaxAttempts
    BY <1>2, <1>3, RecoveryNumbers DEF Allows, RecoveryRecord, RecoveryConstants
  <2>2. QED
    BY <1>1, <1>2, <2>1 DEF Recorded, RecoveryRecord
<1>4. QED
  BY <1>2, <1>3

LEMMA FreshIsRecord == FreshRecovery \in RecoveryRecord
  BY RecoveryNumbers DEF FreshRecovery, RecoveryRecord, RecoveryConstants, NoRestart

LEMMA RecoveryInitInv == ASSUME "wedged" \notin Outages, Outages \subseteq {"down", "weak", "wedged"}
                         PROVE  RecoveryInit => RecoveryInv
<1> SUFFICES ASSUME RecoveryInit
             PROVE  RecoveryInv
  OBVIOUS
<1>1. recovery \in RecoveryRecord
  BY FreshIsRecord DEF RecoveryInit
<1>2. RecoveryTyped
  <2>1. docker \in {"up", "down", "weak"}
    BY DEF RecoveryInit
  <2>2. 1 \in 1..(Commands + 1) /\ 0 \in 0..HealthCeiling /\ 0 \in 0..Retry
    BY RecoveryNumbers DEF RecoveryConstants
  <2>3. QED
    BY <2>1, <2>2 DEF RecoveryInit, RecoveryTyped, RecoverySteps
<1>3. BudgetTyped
  BY RecoveryNumbers DEF RecoveryConstants, RecoveryInit, BudgetTyped
<1>4. BudgetHolds
  BY RecoveryNumbers DEF RecoveryConstants, RecoveryInit, BudgetHolds
<1>5. QED
  BY <1>1, <1>2, <1>3, <1>4 DEF RecoveryInit, RecoveryInv

LEMMA RecoveryStepInv ==
  ASSUME "wedged" \notin Outages, Outages \subseteq {"down", "weak", "wedged"}
  PROVE  RecoveryInv /\ [RecoveryNext]_recoveryVars => RecoveryInv'
<1> SUFFICES ASSUME RecoveryInv, [RecoveryNext]_recoveryVars
             PROVE  RecoveryInv'
  OBVIOUS
<1>n. RecoveryConstants
  BY RecoveryNumbers
<1>r. recovery \in RecoveryRecord /\ RecoveryTyped /\ BudgetTyped
  BY DEF RecoveryInv
<1>a. ASSUME NEW d \in Nat
      PROVE  /\ Aged(recovery, d) \in RecoveryRecord
             /\ LeftAfter(d) \in Int /\ LeftAfter(d) <= left
             /\ serving => LeftAfter(d) = left
             /\ ~serving /\ left - d + (4 * ProbeTime) >= 0 => LeftAfter(d) = left - d
  <2>1. left \in Int /\ left + (4 * ProbeTime) >= 0 /\ ProbeTime \in Nat
    BY <1>n, <1>r DEF BudgetTyped, RecoveryConstants
  <2>2. LeftAfter(d) = IF serving THEN left
                       ELSE IF left - d < -((4 * ProbeTime) + 1) THEN -((4 * ProbeTime) + 1)
                       ELSE left - d
    BY DEF LeftAfter, Slack
  <2>3. QED
    BY <1>r, <2>1, <2>2, AgedIsRecord
<1>p. /\ ProbeTime \in Nat /\ \A p \in 0..ProbeTime : p \in Nat /\ p <= ProbeTime
      /\ StartBudget \in Nat /\ left \in Int
  BY <1>n, <1>r DEF RecoveryConstants, BudgetTyped
<1>s. ~serving => BudgetHolds
  BY DEF RecoveryInv
<1>1. ASSUME Select \/ LastChance
      PROVE  RecoveryInv'
  <2>1. PICK p \in 0..ProbeTime : Ends(p)
    BY <1>1 DEF Select, LastChance
  <2>2. ~serving /\ BudgetHolds
    BY <1>1 DEF Select, LastChance, RecoveryInv
  <2>3. recovery' \in RecoveryRecord
    BY <1>a, <1>p, <2>1, FreshIsRecord DEF Ends
  <2>4. left + (3 * ProbeTime) >= 0 /\ (step = "select" => left + ProbeTime >= 0)
    <3>1. CASE step = "select"
      BY <1>p, <2>2, <3>1 DEF BudgetHolds
    <3>2. CASE step = "last chance"
      BY <2>2, <3>2 DEF BudgetHolds
    <3>3. QED
      BY <1>1, <3>1, <3>2 DEF Select, LastChance
  <2>5. left' = left - p
    BY <1>a, <1>p, <1>r, <2>1, <2>2, <2>4 DEF Ends, BudgetTyped
  <2>6. BudgetTyped' /\ (step = "select" => left' + (2 * ProbeTime) >= 0)
    BY <1>p, <1>r, <2>4, <2>5 DEF BudgetTyped
  <2>7. RecoveryTyped' /\ (IF serving' THEN step' = "serve" ELSE step' \in {"gave up", "reach"})
        /\ (step' = "reach" => step = "select")
    BY <1>1, <1>r, <2>1 DEF Ends, Select, LastChance, RecoveryTyped, RecoverySteps, Selected
  <2>8. ~serving' => BudgetHolds'
    BY <2>6, <2>7 DEF BudgetHolds
  <2>9. QED
    BY <2>3, <2>6, <2>7, <2>8 DEF RecoveryInv
<1>2. CASE Rest
  <2>1. ~serving /\ ~serving' /\ BudgetHolds
    BY <1>2 DEF Rest, RecoveryInv
  <2>2. PICK d \in Nat : Elapses(d) /\ d = IF step = "quick" THEN Quick ELSE wait
    BY <1>2, <1>n, <1>r DEF Rest, RecoveryConstants, RecoveryTyped
  <2>3. left - d + ProbeTime >= 0
    <3>1. CASE step = "quick"
      <4>1. left >= Margin /\ d = Quick
        BY <2>1, <2>2, <3>1 DEF BudgetHolds
      <4>2. QED
        BY <1>n, <1>p, <4>1 DEF RecoveryConstants
    <3>2. CASE step = "retry"
      BY <2>1, <2>2, <3>2 DEF BudgetHolds
    <3>3. QED
      BY <1>2, <3>1, <3>2 DEF Rest
  <2>4. left' = left - d /\ recovery' \in RecoveryRecord
    BY <1>a, <1>p, <1>r, <2>1, <2>2, <2>3 DEF Elapses, BudgetTyped
  <2>5. BudgetTyped' /\ left' + ProbeTime >= 0
    BY <1>p, <1>r, <2>2, <2>3, <2>4 DEF BudgetTyped
  <2>6. RecoveryTyped' /\ step' = "select"
    BY <1>2, <1>r DEF Rest, RecoveryTyped, RecoverySteps
  <2>7. QED
    BY <2>1, <2>4, <2>5, <2>6 DEF RecoveryInv, BudgetHolds
<1>3. ASSUME HostGate \/ Reconcile
      PROVE  RecoveryInv'
  <2>1. serving /\ serving'
    BY <1>3 DEF HostGate, Reconcile, RecoveryInv
  <2>2. Retry \in Nat
    BY <1>n DEF RecoveryConstants
  <2>3. left' = left /\ recovery' \in RecoveryRecord
    BY <1>3, <1>a, <2>1, <2>2 DEF HostGate, Reconcile, Elapses
  <2>4. RecoveryTyped' /\ step' \in {"serve", "ensure", "reach"}
    BY <1>3, <1>r DEF HostGate, Reconcile, RecoveryTyped, RecoverySteps
  <2>5. QED
    BY <1>r, <2>1, <2>3, <2>4 DEF RecoveryInv, BudgetTyped
<1>4. CASE Reach
  <2>1. PICK p \in 0..ProbeTime : Elapses(p)
    BY <1>4 DEF Reach
  <2>2. recovery' \in RecoveryRecord
    BY <1>a, <1>p, <2>1 DEF Elapses
  <2>3. ~serving => left' = left - p /\ left' + (3 * ProbeTime) >= 0
    <3>1. ~serving => left + (2 * ProbeTime) >= 0
      BY <1>4, <1>s DEF Reach, BudgetHolds
    <3>2. left' = LeftAfter(p)
      BY <2>1 DEF Elapses
    <3>3. QED
      BY <1>a, <1>p, <3>1, <3>2
  <2>4. BudgetTyped'
    BY <1>a, <1>p, <1>r, <2>1, <2>3 DEF Elapses, BudgetTyped
  <2>5. wait' \in 0..Retry /\ (~serving /\ left' > 0 => wait' <= left')
    <3>1. left' \in Int /\ Retry \in Nat
      BY <1>n, <2>4 DEF BudgetTyped, RecoveryConstants
    <3>2. wait' = IF serving THEN Retry
                  ELSE IF Retry < (IF left' > 0 THEN left' ELSE 0) THEN Retry
                       ELSE (IF left' > 0 THEN left' ELSE 0)
      BY <1>4 DEF Reach, Least
    <3>3. QED
      BY <3>1, <3>2
  <2>6. /\ step' \in {"last chance", "serve", "retry", "help"}
        /\ serving => step' \in {"serve", "help"}
        /\ ~serving => step' # "serve" /\ (step' = "last chance" \/ left' > 0)
    <3>1. left' \in Int
      BY <2>4 DEF BudgetTyped
    <3>2. step' = IF ~serving /\ left' <= 0 THEN "last chance"
                  ELSE IF docker \in {"up", "weak"} THEN NoHelp ELSE "help"
      BY <1>4 DEF Reach
    <3>3. CASE serving
      BY <3>2, <3>3 DEF NoHelp
    <3>4. CASE ~serving
      <4>1. CASE left' <= 0
        BY <3>2, <3>4, <4>1
      <4>2. CASE left' > 0
        BY <3>1, <3>2, <3>4, <4>2 DEF NoHelp
      <4>3. QED
        <5>1. left' <= 0 \/ left' > 0
          BY <3>1
        <5>2. QED
          BY <4>1, <4>2, <5>1
    <3>5. QED
      BY <3>3, <3>4
  <2>7. RecoveryTyped' /\ serving' = serving
    BY <1>4, <1>r, <2>5, <2>6 DEF Reach, RecoveryTyped, RecoverySteps
  <2>8. ~serving => BudgetHolds'
    <3>1. left' \in Int /\ wait' \in Int
      BY <1>n, <2>4, <2>5 DEF BudgetTyped, RecoveryConstants
    <3>2. SUFFICES ASSUME ~serving PROVE BudgetHolds'
      OBVIOUS
    <3>3. CASE step' = "last chance"
      BY <2>3, <3>2, <3>3 DEF BudgetHolds
    <3>4. CASE step' \in {"retry", "help"}
      <4>1. wait' <= left' /\ left' - wait' + ProbeTime >= 0
        <5>1. wait' <= left'
          BY <2>5, <2>6, <3>2, <3>4
        <5>2. ProbeTime \in Nat
          BY <1>p
        <5>3. left' - wait' + ProbeTime >= 0
          BY <3>1, <5>1, <5>2, StillLeft
        <5>4. QED
          BY <5>1, <5>3
      <4>2. QED
        BY <3>4, <4>1 DEF BudgetHolds
    <3>5. QED
      BY <2>6, <3>2, <3>3, <3>4
  <2>9. QED
    BY <2>2, <2>4, <2>6, <2>7, <2>8 DEF RecoveryInv
<1>5. CASE Help
  <2>1. PICK p \in 0..ProbeTime :
           LET r == Aged(recovery, p)
               allowed == Selected # "blocked" /\ Allows(r)
           IN  /\ left' = LeftAfter(p)
               /\ recovery' = IF Selected = "blocked" THEN r
                              ELSE IF allowed THEN Recorded(r) ELSE Opened(r)
               /\ step' = IF allowed THEN "command" ELSE NoHelp
    BY <1>5 DEF Help
  <2>2. recovery' \in RecoveryRecord
    BY <1>a, <1>p, <2>1, OpenedIsRecord
  <2>3. wait \in Nat /\ (~serving => left >= wait)
    BY <1>5, <1>n, <1>r, <1>s DEF Help, BudgetHolds, RecoveryTyped, RecoveryConstants
  <2>4. ~serving => left' = left - p /\ left' - wait + ProbeTime >= 0
    BY <1>a, <1>p, <1>r, <2>1, <2>3 DEF BudgetTyped
  <2>5. BudgetTyped'
    BY <1>a, <1>p, <1>r, <2>1, <2>3, <2>4 DEF BudgetTyped
  <2>6. step' \in {"command"} \cup {NoHelp} /\ UNCHANGED <<wait, serving>>
    BY <1>5, <2>1 DEF Help
  <2>7. RecoveryTyped'
    BY <1>5, <1>n, <1>r, <2>6 DEF Help, NoHelp, RecoveryTyped, RecoverySteps, RecoveryConstants
  <2>8. ~serving => BudgetHolds'
    BY <2>4, <2>6 DEF BudgetHolds, NoHelp
  <2>9. QED
    BY <2>2, <2>5, <2>6, <2>7, <2>8 DEF RecoveryInv, NoHelp
<1>6. CASE Skip
  <2>1. ~serving => left - wait + ProbeTime >= 0
    BY <1>6, <1>n, <1>r, <1>s
       DEF Skip, BudgetHolds, RecoveryTyped, BudgetTyped, RecoveryConstants
  <2>2. step' = NoHelp /\ UNCHANGED <<gateAsks, docker, left, recovery, command, poll, wait, serving>>
    BY <1>6 DEF Skip
  <2>3. RecoveryTyped' /\ BudgetTyped'
    BY <1>r, <2>2 DEF RecoveryTyped, BudgetTyped, NoHelp, RecoverySteps
  <2>4. QED
    BY <1>r, <2>1, <2>2, <2>3 DEF RecoveryInv, NoHelp, BudgetHolds
<1>7. ASSUME NEW d \in 0..RestartTimeout, Running, Elapses(d)
      PROVE  /\ recovery' \in RecoveryRecord /\ BudgetTyped'
             /\ ~serving => left' = left - d /\ left' >= Margin
  <2>1. d \in Nat /\ (~serving => d <= left - Margin)
    <3>1. left \in Int /\ CommandCeiling \in Nat /\ Margin \in Nat /\ MinBudget \in Nat
          /\ Margin <= MinBudget
      BY <1>n, <1>r DEF BudgetTyped, RecoveryConstants
    <3>2. QED
      BY <1>7, <3>1 DEF Running, RestartTimeout, Remaining, Least
  <2>2. left \in Int /\ Margin \in Nat
    BY <1>n, <1>r DEF BudgetTyped, RecoveryConstants
  <2>3. ~serving => left' = left - d /\ left' >= Margin
    BY <1>7, <1>a, <1>p, <2>1, <2>2 DEF Elapses
  <2>4. QED
    BY <1>7, <1>a, <1>p, <1>r, <2>1, <2>2, <2>3 DEF Elapses, BudgetTyped
<1>8. CASE CommandSucceeds
  <2>1. PICK d \in 0..RestartTimeout :
           Elapses(d) /\ poll' = HealthTimeout(IF left - d > 0 THEN left - d ELSE 0)
    BY <1>8 DEF CommandSucceeds
  <2>2. /\ recovery' \in RecoveryRecord /\ BudgetTyped'
        /\ ~serving => left' = left - d /\ left' >= Margin
    BY <1>7, <1>8, <2>1 DEF CommandSucceeds
  <2>3. poll' \in 0..HealthCeiling /\ (~serving => left' - poll' >= Margin)
    <3>1. left' \in Int /\ Margin \in Nat /\ HealthCeiling \in Nat
      BY <1>n, <2>2 DEF BudgetTyped, RecoveryConstants
    <3>2. CASE serving
      BY <2>1, <3>1, <3>2 DEF HealthTimeout
    <3>3. CASE ~serving
      <4>1. poll' = HealthTimeout(IF left' > 0 THEN left' ELSE 0)
        BY <2>1, <2>2, <3>3
      <4>2. QED
        BY <2>2, <3>1, <3>3, <4>1 DEF HealthTimeout, Least
    <3>4. QED
      BY <3>2, <3>3
  <2>4. docker' \in {"up", "down", "weak"}
    BY <1>8, <1>r DEF CommandSucceeds, RecoveryTyped
  <2>5. RecoveryTyped' /\ step' = "health" /\ serving' = serving
    BY <1>8, <1>r, <2>3, <2>4 DEF CommandSucceeds, RecoveryTyped, RecoverySteps
  <2>6. QED
    BY <2>2, <2>3, <2>5 DEF RecoveryInv, BudgetHolds
<1>9. CASE CommandFails
  <2>1. PICK d \in 0..RestartTimeout : Elapses(d)
    BY <1>9 DEF CommandFails
  <2>2. /\ recovery' \in RecoveryRecord /\ BudgetTyped'
        /\ ~serving => left' >= Margin
    BY <1>7, <1>9, <2>1 DEF CommandFails
  <2>3. command' \in 1..(Commands + 1)
    BY <1>9, <1>n, <1>r DEF CommandFails, Running, RecoveryTyped, RecoveryConstants
  <2>4. RecoveryTyped' /\ step' = "command" /\ serving' = serving
    BY <1>9, <1>r, <2>3 DEF CommandFails, Running, RecoveryTyped
  <2>5. QED
    BY <2>2, <2>4 DEF RecoveryInv, BudgetHolds
<1>10. CASE Health
  <2>0. step = "health" /\ UNCHANGED <<gateAsks, docker, command, wait, serving>>
    BY <1>10 DEF Health
  <2>h. left \in Int /\ poll \in Nat /\ poll <= HealthCeiling /\ HealthCeiling \in Nat
        /\ Margin \in Nat /\ wait \in Nat /\ wait <= Retry /\ Retry \in Nat
        /\ Retry <= Margin + ProbeTime
        /\ (~serving => left - poll >= Margin)
    BY <1>n, <1>r, <1>s, <2>0 DEF RecoveryTyped, BudgetTyped, RecoveryConstants, BudgetHolds
  <2>1. ASSUME Elapses(0), UNCHANGED poll, step' \in {"serve", "quick", NoHelp},
               IF serving THEN step' = "serve" ELSE step' \in {"quick", "retry"}
        PROVE  RecoveryInv'
    <3>1. left' = left /\ recovery' \in RecoveryRecord
      BY <1>a, <1>p, <2>1, <2>h DEF Elapses
    <3>2. RecoveryTyped' /\ BudgetTyped'
      BY <1>r, <2>0, <2>1, <3>1 DEF RecoveryTyped, BudgetTyped, RecoverySteps
    <3>3. ~serving => left' >= Margin /\ left' - wait' + ProbeTime >= 0
      BY <1>p, <2>0, <2>h, <3>1
    <3>4. QED
      BY <2>0, <2>1, <3>1, <3>2, <3>3 DEF RecoveryInv, BudgetHolds
  <2>2. CASE docker \in {"up", "weak"}
    BY <1>10, <2>1, <2>2 DEF Health
  <2>3. CASE docker = "down" /\ poll = 0
    BY <1>10, <2>1, <2>3 DEF Health, NoHelp
  <2>4. CASE docker = "down" /\ poll # 0
    <3>1. poll' = poll - 1 /\ step' = "health" /\ Elapses(1)
      BY <1>10, <2>0, <2>4 DEF Health
    <3>2. recovery' \in RecoveryRecord
      BY <1>a, <3>1 DEF Elapses
    <3>3. ~serving => left' = left - 1 /\ left' - poll' >= Margin
      <4>1. left' = LeftAfter(1) /\ poll >= 1 /\ poll' = poll - 1
        BY <2>h, <2>4, <3>1 DEF Elapses
      <4>2. ~serving => left - 1 + (4 * ProbeTime) >= 0
        BY <1>p, <2>h, <4>1
      <4>3. QED
        BY <1>a, <1>p, <2>h, <4>1, <4>2
    <3>4. BudgetTyped'
      BY <1>a, <1>p, <1>r, <2>h, <2>4, <3>1, <3>3 DEF Elapses, BudgetTyped
    <3>5. RecoveryTyped'
      BY <1>r, <2>0, <2>h, <2>4, <3>1 DEF RecoveryTyped
    <3>6. QED
      BY <2>0, <3>1, <3>2, <3>3, <3>4, <3>5 DEF RecoveryInv, BudgetHolds
  <2>5. QED
    BY <1>r, <2>2, <2>3, <2>4 DEF RecoveryTyped
<1>11. CASE Hang
  BY <1>11, <1>r DEF Hang, RecoveryTyped
<1>12. CASE DockerChanges
  <2>1. docker' \in {"up", "down", "weak"}
        /\ UNCHANGED <<gateAsks, step, left, recovery, command, poll, wait, serving>>
    BY <1>12 DEF DockerChanges
  <2>2. QED
    BY <2>1 DEF RecoveryInv, RecoveryTyped, BudgetTyped, BudgetHolds
<1>13. CASE UNCHANGED recoveryVars
  BY <1>13 DEF recoveryVars, RecoveryInv, RecoveryTyped, BudgetTyped, BudgetHolds
<1>14. QED
  BY <1>1, <1>2, <1>3, <1>4, <1>5, <1>6, <1>8, <1>9, <1>10, <1>11, <1>12, <1>13
     DEF RecoveryNext, Daemon, GaveUp

LEMMA RecoveryInvHolds == RecoveryInv => RecoveryTypeOK /\ StartsInTime
<1> SUFFICES ASSUME RecoveryInv
             PROVE  RecoveryTypeOK /\ StartsInTime
  OBVIOUS
<1>1. Slack = 4 * ProbeTime /\ left >= -Slack /\ left \in -(Slack + 1)..StartBudget
  <2>1. left \in Int /\ left <= StartBudget /\ left + (4 * ProbeTime) >= 0 /\ ProbeTime \in Nat
        /\ StartBudget \in Nat
    BY RecoveryNumbers DEF RecoveryConstants, RecoveryInv, BudgetTyped
  <2>2. QED
    BY <2>1 DEF Slack
<1>2. QED
  BY <1>1 DEF RecoveryInv, RecoveryTyped, RecoverySteps, RecoveryTypeOK, StartsInTime, RecoveryRecord

\* StartsInTime: the wait for a backend passes its deadline by four probes at most.
THEOREM BackendWaitIsBounded ==
  ASSUME "wedged" \notin Outages, Outages \subseteq {"down", "weak", "wedged"}
  PROVE  RecoverySpec => []StartsInTime
  BY RecoveryInitInv, RecoveryStepInv, RecoveryInvHolds, PTL DEF RecoverySpec

-----------------------------------------------------------------------------
(* Heartbeat                                                               *)

----------------------------------------------------------------------------
(* The heartbeat. *)

\* How long systemd has not heard of the process, by what the thread is at.
PingIsDue ==
  /\ beat = "sleep" /\ nap > 0 => sincePing <= Beat - nap
  /\ beat = "sleep" /\ nap = 0 => sincePing <= Beat + late
  /\ beat = "ping" => sincePing <= Beat + LateBy + late
  /\ beat = "ended" => sincePing <= Beat + (2 * LateBy)

\* How long its end has waited, by the same.
JoinIsDue ==
  activity = "join" =>
    /\ beat = "none" => stepFor = 0
    /\ beat = "sleep" /\ nap > 0 => stepFor = 0
    /\ beat = "sleep" /\ nap = 0 => stepFor <= 1 + late
    /\ beat = "ping" => stepFor <= 1 + LateBy + late
    /\ beat = "ended" => stepFor <= 1 + (2 * LateBy)

HeartInv ==
  /\ HeartTypeOK
  /\ activity \in Starting => beat = "none" /\ stepFor <= upFor
  /\ beat = "none" => late = 0
  /\ beat # "none" => watchdog > 0
  /\ nap > 0 => beat = "sleep" /\ late = 0 /\ nap <= Beat
  /\ dropped => activity \in {"join"} \cup Ended
  /\ activity = "join" => dropped
  /\ beat = "ended" => dropped
  /\ PingIsDue
  /\ JoinIsDue
  /\ WatchdogSpares

LEMMA BeatBeforeBite ==
  ASSUME watchdog \in WatchdogTimes
  PROVE  /\ Beat \in Nat /\ 1 <= Beat /\ Beat <= MostBeat
         /\ watchdog > 0 => Beat + (2 * LateBy) < watchdog
         /\ watchdog \in Nat
<1>1. watchdog \in Nat
  BY HeartbeatAssumption
<1>2. watchdog \div 3 \in Nat
  BY <1>1
<1>3. /\ LeastBeat \in Nat \ {0} /\ MostBeat \in Nat \ {0} /\ LeastBeat <= MostBeat
      /\ LateBy \in Nat
      /\ watchdog > 0 => /\ LeastBeat + (2 * LateBy) < watchdog
                         /\ (watchdog \div 3) + (2 * LateBy) < watchdog
  BY <1>1, HeartbeatAssumption
<1> DEFINE third == watchdog \div 3
<1> HIDE DEF third
<1>4. /\ third \in Nat /\ Beat = Between(LeastBeat, third, MostBeat)
      /\ watchdog > 0 => third + (2 * LateBy) < watchdog
  BY <1>2, <1>3 DEF third, Beat
<1>5. QED
  BY <1>1, <1>3, <1>4 DEF Between

LEMMA HeartConstants ==
  /\ LeastBeat \in Nat /\ MostBeat \in Nat /\ StartTimeout \in Nat /\ LateBy \in Nat
  /\ StartTimeout > 0
  BY HeartbeatAssumption

LEMMA HeartInitInv == HeartInit => HeartInv
<1> SUFFICES ASSUME HeartInit
             PROVE  HeartInv
  OBVIOUS
<1>1. HeartTypeOK
  <2>1. 0 \in 0..StartTimeout /\ 0 \in 0..MostBeat /\ 0 \in 0..LateBy
    BY HeartConstants
  <2>2. QED
    BY <2>1 DEF HeartInit, HeartTypeOK, Starting
<1>2. QED
  BY <1>1, BeatBeforeBite, HeartConstants
     DEF HeartInit, HeartInv, HeartTypeOK, PingIsDue, JoinIsDue, WatchdogSpares, Starting, Ended

LEMMA HeartStepInv == HeartInv /\ [HeartNext]_heartVars => HeartInv'
<1> SUFFICES ASSUME HeartInv, [HeartNext]_heartVars
             PROVE  HeartInv'
  OBVIOUS
<1> USE DEF HeartInv
<1>1. /\ Beat \in Nat /\ 1 <= Beat /\ Beat <= MostBeat
      /\ watchdog > 0 => Beat + (2 * LateBy) < watchdog
      /\ watchdog \in Nat
  BY BeatBeforeBite DEF HeartTypeOK
<1>2. watchdog' = watchdog /\ Beat' = Beat
  BY DEF HeartNext, StepDone, MarkReady, StartIsCut, LoopPings, LoopEnds, Joined, BeatStep,
     WatchdogBites, HeartTime, heartVars, Beat
<1> HIDE DEF HeartInv
<1> DEFINE Goal == HeartTypeOK' /\ HeartInv'
<1>3. CASE StepDone
  <2>1. activity \in Starting /\ activity' \in Starting \cup {"exited"}
    BY <1>3 DEF StepDone, Moves, NextStep, Starting
  <2>2. QED
    BY <1>1, <1>2, <1>3, <2>1, HeartConstants
       DEF HeartInv, HeartTypeOK, PingIsDue, JoinIsDue, WatchdogSpares, Starting, Ended,
           StepDone, Moves
<1>4. CASE MarkReady
  BY <1>1, <1>2, <1>4, HeartConstants
     DEF HeartInv, HeartTypeOK, PingIsDue, JoinIsDue, WatchdogSpares, Starting, Ended,
         MarkReady, Moves
<1>5. CASE StartIsCut
  BY <1>1, <1>2, <1>5, HeartConstants
     DEF HeartInv, HeartTypeOK, PingIsDue, JoinIsDue, WatchdogSpares, Starting, Ended,
         StartIsCut, Moves
<1>6. CASE LoopPings
  BY <1>1, <1>2, <1>6, HeartConstants
     DEF HeartInv, HeartTypeOK, PingIsDue, JoinIsDue, WatchdogSpares, Starting, Ended,
         LoopPings, Moves
<1>7. CASE LoopEnds
  <2>1. /\ activity \in {"loop", "drain"} /\ activity' \in {"drain", "join"} /\ stepFor' = 0
        /\ dropped' \in BOOLEAN /\ (dropped' <=> dropped \/ activity' = "join")
        /\ UNCHANGED <<upFor, beat, nap, late, sincePing>>
    BY <1>7 DEF LoopEnds, Moves, HeartInv, HeartTypeOK
  <2>2. HeartTypeOK' /\ PingIsDue'
    BY <1>2, <2>1, HeartConstants DEF HeartInv, HeartTypeOK, PingIsDue, Starting, Ended
  <2>3. ~dropped /\ beat # "ended" /\ late \in Nat /\ LateBy \in Nat
    BY <2>1, HeartConstants DEF HeartInv, HeartTypeOK, Ended
  <2>4. JoinIsDue' /\ WatchdogSpares'
    BY <2>1, <2>3 DEF HeartInv, JoinIsDue, WatchdogSpares
  <2>5. QED
    BY <1>2, <2>1, <2>2, <2>3, <2>4 DEF HeartInv, Starting, Ended
<1>8. CASE Joined
  BY <1>1, <1>2, <1>8, HeartConstants
     DEF HeartInv, HeartTypeOK, PingIsDue, JoinIsDue, WatchdogSpares, Starting, Ended,
         Joined, Moves
<1>9. CASE BeatStep
  BY <1>1, <1>2, <1>9, HeartConstants
     DEF HeartInv, HeartTypeOK, PingIsDue, JoinIsDue, WatchdogSpares, Starting, Ended,
         BeatStep
<1>10. CASE WatchdogBites
  BY <1>1, <1>2, <1>10, HeartConstants
     DEF HeartInv, HeartTypeOK, PingIsDue, JoinIsDue, WatchdogSpares, Starting, Ended,
         WatchdogBites, Moves
<1>11. CASE HeartTime
  <2>1. HeartTypeOK'
    BY <1>1, <1>2, <1>11, HeartConstants
       DEF HeartInv, HeartTypeOK, JoinIsDue, Starting, Ended, HeartTime, NapLeft, Due
  <2>2. PingIsDue'
    BY <1>1, <1>2, <1>11, HeartConstants
       DEF HeartInv, HeartTypeOK, PingIsDue, Starting, Ended, HeartTime, NapLeft, Due
  <2>3. JoinIsDue'
    BY <1>1, <1>2, <1>11, HeartConstants
       DEF HeartInv, HeartTypeOK, JoinIsDue, Starting, Ended, HeartTime, NapLeft, Due
  <2>4. QED
    BY <1>1, <1>2, <1>11, <2>1, <2>2, <2>3, HeartConstants
       DEF HeartInv, HeartTypeOK, WatchdogSpares, Starting, Ended, HeartTime, NapLeft, Due
<1>12. CASE UNCHANGED heartVars
  BY <1>2, <1>12 DEF heartVars, HeartInv, HeartTypeOK, PingIsDue, JoinIsDue, WatchdogSpares
<1>13. QED
  BY <1>3, <1>4, <1>5, <1>6, <1>7, <1>8, <1>9, <1>10, <1>11, <1>12 DEF HeartNext

LEMMA HeartInvHolds == HeartInv => HeartTypeOK /\ WatchdogSpares /\ JoinIsPrompt
<1> SUFFICES ASSUME HeartInv
             PROVE  JoinIsPrompt
  BY DEF HeartInv
<1>1. /\ late \in 0..LateBy /\ LateBy \in Nat /\ nap \in Nat /\ stepFor \in Nat
      /\ beat \in {"none", "ping", "sleep", "ended"}
  BY HeartConstants DEF HeartInv, HeartTypeOK
<1>2. activity = "join" => stepFor <= 1 + (2 * LateBy)
  <2>1. CASE beat = "none" \/ beat = "ended"
    BY <1>1, <2>1 DEF HeartInv, JoinIsDue
  <2>2. CASE beat = "sleep"
    BY <1>1, <2>2 DEF HeartInv, JoinIsDue
  <2>3. CASE beat = "ping"
    BY <1>1, <2>3 DEF HeartInv, JoinIsDue
  <2>4. QED
    BY <1>1, <2>1, <2>2, <2>3
<1>3. QED
  BY <1>2 DEF JoinIsPrompt

\* WatchdogSpares: systemd's watchdog kills no process that has its heartbeat.
THEOREM HeartbeatSpares == HeartSpec => []WatchdogSpares
  BY HeartInitInv, HeartStepInv, HeartInvHolds, PTL DEF HeartSpec

-----------------------------------------------------------------------------
(* ServiceStart and BoundedProbe                                           *)

LEMMA AgedStartsAreFewer ==
  ASSUME NEW S, NEW m \in Nat, S \subseteq 0..m
  PROVE  /\ IsFiniteSet(S)
         /\ Cardinality({a + 1 : a \in S}) <= Cardinality(S)
         /\ \A k : Cardinality({a \in {b + 1 : b \in S} : a < k}) <= Cardinality(S)
<1>1. IsFiniteSet(S)
  <2>1. IsFiniteSet(0..m)
    <3>1. 0 \in Int /\ m \in Int
      OBVIOUS
    <3>2. QED
      BY <3>1, FS_Interval
  <2>2. QED
    BY <2>1, FS_Subset
<1> DEFINE T == {a + 1 : a \in S}
           f == [a \in S |-> a + 1]
<1>2. f \in Surjection(S, T)
  BY DEF Surjection
<1>3. IsFiniteSet(T) /\ Cardinality(T) <= Cardinality(S)
  BY <1>1, <1>2, FS_Surjection
<1>4. ASSUME NEW k
      PROVE  Cardinality({a \in T : a < k}) <= Cardinality(S)
  <2>1. Cardinality({a \in T : a < k}) <= Cardinality(T) /\ IsFiniteSet({a \in T : a < k})
    BY <1>3, FS_Subset
  <2>2. /\ Cardinality({a \in T : a < k}) \in Nat /\ Cardinality(T) \in Nat
        /\ Cardinality(S) \in Nat
    BY <2>1, <1>1, <1>3, FS_CardinalityType
  <2>3. QED
    BY <1>3, <2>1, <2>2
<1>5. QED
  BY <1>1, <1>3, <1>4

LEMMA ServiceInitInv == ServiceInit => ServiceTypeOK
<1>1. Cardinality({0}) = 1
  BY FS_Singleton
<1>2. {0} \subseteq 0..LimitInterval /\ 1 <= LimitBurst /\ 0 \in 0..WaitLimit
      /\ 0 \in 0..RestartRest /\ 0 \in 0..MaxCrashes
  BY ServiceAssumption
<1>3. QED
  BY <1>1, <1>2 DEF ServiceInit, ServiceTypeOK

LEMMA ServiceStepInv == ServiceTypeOK /\ [ServiceNext]_serviceVars => ServiceTypeOK'
<1> SUFFICES ASSUME ServiceTypeOK, [ServiceNext]_serviceVars
             PROVE  ServiceTypeOK'
  OBVIOUS
<1>n. /\ WaitLimit \in Nat /\ RestartRest \in Nat /\ LimitInterval \in Nat /\ LimitBurst \in Nat
      /\ LimitInterval > 0 /\ MaxCrashes \in Nat
      /\ 0 \in 0..WaitLimit /\ 0 \in 0..RestartRest
  BY ServiceAssumption
<1>t. starts \subseteq 0..LimitInterval /\ IsFiniteSet(starts) /\ Cardinality(starts) \in Nat
  <2>1. starts \subseteq 0..LimitInterval /\ IsFiniteSet(starts)
    BY <1>n, AgedStartsAreFewer DEF ServiceTypeOK
  <2>2. QED
    BY <2>1, FS_CardinalityType
<1>1. CASE CheckContainment \/ BackendFound \/ PolicyBlocks \/ NoBackend
  BY <1>1, <1>n
     DEF CheckContainment, BackendFound, PolicyBlocks, NoBackend, Exits, ServiceTypeOK
<1>2. CASE Restart
  <2>1. CASE Cardinality(starts) < LimitBurst
    <3>1. /\ unit' = "starting" /\ phase' = "contain" /\ starts' = starts \cup {0}
          /\ waited' = 0 /\ UNCHANGED <<host, answers, rested, crashes, paged>>
      BY <1>2, <2>1 DEF Restart
    <3>2. starts' \subseteq 0..LimitInterval
      BY <1>n, <1>t, <3>1
    <3>3. Cardinality(starts') <= Cardinality(starts) + 1 /\ Cardinality(starts') \in Nat
      <4>1. Cardinality(starts \cup {0}) =
              IF 0 \in starts THEN Cardinality(starts) ELSE Cardinality(starts) + 1
        BY <1>t, FS_AddElement
      <4>2. QED
        BY <1>t, <3>1, <4>1
    <3>4. Cardinality(starts') <= LimitBurst
      BY <1>n, <1>t, <2>1, <3>3
    <3>5. QED
      BY <1>n, <3>1, <3>2, <3>4 DEF ServiceTypeOK
  <2>2. CASE ~(Cardinality(starts) < LimitBurst)
    BY <1>2, <1>n, <2>2 DEF Restart, ServiceTypeOK
  <2>3. QED
    BY <2>1, <2>2
<1>3. CASE ServiceCrashes
  <2>1. crashes' \in 0..MaxCrashes
    BY <1>3, <1>n DEF ServiceCrashes, ServiceTypeOK
  <2>2. QED
    BY <1>3, <1>n, <2>1 DEF ServiceCrashes, Exits, ServiceTypeOK
<1>4. CASE AlertHook \/ DockerFlips
  BY <1>4 DEF AlertHook, DockerFlips, Pages, ServiceTypeOK
<1>5. CASE ServiceTime
  <2>1. waited' \in 0..WaitLimit
    BY <1>5, <1>n DEF ServiceTime, ServiceTypeOK
  <2>2. rested' \in 0..RestartRest
    BY <1>5, <1>n DEF ServiceTime, ServiceTypeOK
  <2>3. starts' = {a \in {b + 1 : b \in starts} : a < LimitInterval}
    BY <1>5 DEF ServiceTime, AgedStarts
  <2>4. starts' \subseteq 0..LimitInterval
    <3>1. \A b \in 0..LimitInterval : b + 1 < LimitInterval => b + 1 \in 0..LimitInterval
      BY <1>n
    <3>2. QED
      BY <1>t, <2>3, <3>1
  <2>5. Cardinality(starts') <= Cardinality(starts)
    BY <1>n, <1>t, <2>3, AgedStartsAreFewer
  <2>6. Cardinality(starts') \in Nat
    BY <1>n, <2>4, AgedStartsAreFewer, FS_CardinalityType
  <2>7. Cardinality(starts') <= LimitBurst
    BY <1>n, <1>t, <2>5, <2>6 DEF ServiceTypeOK
  <2>8. QED
    BY <1>5, <2>1, <2>2, <2>4, <2>7 DEF ServiceTime, ServiceTypeOK
<1>6. CASE UNCHANGED serviceVars
  BY <1>6 DEF serviceVars, ServiceTypeOK
<1>7. QED
  BY <1>1, <1>2, <1>3, <1>4, <1>5, <1>6 DEF ServiceNext, StartStep

\* What is spent of the probe's budgets is what has elapsed of the probe, and
\* capture waits for the death of a child that is dead, doomed or quiet.
ProbeClock ==
  /\ waiting = "exit" => form = "findmnt" /\ elapsed = spent
  /\ waiting = "output" /\ form = "findmnt" => elapsed <= ProbeLimit + spent
  /\ waiting = "output" /\ form = "capture" => elapsed = spent
  /\ waiting = "death" => form = "capture" /\ (signalled \/ early \/ ~Alive)
  /\ Alive /\ "child" \notin open => early
  /\ told \in {"fuse", "kernel"} => child = "succeeded" /\ answer = told

ProbeInv == ProbeTypeOK /\ ProbeClock

LEMMA ProbeInitInv == ProbeInit => ProbeInv
<1>1. 0 \in 0..Late /\ 0 \in 0..ProbeLimit /\ 0 <= ProbeLimit + 0
  BY ProbeLimitAssumption DEF Late
<1>2. ProbeInit => ProbeTypeOK
  BY <1>1 DEF ProbeInit, ProbeTypeOK, Tellings
<1>3. ProbeInit => ProbeClock
  BY <1>1 DEF ProbeInit, ProbeClock
<1>4. QED
  BY <1>2, <1>3 DEF ProbeInv

\* What ProbeReturns says of a step.
InTime ==
  /\ form = "findmnt" /\ elapsed' # elapsed => elapsed' <= 2 * ProbeLimit
  /\ form = "capture" /\ elapsed' # elapsed /\ elapsed >= ProbeLimit => stuck \/ early
  /\ told' \in {"fuse", "kernel"} => child = "succeeded" /\ answer = told'

LEMMA ProbeStepInv == ProbeInv /\ [ProbeNext]_probeVars =>
                        ProbeInv' /\ (InTime \/ UNCHANGED probeVars)
<1> SUFFICES ASSUME ProbeInv, [ProbeNext]_probeVars
             PROVE  ProbeInv' /\ (InTime \/ UNCHANGED probeVars)
  OBVIOUS
<1>n. Late \in Nat /\ ProbeLimit \in Nat /\ 0 \in 0..ProbeLimit
  BY ProbeLimitAssumption DEF Late
<1>t. elapsed \in 0..Late /\ spent \in 0..ProbeLimit
  BY DEF ProbeInv, ProbeTypeOK
<1>o. ASSUME InTime, ProbeTypeOK', ProbeClock'
      PROVE  ProbeInv' /\ (InTime \/ UNCHANGED probeVars)
  BY <1>o DEF ProbeInv
<1>1. ASSUME NEW how \in {"succeeded", "failed"}, ChildExits(how)
      PROVE  ProbeInv' /\ (InTime \/ UNCHANGED probeVars)
  <2>1. ProbeTypeOK'
    BY <1>1 DEF ProbeInv, ChildExits, ProbeTypeOK, Tellings
  <2>2. ProbeClock' /\ InTime
    BY <1>1 DEF ProbeInv, ChildExits, ProbeClock, Alive, InTime
  <2>3. QED
    BY <1>o, <2>1, <2>2
<1>2. ASSUME ChildForks \/ DescendantEnds \/ ChildCloses
      PROVE  ProbeInv' /\ (InTime \/ UNCHANGED probeVars)
  <2>1. ProbeTypeOK'
    <3>1. open' \subseteq {"child", "descendant"} /\ early' \in BOOLEAN
      BY <1>2 DEF ProbeInv, ProbeTypeOK, ChildForks, DescendantEnds, ChildCloses
    <3>2. UNCHANGED <<form, answer, child, stuck, signalled, waiting, elapsed, spent, told,
                      reaped>>
      BY <1>2 DEF ChildForks, DescendantEnds, ChildCloses
    <3>3. QED
      BY <3>1, <3>2 DEF ProbeInv, ProbeTypeOK
  <2>2. ProbeClock' /\ InTime
    BY <1>2 DEF ProbeInv, ChildForks, DescendantEnds, ChildCloses, ProbeClock, Alive, InTime
  <2>3. QED
    BY <1>o, <2>1, <2>2
<1>3. ASSUME ChildStuck \/ KillTakes \/ ThreadReaps
      PROVE  ProbeInv' /\ (InTime \/ UNCHANGED probeVars)
  <2>1. ProbeTypeOK'
    <3>1. open' \subseteq {"child", "descendant"} /\ child' \in {child, "killed"}
      BY <1>3 DEF ProbeInv, ProbeTypeOK, ChildStuck, KillTakes, ThreadReaps
    <3>2. stuck' \in BOOLEAN /\ reaped' \in BOOLEAN
      BY <1>3 DEF ProbeInv, ProbeTypeOK, ChildStuck, KillTakes, ThreadReaps
    <3>3. UNCHANGED <<form, answer, signalled, early, waiting, elapsed, spent, told>>
      BY <1>3 DEF ChildStuck, KillTakes, ThreadReaps
    <3>4. QED
      BY <3>1, <3>2, <3>3 DEF ProbeInv, ProbeTypeOK
  <2>2. ProbeClock' /\ InTime
    BY <1>3 DEF ProbeInv, ChildStuck, KillTakes, ThreadReaps, ProbeClock, Alive, InTime
  <2>3. QED
    BY <1>o, <2>1, <2>2
<1>4. ASSUME OutputComplete \/ WaitReturns
      PROVE  ProbeInv' /\ (InTime \/ UNCHANGED probeVars)
  <2>1. ProbeTypeOK'
    BY <1>n, <1>4
       DEF ProbeInv, OutputComplete, WaitReturns, Tell, WaitFor, Told, ProbeTypeOK, Tellings
  <2>2. InTime
    BY <1>4 DEF ProbeInv, OutputComplete, WaitReturns, Tell, WaitFor, Told, ProbeClock, InTime
  <2>3. ProbeClock'
    BY <1>4
       DEF ProbeInv, OutputComplete, WaitReturns, Tell, WaitFor, Told, ProbeClock, Alive,
           ProbeTypeOK
  <2>4. QED
    BY <1>o, <2>1, <2>2, <2>3
<1>5. ASSUME PollReturns \/ BudgetSpent
      PROVE  ProbeInv' /\ (InTime \/ UNCHANGED probeVars)
  <2>1. ProbeTypeOK'
    BY <1>n, <1>5
       DEF ProbeInv, PollReturns, BudgetSpent, AfterLate, Tell, WaitFor, ProbeTypeOK, Tellings
  <2>2. InTime
    BY <1>5 DEF ProbeInv, PollReturns, BudgetSpent, AfterLate, Tell, WaitFor, ProbeClock, InTime
  <2>3. ProbeClock'
    <3>1. CASE PollReturns
      <4>1. form = "findmnt" /\ elapsed = spent /\ elapsed <= ProbeLimit + 0
        BY <1>n, <1>t, <3>1 DEF ProbeInv, ProbeClock, PollReturns
      <4>2. QED
        BY <3>1, <4>1 DEF ProbeInv, PollReturns, Tell, WaitFor, ProbeClock, Alive
    <3>2. CASE BudgetSpent
      BY <3>2 DEF ProbeInv, BudgetSpent, AfterLate, Tell, WaitFor, ProbeClock, Alive, ProbeTypeOK
    <3>3. QED
      BY <1>5, <3>1, <3>2
  <2>4. QED
    BY <1>o, <2>1, <2>2, <2>3
<1>6. ASSUME ProbeElapse
      PROVE  ProbeInv' /\ (InTime \/ UNCHANGED probeVars)
  <2>1. /\ elapsed' = elapsed + 1 /\ elapsed < Late /\ Asking
        /\ waiting = "death" \/ spent < ProbeLimit
        /\ spent' = IF spent < ProbeLimit THEN spent + 1 ELSE spent
        /\ ~(signalled /\ Alive /\ ~stuck) /\ ~(waiting = "death" /\ ~Alive)
        /\ UNCHANGED <<form, answer, child, open, stuck, signalled, early, waiting, told,
                       reaped>>
    BY <1>6 DEF ProbeElapse
  <2>2. elapsed' \in 0..Late /\ spent' \in 0..ProbeLimit
    BY <1>n, <1>t, <2>1
  <2>3. ProbeTypeOK'
    BY <2>1, <2>2 DEF ProbeInv, ProbeTypeOK
  <2>4. waiting # "death" => spent' = spent + 1 /\ spent < ProbeLimit
    BY <2>1
  <2>5. ProbeClock'
    BY <1>t, <1>n, <2>1, <2>4 DEF ProbeInv, ProbeClock, Alive
  <2>6. form = "findmnt" => elapsed' <= 2 * ProbeLimit
    <3>1. form = "findmnt" => waiting \in {"exit", "output"}
      BY <2>1 DEF ProbeInv, ProbeClock, ProbeTypeOK, Asking
    <3>2. form = "findmnt" => elapsed <= ProbeLimit + spent /\ spent < ProbeLimit
      BY <1>n, <1>t, <2>4, <3>1 DEF ProbeInv, ProbeClock
    <3>3. QED
      BY <1>n, <1>t, <2>1, <3>2
  <2>7. form = "capture" /\ elapsed >= ProbeLimit => stuck \/ early
    <3>1. form = "capture" => waiting \in {"output", "death"}
      BY <2>1 DEF ProbeInv, ProbeClock, ProbeTypeOK, Asking
    <3>2. form = "capture" /\ waiting = "output" => elapsed < ProbeLimit
      BY <2>4 DEF ProbeInv, ProbeClock
    <3>3. waiting = "death" => stuck \/ early
      BY <2>1 DEF ProbeInv, ProbeClock
    <3>4. QED
      BY <1>n, <1>t, <3>1, <3>2, <3>3
  <2>8. InTime
    BY <2>1, <2>6, <2>7 DEF ProbeInv, ProbeClock, InTime
  <2>9. QED
    BY <1>o, <2>3, <2>5, <2>8
<1>7. CASE UNCHANGED probeVars
  BY <1>7 DEF probeVars, ProbeInv, ProbeTypeOK, ProbeClock, Alive
<1>8. QED
  BY <1>1, <1>2, <1>3, <1>4, <1>5, <1>6, <1>7 DEF ProbeNext, Callers

\* ProbeReturns: a probe of a file system returns within its two budgets, one
\* of Docker or uname unless its child is stuck or quiet, and neither tells
\* what no child wrote and then ended well on.
THEOREM ProbesReturn == ProbeSpec => ProbeReturns
<1>1. ProbeInv /\ [ProbeNext]_probeVars => [InTime]_probeVars
  BY ProbeStepInv
<1>2. QED
  BY <1>1, ProbeInitInv, ProbeStepInv, PTL DEF ProbeSpec, ProbeReturns, InTime
=============================================================================
