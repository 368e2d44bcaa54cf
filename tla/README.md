# A verification project for ez-gh-actions

`ezgha` keeps a fixed number of ephemeral GitHub Actions runners alive on one
host. Each runner is a docker container that registers itself with a
just-in-time configuration, takes one job and goes away; a daemon notices the
gap and starts the next one. The daemon has no database and no locks shared with
GitHub or docker: it decides from snapshots taken with `gh api` and `docker ps`,
acts through further calls that may fail, time out or succeed without saying so,
and is itself restarted at any moment. This directory holds TLA+ models of the
parts where that is hard, TLC configurations that check them, and TLAPS proofs.

Source paths below are relative to the repository root (`src/docker_backend.rs`
is the daemon's largest file). `PROJECT.json` maps every definition to its lines.

## 1. Inventory

### 1.1 Components

| Component | State | Hard behaviour | What makes it correct | Modules |
|---|---|---|---|---|
| **Slot table, stale-slot reconciliation, quarantine, runner start, JIT registration** (`docker_backend.rs`, `quarantine.rs`, `github.rs`) | `slots.toml`, `quarantine.toml`; GitHub's registrations; containers | snapshots that are stale when used; crashes between the steps of a start; answers that are lost | no live runner loses its row, its registration or its container; every slot is refilled, every orphan goes | `RunnerWorld`, `RunnerPool` |
| **Listing of runners** (`github.rs`) | pages of a list that moves | a total that agrees by accident | a listing taken for complete misses no runner | `RunnerListing` |
| **Failure ladder** (`failure_ladder.rs`) | `failure_ladder.toml` | durability before admission; two kinds of circuit | starts are admitted by what is durable; no slot is given up for good | `FailureLadder` |
| **Reconciliation tick** (`ensure_count_outcome`) | process-wide gates, evidence of a refill | which early end tells what; loss between two counts | the loop hears of every loss and of no false one | `RunnerPool`, `AdmissionGates`, `RefillEvidence`, `Readiness` |
| **Budget and limits** (`admission_batch`, `effective_limits`, `config.rs`) | a flock; cached probes | several daemons; capacities that come and go | no more memory is promised than there is | `AdmissionBudget`, `HostLimits` |
| **Docker children** (`run_docker_with_timeout_at_deadline`, `DockerChildReaper`) | child processes, a queue, a thread | children that do not die; a thread that panics | no child is forgotten, and few are waited for at once | `DockerChildren` |
| **Zombie reaper** (`reaper.rs`) | – | a cancel, its poll and a delete, each late | deletes no runner whose job lives; frees the zombie | `Reaper` |
| **Serve loop** (`main.rs`) | settling episode, streaks, dead-man clock | a ceiling against polls against an immediate reconcile | episodes end; a stuck fleet pages; the loop never spins | `ServeLoop` |
| **Backend recovery, start, watchdog** (`main.rs`, `watchdog.rs`, `service.rs`) | attempts, cooldown, window; systemd's counters | three deadlines inside one another; `Restart=on-failure` and its limit | the start keeps to its limit, restarts are rationed, and a host whose Docker comes back is served | `BackendRecovery`, `ServiceStart`, `Heartbeat` |
| **Backend selection, containment** (`platform.rs`, `backend.rs`) | probes of a daemon that changes | a probe that fails must err on the side of isolation | no runner runs weaker than the policy or outside of the slice | `BackendChoice`, `BoundedProbe`, `Containment` |
| **State files** | three TOML files under `serve.lock` | kill, power loss, damage, overlapping processes | each is an atomic table; what was damaged is kept aside | `StateFile`, `AtomicTable` |
| **Shutdown** (`drain_inflight_registrations`, `stop_all`) | the slot file | a drain under systemd's deadline; `ezgha stop` | containers are spared, nothing is forgotten, siblings are left alone | `Shutdown` |
| **Queue monitor, canary** (`queue_monitor.rs`, `canary.rs`) | one worker each, samples | a queue that moves while it is read; late results; dates | single flight, pace, no false all-clear | `Monitors`, `Canary`, `PacedFlight`, `QueueHealth`, `JobAges` |
| **Alerts, dead-man switch** (`alert.rs`) | table of cooldowns, channels | check and record are two steps; every channel may fail | one delivery per cooldown; what lasts is heard | `AlertDelivery` |
| **GitHub transport, token** (`github.rs`) | back-off, stamp of the last kick | retries under the deadline of a caller; two threads and one stamp | calls end in time; rate limits are honoured; one kick per cooldown | `GhTransport`, `TokenRefresh` |
| **Commands** (`init`, `install-service`, `start`, `stop`, `lima-converge`, `doctor`'s preview) | `config.toml`, units, backup marker | overlapping and killed processes | no torn file is taken for whole; a migration can be rolled back | `Configuration`, `ServiceInstall`, `LimaConvergence`, `HostLimits` |
| **Telemetry** | peaks, rings of decisions | a container that is replaced by its namesake | what is reported was observed | `Telemetry` |
| **Doctor scripts, installers, image, dashboard** | – | – | – | none |

### 1.2 How they interact

systemd starts `ezgha serve`. The process checks containment, waits for a
backend (restarting the VM behind it if need be), checks the memory budget, says
READY=1 and enters the serve loop, while a thread pings the watchdog. The loop
calls the reconciliation tick, then polls the containers until the refill has
settled, and sleeps. Between ticks it offers the queue monitor and the canary a
dispatch; each works in a thread of its own and raises alerts through the same
table of cooldowns as the loop.

A tick passes the admission gates, runs a reconciliation pass, counts the
containers, runs a refill batch for the shortage, and runs a second pass. A pass
reads GitHub, the slot file, docker and the quarantine table, in this order, and
then writes rows, deletes registrations (through `reaper.rs` when GitHub answers
422) and rewrites the quarantine table. A batch takes the memory it may promise
under the flock, reads the ladder once, and for each start asks
`next_slot_excluding` for the lowest slot that is free, not failed in this batch,
not circuit-open and not quarantined. The container, once up, talks to GitHub on
its own. The slot file, the quarantine table and the ladder are the only state
of the pool that survives a restart; they are three files written independently.

### 1.3 What is hard here

The hazards are in `PROJECT.json`, each at its line. The main kinds:

* **stale snapshots**: every delete and release is decided from a list taken
  calls earlier, while runners connect, take jobs, finish and die;
* **crash between two steps** of a start, a save, an installation, whose steps
  are durable separately;
* **calls that happen and whose answer is lost**, or whose client is killed at
  its deadline while docker goes on;
* **deadlines inside deadlines**: a probe inside a restart inside a start inside
  systemd's limit; a retry inside a caller's budget;
* **probes that fail**, and what a failure is taken for;
* **liveness under partial failure**: a broken slot, an unlockable runner, a
  storm of failures, an alert channel that is down must not stop the rest for
  good.

## 2. Modules

Every component module has its variables, one action per external call or step
of the code, a type invariant, its properties and its specification with
fairness; it names its bounds as CONSTANTS with an ASSUME. Three MC modules put
components side by side (a variable `part` says which one moves), so that one
run of TLC explores each from all its initial states: `MCDaemon` (what the main
thread does), `MCWatchers` (what watches the fleet) and `MCServices` (what
serves the loop). The parts do not share variables, so a state of the union is a
state of one part, and nothing is lost or gained by checking them together.
Where components do interact in a way a property depends on, they are in one
module (`RunnerPool` over `RunnerWorld`, `Shutdown` over `RunnerWorld`), or one
refines the interface the other relies on (`PacedFlight`, `AtomicTable`).

| Module | Role |
|---|---|
| `RunnerWorld` | GitHub's registrations, docker's containers, the runner process in each: what the daemon's requests do to them and what they do on their own, failures included |
| `RunnerPool` (EXTENDS `RunnerWorld`) | the reconciliation tick: passes, refill batch, start, JIT self-heal, quarantine, the slot file |
| `MCRunnerPool`, `MCPoolWorlds` | TLC instances: symmetry of ids, the worlds by their failures |
| `RunnerPoolProofs` (EXTENDS `MCPoolWorlds`) | type correctness; the inductive invariant `IInv` and the safety theorems |
| `FailureLadder`, `MCFailureLadder`, `FailureLadderProofs` | the durable ledger of start failures and the batch that obeys it; instances; theorems |
| `ServeLoop`, `BackendRecovery`, `ServiceStart`, `BackendChoice`, `BoundedProbe`, `StateFile` (implements `AtomicTable`), `RunnerListing`, `Containment`, `Heartbeat` | the parts of `MCDaemon` |
| `Monitors` and `Canary` (implement `PacedFlight`), `QueueHealth`, `JobAges`, `AlertDelivery` | the parts of `MCWatchers` |
| `GhTransport`, `TokenRefresh`, `Reaper`, `DockerChildren`, `Readiness`, `RefillEvidence`, `AdmissionGates`, `AdmissionBudget`, `HostLimits`, `Shutdown`, `LimaConvergence`, `Configuration`, `ServiceInstall`, `Telemetry` | the parts of `MCServices` |
| `HostProofs` | theorems about `BackendChoice`, `Containment`, `BackendRecovery`, `Heartbeat`, `ServiceStart`, `BoundedProbe` |
| `DaemonProofs` (EXTENDS `MCDaemon`, `HostProofs`) | theorems about `ServeLoop`, `StateFile`, `RunnerListing`, and about `MCDaemon` |
| `WatcherProofs` (EXTENDS `MCWatchers`) | theorems about its parts, and about `MCWatchers` |
| `CommandProofs` | theorems about `Configuration`, `Telemetry`, `ServiceInstall`, `RefillEvidence`, `LimaConvergence`, `Reaper`; sums over finite sets |
| `ServiceProofs` (EXTENDS `MCServices`, `CommandProofs`) | theorems about the other parts of `MCServices`, and about `MCServices` |

### 2.1 `RunnerWorld` and `RunnerPool`

**Representation.** A runner's name is `prefix-N` for slot `N`, so a name *is* its
slot. A registration is an element of `Ids` with `named[i]` (its name, or
`None`), membership in `online` and in `busy`. Docker has at most one container
of a name, so `container[s]` is the runner id inside the container of slot `s`,
and `phase[s]` is what `docker top` would see: nothing recognisable yet
(`boot`), `Runner.Listener`, `Runner.Worker`. The slot file is `asg` (the id,
`Reserved` for the empty id that `next_slot_excluding` writes, `None` for no
row) and `witnessed` (rows with `container_started_at`). Time enters in exactly
one way, the 60 s `REGISTRATION_GRACE_WINDOW`: `fresh` is the set of slots whose
last `registered_at` is inside it, and `GraceExpires` takes a slot out at any
moment. The quarantine table is `quar`, with `quarOk` false when the file does
not parse, and `qmem` is the copy a pass works on. `snap` holds a pass's
snapshots.

**Atomicity.** The daemon is one thread. One action is the code around one
external call, and the world moves between any two actions, so every snapshot
can be stale by the time it is used. Three stretches of code are one action
although they make several calls: cancel, poll and delete of one zombie
(`reclaim_zombie_locked_runner`), with all its outcomes; Path 4's `docker top`
of each candidate; and the 409 of `generate_jitconfig` with the listing that
follows it.

**Correspondence.** `pc` names the place in the code:

| `pc` | Code | Actions |
|---|---|---|
| `list`, `ps` | the snapshots of `release_stale_slots` | `ListRunners`, `ListFails`, `ListContainers` |
| `path1` | rows whose runner is gone, dead or never recorded, one at a time in slot order, with the `docker top` probe | `Path1`, `Path1WriteFails` |
| `path2`, `recover`, `saveq` | zombies without container; recovery of quarantined slots; save of the table | `LoadQuarantine`, `Path2`, `Path2WriteFails`, `BeginRecovery`, `Recover`, `RecoverWriteFails`, `SaveQuarantine` |
| `path4`, `path4del`, `path3` | reaping of dead and of unowned registrations | `Path4Plan`, `Path4Delete`, `Path3Plan`, `Path3Delete`, `EndPass` |
| `count` | the recount and the gates of `ensure_count_outcome` | `EndTick`, `BeginBatch` |
| `reserve` … `cleanup` | one start, step by step | `ReserveSlot`, `LimitsRefused`, `PreRm`, `JitSucceeds`, `JitConflict`, `HealConflict`, `JitFails`, `RecordRunnerId`, `AbandonStart`, `DockerRun`, `RecordContainerStarted`, `AncestryFails`, `CleanUpStart`, `EndBatch` |

The order of the paths in the code is 1, 2 (with recovery and the save), 4, 3,
and so it is in the model. `Path2WriteFails` and `RecoverWriteFails` are the `?`
that leaves a pass after a registration was deleted and before the quarantine
table is saved. `AbandonStart` and `LimitsRefused` are the early returns that
clean nothing up. `JitFails` is the preflight error that ends the whole batch.

**Failures.** `Faults` is a set of kinds (`FaultKinds` in `RunnerWorld` says what
each is); an instance of the model produces those and no others. A crash may
fall between any two actions and loses everything but the three files and the
clock.

**Ids.** GitHub never reuses an id; the model takes any id that nothing refers to
any more. `Unused` is the guard, and `JitFails` when no id is left is an
instance bound, which only adds a failure of the call.

### 2.2 `FailureLadder`

The ledger of `failure_ladder.rs` keeps absolute deadlines and time stamps; the
model keeps what a comparison with *now* can see: `strikes[s]`, the ages of the
failures of slot `s` still inside the window, `openFor[s]`, what remains of its
circuit, and `fleetFor`, what remains of the fleet circuit. `Aged` lets time
pass: `Sleep` by one of `Gaps`, a start by one of `StartTimes`. A batch tries a
slot at most once (a failure puts it into `failed_slots`, a success leaves a
row) and two batches are at least a tick apart, so two failures of one slot never
have the same age, and a set of ages loses nothing.

| Code | Model |
|---|---|
| `FailureLadder::record_failure`, `record_success`, `excluded_slots`, `fleet_admission_is_paused` | `RecordFailure`, `RecordSuccess`, `OpenSlots`, `FleetPaused` (`Opens` and `FleetOpens` are their conditions) |
| load, saving before the first start, the latch `FAILURE_LADDER_PERSISTENCE_FAILED` | `SkipBatch`, `PreflightSaveFails`, `BeginBatch`, `latch` |
| the batch loop | `ReserveSlot`, `StartSucceeds`, `StartFails`, `StartRefused`, `Save`, `SaveFails`, `EndBatch` |
| the rest of the tick | `Sleep`, `ReleaseRow`, `Finish` |

`ledger` is the batch's copy, `disk` the file. A save that fails may have failed
before or after its rename, so `disk` may or may not be the new ledger. The
start itself, a step here, is what `RunnerPool` models in detail.

### 2.3 The main thread: `MCDaemon`

| Module | State and what it stands for | One action is | Time |
|---|---|---|---|
| `ServeLoop` | `containers`, `executing`: the fleet as two counters; the settling episode (`SettlingState`), the pending decision, streaks, the dead-man clock, the shutdown flag | a reconciliation, a settling poll, a sleep | 5 s, the settling poll |
| `BackendRecovery` | what docker is (`up`, `down`, `weak`, `wedged`), attempts, cooldown and window of `BackendRecoveryState`, what is left of the caller's deadline, and whether the host's containment gate rests on Docker's answer | one external call, which takes the time it takes, or the gate in front of a reconciliation | ages that saturate |
| `ServiceStart` | the process from its start to READY=1, systemd's start counter and alert hook | a probe, a wait, a restart | `wait_for_backend`'s poll |
| `BackendChoice` | the daemons behind each endpoint, the tools of the host, what the probes have seen | one probe of `platform::detect` | – |
| `BoundedProbe` | a child, its pipe, its signal, the caller's deadline, in the two forms of `capture_with_timeout` and `findmnt` | one wait or its end | one poll |
| `StateFile` | a file, its temporary twin, what of both is durable, `serve.lock`, two processes | one system call | – |
| `RunnerListing` | the registered runners as GitHub orders them, the pages read, the total | one page | – |
| `Containment` | the slice, the user manager, where the container landed | one probe, one docker command | – |
| `Heartbeat` | the step the process is in and its age, the ping's thread, systemd's two clocks | a step, a slice of the thread's nap | 5 s |

`ServeLoop` leaves open what a reconciliation finds; `RefillEvidence` and
`AdmissionGates` are the functions whose results it may be, `BackendRecovery` the
restart after a failed one, and the gate that decides whether an outage fails it
at all: where containment rests on a daemon in a VM, an outage pauses admission.
`Heartbeat` takes the durations of the start's steps from the limits that
`BackendRecovery` (`StartsInTime`) shows are kept.

### 2.4 The watchers: `MCWatchers`

| Module | State and what it stands for | One action is |
|---|---|---|
| `Monitors` | `QueueMonitorScheduler` with its worker thread, the REST budget floor and its skip counter, the two consumers with an interval each | a dispatch, a step of a worker, a collection |
| `Canary` | the thread, GitHub's run with its creation and its start, the runner that has it, the deadlines: waiting is bounded from the dispatch, a start is measured from the run's creation | a request, a comparison with the clock |
| `QueueHealth` | the queue of one repository, while it is read page by page and run by run | one request |
| `JobAges` | timestamps, as civil dates, against a clock that ticks from day to day | a day, a sample |
| `AlertDelivery` | the table of cooldowns and its lock, channels, two threads | the check, each channel, the record |

### 2.5 The services: `MCServices`

| Module | State and what it stands for | One action is |
|---|---|---|
| `GhTransport` | one request: its caller and form, attempts, delay, what is left | an attempt, a sleep |
| `TokenRefresh` | the token file, the process-wide stamp, the refresh job | load, compare-and-swap, kick |
| `Reaper` | runs, jobs and runners as GitHub has them; what the plan holds | one request |
| `DockerChildren` | children by what they are (running, killed, stuck), the queue and the hands of the reaper thread | a wait, a kill, a hand-over |
| `Readiness` | the containers, the batches of `docker top`, one deadline | a batch |
| `RefillEvidence` | rows, containers, three snapshots of the slot table, the outcome that is returned | one read or call |
| `AdmissionGates` | strikes, the window of pressure readings and its source, the episode of a pause | a tick through all gates |
| `AdmissionBudget` | the flock, the containers under the slice, each daemon's batch | lock, sum, one start, drop |
| `HostLimits` | the configuration, what the daemon reports, the cached controller probe, each runner's limit | a start of the service, a preview, one `docker run` |
| `Shutdown` | the world, the slot file, the drain's deadline against systemd's, `ezgha stop` | one request |
| `LimaConvergence` | two VMs, the context's socket, the backup marker | the command, the operator |
| `Configuration` | `config.toml` and its temporary file, two inits, a loader, an operator who edits | one system call |
| `ServiceInstall` | the unit files, what the supervisor has loaded, the process it runs | one file or command |
| `Telemetry` | the peaks and the rings | a poll, a decision |

### 2.6 The properties

A run may check a conjunction of properties under one name; the conjuncts are
defined in the component modules, each with the comment that states it.

| Property | What it says | Code it is about |
|---|---|---|
| `RowHoldsRunner` | a container with a live registration or a job is held by the row of its slot with its own id | Path 1's release decisions; the order of reserve, record, `docker run` |
| `PreRmSparesRunners` | the `docker rm -f` before a start meets no live runner and no job | the whole of allocation and release |
| `NoLiveRunnerDeregistered` | no step of the daemon deregisters a runner whose container lives on | Paths 2, 3, 4, recovery, self-heal, cleanup, against stale snapshots |
| `GraceShieldsNewRunners` | a pass neither releases nor deregisters what is inside its grace window | `retain_started_activity_after_grace_probe` and its callers |
| `QuarantineHoldsSlot` | a quarantined slot gets no other runner | allocation, the errors that skip the save |
| `OneSlotSafe` | `RowHoldsRunner` and `NoLiveRunnerDeregistered` under fifteen kinds of failure | the same |
| `PoolHeals` | `SlotsRefilled`: an empty slot gets a container again, or a quarantine entry | the tick as a whole, after any crash |
| `PoolTidies` | `OrphansReaped`: a registration without container goes away, unless GitHub holds a job for it. `QuarantineLifted`: a quarantined runner that GitHub unlocks leaves the table | Paths 3 and 4, self-heal, cleanup; recovery |
| `NoUnrecordedStart` | a start is attempted only while everything before it is durable | the latch |
| `RetryBudgetLeft` | no slot has `Threshold` failures inside the window on disk | `record_failure`, across restarts |
| `StormPauses` | while enough circuits are open the fleet circuit covers the cooldown from the opening of each | the fleet threshold |
| `StartsAdmitted` | no start in a slot, or a fleet, whose durable circuit is open | the ledger read once per batch |
| `LadderServes` | `FleetServes`: slots that always fail do not keep the fleet from a healthy runner. `EverySlotTried`: no circuit is a permanent stop | lowest slot first, batches cut short; deadlines and windows |
| `DoubtNeedsCount` | readiness that is in doubt (a runner lost, a refill settling, a probe that failed) is only believed again after a poll that finds every runner ready | `PendingDecision` |
| `LoopProgress` | `EpisodesEnd`: no settling episode outlasts its ceiling. `LoopRests`: the loop never spins. `StuckFleetPages`, `SickDaemonSelfTests`: a fleet that stays short, a daemon that stays sick, are told | `SettlingState`, streaks, `DeadManState` |
| `StartBounded` | `StartsInTime`: a start ends within its budget. `WatchdogSpares`: the watchdog kills no process that has its heartbeat, however long a step or the drain takes. `JoinIsPrompt`: the end of the process does not wait out a nap | `wait_for_backend`, `watchdog.rs` |
| `ServiceComesUp` | `RestartsKeepComing`, `ServesOnceReachable`: the restarts of the backend, on the hosts that meet `require_host_containment` without Docker's answer (`PausedBackend` shows the others), and of the service, are not given up. `PauseLifts`: containment that holds again admits starts again. `ProbeReturns`, `ProbeReaped`: a probe returns within its budget, and a late child is waited for | rationing, the unit's start limit, `capture_with_timeout`, `findmnt` |
| `HostHolds` | `ChoiceSound`: a policy that asks for a VM is never served on the host, whatever daemons come and go between the probes, and if none does the choice is the strongest. `RunnersContained`: every runner reported as started is in the slice and fits it | `detect`, `select`, `require_host_containment` |
| `ListingExact` | a listing taken for complete misses no runner that stayed and has none twice, if runners only went meanwhile, or only came and it was read to its end; `ShiftedList` shows one of the other cases | `verify_snapshot_complete` |
| `StateSurvives` | `TableIsAtomic`: `StateFile` implements `AtomicTable`. `DamageIsKept`: a damaged ledger is never replaced, a damaged slot table only after it was put aside | save and load |
| `SilenceIsGood` | a canary without alert succeeded on a runner of this fleet that began within the objective of the run's creation | `should_alert` |
| `SamplesTruthful` | `NoFalseEmpty`, `NoHiddenWait`, `IdleCapacityTold`: a sample taken while the queue moves calls no waiting queue empty, capped or not; one that is not marked as capped hides no wait and tells of an idle runner beside a waiting job (`DroppedOldest` shows a capped one that hides the longest wait). `AgesTrue`: counts, median, percentile and tail are those of the days that passed | `fetch_queue`, `queue_stats`, `parse_rfc3339` |
| `BackgroundWorkPaced` | `FlightPaced`, `CanaryPaced`: both schedulers implement `PacedFlight`. `LowBudgetProbesAreRare`, `StreakSurvives`: a low budget is left alone, and streaks survive errors and panics | the schedulers, the floor |
| `DeliveriesHonest` | `OneDeliveryPerCooldown`: of each event. `LogMasksNothing`: the log alone starts no cooldown | `notify_delivery` |
| `AlertsHeard` | `LastingConditionsHeard`: what is raised again and again reaches the operator once a channel works. `SelfTestsRepeat`, `MonitorsResume`: neither the dead-man switch nor the monitors are left off for good | retry after channels fail |
| `GithubCallsPaced` | `AnswersInTime`: a call with a deadline answers by it. `SecondaryHonoured`: what the server says of a rate limit is waited for. `OneKickPerCooldown`: of all threads | the retry loop, the stamp |
| `DeleteAfterJobOver` | the reaper deletes no runner whose job is live | poll, delete, `plan_reaper_actions` |
| `EveryChildHeld` | a child that was not waited for is with exactly one that will | hand-over, panics |
| `FleetToldTruly` | `VerdictIsWhole`: a readiness count stands for the whole fleet. `ReleasedAreAllocatable`: a slot told as released is free. `LossesTold`: a runner lost during the call is told, or replaced. `StartTellsTruth`: `ezgha start` claims no more than runs | `local_executing_runner_count`, `ensure_count_outcome` |
| `MemoryFits` | `BudgetHeld`: daemons together keep to the slice. `FleetFits`: so do the limits of a fleet. `PreviewTrue`: the doctor and the start agree. `StarterFits`, `RunsBounded`: the file `init` writes fits Docker, and nothing runs unlimited | `admission_batch`, `effective_limits`, `preview_memory_budget`, `validate` |
| `RollbackRestores` | after a migration the marker names the socket the context had before, however often the command is run again | the backup marker |
| `GatesHold` | `HeadroomAlertTrue`: the ten-minute alert is true. `BlindRefillsBounded`: a docker disk nobody can measure admits fewer than `Strikes` refills between two measurements | the gates' statics |
| `StopLosesNothing` | `DrainSparesContainers`: runners with a container survive. `DrainForgetsNoRunner`: a row goes only with its registration. `DrainBounded`: slow deletes do not add up. `StopSparesSiblings`: `ezgha stop` asks only for runners of this host | drain and stop |
| `CommandsHold` | `ConfigNotTorn`: an init that dies leaves half a file only if two have been at it at once. `InstallSparesDaemon`, `InstallHolds`: what an interrupted installation leaves starts, and tells of its failures. `TelemetryTrue`: peaks and rings hold what was seen | `Config::save`, `install`, peaks |
| `ServicesProgress` | `RefreshKeepsComing`: a dead token is refreshed again and again. `ZombieFreed`: a zombie goes once GitHub lets it. `KilledAreReaped`: a stuck child blocks no other. `StarvationTold`: a fleet paused for ever is reported. `BlipDoesNotPin`: a failed probe is forgotten | each retry that must not be the last |

Type invariants are one per run: `TypeOK`, `DaemonTypeOK`, `WatchersTypeOK`,
`ServicesTypeOK`. That of `RunnerPool` also bounds the batch (`budget <= Count`);
that of `BackendRecovery` bounds the health wait, that of `GhTransport` the delay.

## 3. Runs

All bounds are CONSTANTS of the `.cfg` files; there is no state constraint.

| Run | Instance | Shows |
|---|---|---|
| `PoolSafe` | 2 slots, 3 ids, in two worlds: crashes, lost answers and `docker run` failures; and `docker ps`, probe, delete and `docker rm` failures with partitions | that every live container stays the holder of its slot, and no stale snapshot or restart harms a live runner |
| `PoolOneSlot` | 1 slot, 2 ids, in four worlds: fifteen kinds of failure together, a damaged and unwritable quarantine table included; crashes; crashes, lost answers and failing or late `docker run`; no failure of the daemon | no live runner is harmed in the first world, a quarantined slot stays quarantined in all, and the pool heals itself in the others |
| `Ladder` | 3 slots, in two parts: threshold 2 with every failure and restarts of any length; and slots 1 and 2 that always fail, one start per batch | the ladder admits by what is durable, and starves nobody |
| `Daemon` | the nine parts of section 2.3 | the main thread meets its deadlines, settles, and rests no decision on a failed probe |
| `Watchers` | the five parts of section 2.4 | what watches the fleet is paced, truthful and heard |
| `Services` | the fourteen parts of section 2.5 | each keeps its promise under the failures it handles |
| `GoneRunner`, `LateContainer`, `ShiftedList`, `BrokenSlot`, `PausedBackend`, `DroppedOldest` | see section 6 | six disagreements between the code and what it says of itself |

**Why the bounds are enough.**

*Pool.* Interference between slots needs two of them: the name of one slot, the
id of another. A slot can have three runners at once that matter: the one a
stale snapshot speaks of, the one in the row or the container, and the one a call
in flight is making; with `Unused` recycling an id only when nothing refers to
it, two ids serve one slot and three serve two. The failures are split over
worlds because all of them at once with two slots is beyond TLC; the theorems
of section 5 cover every combination (up to `SafeFaults`) and every number of
slots and ids.

*Ladder.* The gaps are a poll interval, a stop longer than the window and a stop
longer than everything, so each deadline is met running, just expired and long
expired; three slots and a fleet threshold of two let the fleet circuit open,
stay open, and be asked to open again.

*Times.* A duration is only ever compared, so each is a small number that keeps
the order of the real ones and at least one instant strictly between any two
that differ (for instance a restart command of up to 8, a health wait of 2, a
margin of 1 within a start of 8); ages saturate at the largest value they are
compared with, so no run is cut short.

*Actors.* Two threads or processes for each race over one stamp, file, lock or
key, since every such race in the code is between a holder and one other; three
children for a reaper with a cap of two, so that one waits in the queue; two
pages of a listing, since a runner is missed at one boundary; five runners, so
that a listing that is cut off can be made up for by one that comes twice; three
queued runs around a page and a cap on jobs.

*Failures* are bounded where they are free to recur (`MaxHarms`, `MaxFaults`,
`MaxFlips`, `MaxCrashes`, `MaxChurn`, `MaxTypos`, `Resizes`, `MaxLate`), at two or
at one where one already reaches every place of the code; elsewhere they recur
without bound.

**What each mutant shows.** Every property of a passing run has a mutant: a small
wrong version of one definition (marked `mutant` in the modules), such as a
release that ignores the running container, an id that is not recorded before
`docker run`, a ceiling that restarts with each episode, a lock that is always
free, or a back-off without its cap. With the mutant in place of the definition
TLC finds the property violated under the same `.cfg`.

Deadlock is checked in the pool's and the ladder's runs. `Daemon`, `Watchers` and
`Services`, and the counterexamples found in their parts, say
`CHECK_DEADLOCK FALSE`: these parts end (a request is answered, a command
exits, a choice is made), and a bounded number of failures is used up.

## 4. Fairness

`RunnerPool`. The daemon's thread keeps moving, since every external call has a
deadline (`WF(Daemon)`, one condition for the whole daemon: it is sequential, so
which action is taken is not fairness' business). A started runner connects,
its job ends, a runner without a registration exits, GitHub notices that a
runner has gone silent, and time passes (weak fairness each). Nothing obliges
GitHub to assign a job or a container to die. `FairSpec` does not oblige GitHub
to let go of a dead runner's job; `LockSpec` does, with GitHub's own job
timeout. Retries that fail are choices of the daemon's actions and weak
fairness does not exclude failing for ever, so the liveness worlds list only
failures that are healed however often they happen. Crashes are one of them: a
daemon that crashes for ever finishes no tick, so `SlotsRefilled` and
`OrphansReaped` are stated from the moment crashes cease (`CrashesCease`).

`FailureLadder`. `WF(Daemon)` again. `ReleaseRow(s)` is enabled only during a
tick, hence strong fairness: that a row without a container is released is what
`SlotsRefilled` shows of `RunnerPool`. No container has to finish. The starving
part has no crashes, and `FleetServes` and `EverySlotTried` allow `latch`: after a
failed save the daemon, by design, starts nothing until it is restarted.

*The parts.* Each component module states the fairness of its own threads: weak
fairness of the steps of a thread that never waits without a limit, and of
time. Nothing is assumed of Docker, GitHub or the operator but where a property
says so in its premise (`ServesOnceReachable` from a Docker that lasts,
`BlipDoesNotPin` from probes that succeed, `MonitorsResume` from fetches that do).
Three conditions are strong. `AlertDelivery`: a condition that lasts is raised
in every round of its thread, and the round is over in between, hence
`SF(Raise)`. `DockerChildren`: the reaper polls all its children in turn, and one
that has exited is found in the round it is polled in, though panics and other
children's ends come in between, hence `SF(SomeReaped)`; a child that is not
`Stuckable` exits once killed. `FailureLadder`, above.

The specifications of `MCDaemon`, `MCWatchers` and `MCServices` conjoin the
fairness of their parts; a part that is not selected is never enabled, and its
conditions hold trivially.

## 5. Proofs

`tlapm` checks every proof for all values of the constants.

**Type correctness** (`RunnerPoolProofs`, `TypeCorrect`). The invariant is `Typed`:
`TypeOK` with `Housing` (a slot has a container exactly when a phase) and
`Starting` (at the places of a start there is a current slot, and an id once one
was issued).

**Safety of the pool** (`RunnerPoolProofs`): `RowsHoldRunners`, `PreRmIsSafe`,
`QuarantineIsHeld`, `NoLiveRunnerIsDeregistered`, `GraceShields`, and
`OneSlotIsSafe`, which joins the first and the fourth. They all follow
from one inductive invariant, `IInv`, whose parts say why the design works:

* `RowHoldsRunner` itself; it is not inductive, since what a pass releases
  depends on its snapshots, and what a start records on where the start is;
* `NamesFit`, `OneHouse`, `FlagsFit`: an id belongs to one slot everywhere it
  appears; it is in one container; GitHub's flags are about registrations;
* `StartHoldsRow`: while a start runs, the row follows it, and its runner has no
  container before `docker run`;
* `SnapshotHolds`: how stale a snapshot can be. During a pass the daemon only
  releases rows, registrations only disappear and no container comes up (one
  thread: no start runs during a pass), so an absence in the docker snapshot
  stays true, and a registration that is still there is the one the snapshot
  has;
* `WorklistFits`: what each loop of the pass still has before it, in terms of
  that snapshot;
* `QuarantineFits`: a quarantined slot has no container and no other runner, in
  the table on disk and in the one in memory.

`IInvStep` has one step per action. The invariants and the two action
properties then follow.

**The hypothesis `SafeFaults`.** The theorems exclude three situations, and TLC
has a behaviour for each in which a live container ends up without a row:

* `docker run` killed at its deadline while docker goes on (`timeout`), the
  finding `LateContainer`;
* a failed ancestry check whose `docker rm -f` fails as well (`ancestry` with
  `rm`): the slot is freed under a running container;
* a registration GitHub forgot while its runner has a job, met by a pass for
  which `docker ps` fails (`drop` with `ps`): Path 1 then releases the row
  without having seen the container.

All other failures, in any combination, are covered. Nothing else is assumed but
the assumptions of the modules on their constants.

**The ladder** (`FailureLadderProofs`): `LadderTypeCorrect`, `StartsAreRecorded`,
`RetryBudgetIsLeft`, `StormsPause`, `StartsAreAdmitted`, with no hypothesis beyond
`PolicyAssumption` (what `FailureLadderPolicy::validate` enforces) and
`WorldAssumption`. The inductive invariant says that the durable ledger is sound
(`Storm` and `BudgetLeft`), and `BatchFits`: between two starts the batch's ledger *is*
the durable one, its open circuits were excluded or have been added to
`failed`, and the fleet circuit is closed. `Storm` is inductive because the
circuit that opens last is the one whose opening may open the fleet circuit, and
both age alike; that aging preserves it (`Left` saturates at zero) is a lemma of
its own.

**The union modules.** `MCDaemon`, `MCWatchers` and `MCServices` put parts side by
side that share no variable. For each, an invariant joins those of the parts
(`DaemonInv`, `WatchersInv`, `ServicesInv`), a lemma says that a step of the union
is a step or a stutter of each part (`EveryPart`, `EveryWatcher`), and every safety
property of the runs `Daemon`, `Watchers` and `Services` is a theorem about it:
invariants from the joined invariant, action properties from what a step does
under it. The properties below are those of the parts that took an argument.

*The main thread* (`HostProofs`, `DaemonProofs`):

* `ChoiceSound` is not inductive: that the backend chosen is the strongest needs
  what each probe saw to stand as long as nothing has changed since
  (`SeenStands`), and that a minimum of `vm` is honoured needs that a daemon once
  seen in a VM is the one that containers run on (`SeenInVm`).
* `RunnersContained` goes back to the admission of each start: a container that
  is where docker was told to put it was started under settings that conform
  (`ContainInv`).
* `StartBounded`. `BudgetHolds` gives for every step of the wait the least that is
  left of the start's budget: no probe, restart command or poll begins without
  what the rest of it needs, so the deadline is passed by four probes at the most.
  `PingIsDue` and `JoinIsDue` bound, by the place of the heartbeat's thread, how
  long systemd has not heard of the process and how long its end has waited.
  **Hypothesis:** the daemon of Docker does not accept a connection and then stay
  silent (`"wedged" \notin Outages`). `docker_reachable` runs `docker info` without
  a time limit, and with such a daemon the start waits for as long as it is
  silent, so no budget holds. The theorems on `StartBounded` and on `DaemonTypeOK`
  (which bounds the health wait) say so; the others of the union do without.
* `ListingExact` is about the whole listing but is decided by counting. While
  runners only go, no runner returns to a page that was not read (`NoneTwice`);
  while they only come, none is pushed to one that was (`NonePassed`); and there is
  a set of as many runners as the first page's total with those that stayed
  among them (`CountedRunners`). If then as many items were read as the total
  says, none is missing. The attempt to prove the property as it was first
  written failed, and TLC confirmed it with a fifth runner: a stream that is cut
  off while runners come can be made up for by one that appears on two pages.
  The property says so now.
* `DoubtNeedsCount`, and `EpisodesEnd` (in `NothingHangs`), from what an episode of
  local polls is at each place of the loop (`EpisodeHolds`). `ProbeReturns` (there
  too): what is spent of a probe's budgets is what has elapsed (`ProbeClock`).
* `StateSurvives`. Every step of `StateFile` is a step of `AtomicTable` or a stutter
  (`FileIsAtomicTable`), for any number of processes, rows, losses and damages,
  because of three facts: only the holder of `serve.lock` is at work (`Exclusive`);
  what it works on is the file as it still is, but for the one row it changed
  (`CopyIsFresh`), so its rename loses nobody's update; and of the ledger, all that
  a loss of power may bring back was written since the last version reported
  saved (`LedgerLasts`), which is where the two `fsync`s are needed.

*The watchers* (`WatcherProofs`):

* `BackgroundWorkPaced`: `Monitors` and `Canary` implement `PacedFlight`, step by step.
  That a low budget is left alone needs `BackoffPays`: the time since the last probe
  pays for the serve ticks already skipped.
* `DeliveriesHonest`: a thread that sends owns the key, and the key's cooldown is
  over from the claim to the record (`SendHolds`); a send takes a limit for each
  transport at most.
* `SilenceIsGood`: a verdict of completion is still what GitHub says of the run when
  the thread records it some steps later, since a run that is over does not
  change, and the next one starts only after the thread was collected
  (`VerdictStands`). In time means what `result_from_run_jobs` measures: the start
  against the creation of the run. How long GitHub took to create it counts only
  against the deadlines of the wait.
* `SamplesTruthful`. For the queue: unless the sample is marked as capped or
  partial, each waiting run is among those still to be asked for or those that
  were (`NothingLeftOut`), whatever arrives or departs between two pages. That is
  all the proof can say of waits and idle runners: a capped sample may leave out
  the oldest run (`DroppedOldest`), and is only proved not to call a waiting queue
  empty. For the ages:
  `DaysFromCivil`, with its eras and its years that begin in March, is a count of
  days: over every month, leap year and century the next date has the next
  number (`NextDayIsOneMore`), so the age of a job is the days that passed
  (`StampTrue`). The median and the percentile then follow from lemmas on order
  statistics (`KthCounts`, `SortedSays`): at least `k` values do not exceed the
  `k`-th, and all but `k - 1` are no less.

*The services* (`ServiceProofs`):

* `GithubCallsPaced`: at each place of the retry loop, time is left when an attempt
  begins, the nap covers what the server is owed, and it ends before the deadline
  (`TransportHolds`); a thread about to swap the stamp has seen it as it is, or
  before the one kick that was made since (`DueSees`).
* `EveryChildHeld`: a child is in the queue, in the hands of the worker, or is the
  one being moved, and in no two of them (`HeldOnce`).
* `FleetToldTruly`: each container that was listed is to be probed, is probed or
  was (`AllAccounted`), what a probe saw was so (`ProbesHonest`); every start that
  was attempted is in the batch's tallies, and the batch never takes the fleet
  beyond its count (`Tallied`, `RoomKept`), so a shortage of 0 is a full fleet.
* `MemoryFits`: `BudgetHeld` needs the sum of all grants under the slice after each
  grant and each late container; sums over a finite set of daemons are defined
  by their recursion on subsets, shown to exist and to change by one summand
  (`SumsExist`, `SumsChange`), and shown to be what `FoldSet` gives (`FoldIsSum`).
  `FleetFits` needs what the start checked to guard what it serves
  (`StartChecked`, `SharesKept`).
* `StopLosesNothing`: no two slots share a runner and no row names a sibling's
  (`OwnersApart`), and the listing of the drain has each container there still is
  (`ListingCovers`).
* `GatesHold`: no refill is admitted blindly that does not cost a strike
  (`StrikesCount`); a pause is no older than the time without an admission
  (`PauseTold`).

*The commands* (`CommandProofs`):

* `CommandsHold`. `ConfigNotTorn`: as long as no two inits were at the temporary
  file at once, it is what the one that has it open put there (`SavedAlone`). The
  property is stated by that history variable, `shared`: the first statement, by
  the places of two inits at the time of the rename, was refuted by TLC with a
  third init, when its proof did not go through. `InstallHolds`: which files are
  an install's own at each step of systemd's order and of launchd's.
  `TelemetryTrue`: a ring holds the last decisions in their order (`IsRingOf`).
* `DeleteAfterJobOver`: a job seen in progress may complete at any moment, but is
  never queued again (`SeenBegun`); so one that a poll finds "not in progress" is
  over for good, and no step of GitHub between that poll and the DELETE makes it
  run again.
* `RollbackRestores`: the proof that a socket is in use stays proof while the
  command runs (`ProvenIsCurrent`), so the marker names the context as it was
  before the migration, and never the socket that the migration leads to
  (`MarkerFits`).

**Assumptions.** Besides `SafeFaults` and the hypothesis on Docker, the proofs use
only the named assumptions on constants in the modules. They say what the code's
constants satisfy (a retry is no longer than a margin and a probe together, a
beat and twice the lateness of the scheduler fit the watchdog), that sets of
actors are finite, that an absent value is not one of the others, and that the
cap of a history counter is above what it is compared with. TLC evaluates them in
every run.

**Only model-checked.** Liveness is out of the proof system's reach and rests on
the runs: `PoolHeals`, `PoolTidies`, `LadderServes`, `LoopProgress`, `ServiceComesUp`,
`AlertsHeard`, `ServicesProgress` (of `LoopProgress` and `ServiceComesUp` the safety
parts are proved, `NothingHangs`). So do the six counterexamples. Every other
property of a passing run is a theorem.

## 6. Findings

### 6.1 With a run

| Run | What the code says | What it does |
|---|---|---|
| `GoneRunner` | `quarantine.rs`: the entry of a runner that disappears from the live list is cleared | recovery deletes the runner, gets a 404, and keeps the entry for good |
| `LateContainer` | stale containers are cleaned up, "existing jobs are not force-stopped" | a container created after the `docker run` deadline is not removed; the next start of the freed slot removes it with its job |
| `ShiftedList` | a listing that is not whole is refused | between two pages one runner leaves and one registers: the total agrees, a live runner is missing, and its container is recycled |
| `BrokenSlot` | a permanently broken slot consumes one attempt per batch | an unresolvable name conflict is a preflight error, which ends the batch; slots behind it are never tried |
| `PausedBackend` | `README.md`: the daemon can start an unreachable backend after a genuine reachability failure; admission pauses do not enter that path | where only the VM's daemon proves containment, the containment gate comes first and turns the failure into an admission pause: no restart, for as long as the daemon serves |
| `DroppedOldest` | `queue_monitor.rs`: the oldest queued job stays exact in a capped sample | each page lists the newest run first, and `truncate` cuts the oldest runs of the page that crosses the cap |

The lines are in `PROJECT.json`. `GoneRunner` needs no crash: GitHub deregisters
the runner when its job times out. A crash between the deletion of a recovered
runner and the save of the quarantine table ends in the same place (TLC finds
it when `QuarantineLifted` is asked with `crash`), which is why that part of
`PoolOneSlot` has no failures of the daemon.

### 6.2 Without a run

Met while the code was modelled, and modelled as it is; no run is spent on them.

Start and shutdown:

* `TimeoutStartSec=130` leaves `wait_for_backend` (120 s) ten seconds, but the
  containment, burst and memory probes that follow may take 8 s each: a backend
  found late can still have its start cut (`Heartbeat`: `StartIsCut` is reachable
  after the wait).
* A drain can outlast `TimeoutStopSec=30`: its deadline is looked at after a
  `docker ps` of up to 45 s (`DrainBounded` says what holds).
* The watchdog's pings come from a thread of their own, so a loop that hangs is
  never noticed. If that thread cannot be spawned, the pings of the loop alone
  are too rare for a long step.
* `docker_reachable`'s `docker info` has no limit of time.
* `preview_memory_budget` says what the next start would do, but leaves out
  `validate_host_envelope` and the burst check; `PreviewTrue` has both as
  exceptions.
* `systemctl enable --now` on a second install does not restart a running daemon;
  `launchctl unload -w` followed by a failed load leaves no service.
* `ezgha init --scope org` writes a configuration that `Config::load` refuses;
  `init` accepts a target with three parts and a count of 0; it refuses CPU
  over-commitment, not memory's; its share omits the guest's reserve.
  `start --count N` is not validated again and skips the memory budget.

Reconciliation and refill:

* A workspace that cannot be wiped is mounted dirty, and the missing CPU
  controller ends a start after its JIT with row and registration left behind
  (`AbandonStart`).
* Containers created late exceed the admission budget (`MaxLate` in `BudgetHeld`).
* Containers of slots above `runner.count` count as capacity, so a configured
  slot stays empty (`Strays` in `RefillEvidence`).
* A pass that meets a damaged quarantine table continues with an empty one and
  saves that over the file, although `quarantine.rs` says it is never
  auto-deleted. `PoolOneSlot` and the theorems cover it: no live runner is
  harmed. A damaged slot file whose rename fails is taken for empty, and
  overwritten.
* With one start per batch, enough broken slots below a healthy one, and a fleet
  cooldown comparable to the time their circuits take to reopen, the fleet
  circuit can be open whenever the low circuits are, and the healthy slot
  starves. `Ladder` uses a policy for which this does not happen.
* `github.rs:1094-1095` calls a same-host zombie "reclaimable in any status" since its
  id is in the slot file. A start begins with an empty reservation in a slot that
  has no row (`docker_backend.rs:1033-1057`), so the row that held the zombie's id
  was released before; ownership, read from the rows (3849-3853), is never found,
  and a zombie that still looks online is refused as a sibling's (`Reclaimable`).
* Incomplete readiness makes the loop reconcile without a sleep; `LoopRests` holds
  as long as probes answer.
* A sysbox probe that fails once degrades the daemon to plain docker for its
  life; a failed kernel probe under a minimum of `vm` blocks the start as a
  permanent misfit.
* With 20 runners the profile of limits and `actions.slice` do not fit one
  another (`RunnersContained` is about the limits that are configured).

Watchers:

* A failing history file keeps the canary's alert from being sent; a budget probe
  that fails is never counted as a hit; queued jobs of runs in progress are not
  counted; a page that fails midway ends the walk with what it has;
  pages that shift may count a job twice.
* `alert.rs:502-504` says of the self-test that it fires "if no configured channel
  has delivered ANY alert (production event OR a prior self-test)" within the
  threshold, and the self-test says the same of itself (596). `check` (586) looks at
  `last_successful` of `DeadManState`, which only a self-test and a healthy
  reconciliation reset. A delivery of any other alert moves the clock of
  `bump_deadman_clock` (490-493), which nothing reads: a self-test can claim that
  no alert was delivered just after one was. `AlertDelivery` and `ServeLoop` have
  the clock as it is, and `SelfTestsRepeat` holds with it.
* A blank `slack_channel` in the file hides the environment's.
* `docker stats` fails as a whole when one listed container is gone, and a peak is
  inherited by the next container of the name.
* `ezgha reclaim-history` is a process of its own, so the ring it prints is empty.

GitHub and files:

* The comment of the retry loop gives about 128 s for the longest call; that is
  its sleeps alone, to which every attempt adds its own timeout. `graphql_first` has
  no caller, and its deadline-bounded twin runs the plain loop.
* A stale `docker.sock` shadows a live `sock/docker.sock`; the backup marker is
  replaced, where its comment says it is appended to.
* Slot and quarantine files are renamed into place without a flush; the
  configuration's temporary file has one name for all processes, and so may be
  torn by a second `init`; unit files are written in place.
* Two daemons with one `name_prefix` and different state directories share
  container names and not the lock.

## 7. What could come next

* An abstract specification of the pool (a slot is empty, held or quarantined; a
  runner is issued once, runs in one slot and is let go once it is dead), with
  `RunnerPool` shown to implement it.
* A second host with the same prefix in `RunnerWorld`, for
  `runner_is_reclaimable`; today the reaper, the drain and `ezgha stop` meet
  siblings, and the pool does not.
* `ServeLoop` over `AdmissionGates` and `RefillEvidence` in one module, instead of
  over every result they may have.
* Proofs of the counts that liveness rests on (how long a pass, a back-off or a
  pause may last), as invariants with a bound.

## 8. Not modelled, and why

Inside the modelled components:

* Other hosts that register the same names, in `RunnerPool`: `RunnerWorld` issues
  all registrations itself.
* A container that comes up only after the cleanup of a timed-out start has run;
  the model lets it come up before the cleanup, which already suffices for
  `LateContainer`; `AdmissionBudget` has it.
* Clock steps: durations, not clocks, are modelled.
* Loss of the slot file, in `RunnerPool`. A file that cannot be read or written is
  an error, which is modelled (`write`). A file that is missing, empty or does not
  parse is taken for an empty table (`read_slot_assignments_for`), and nothing
  rebuilds its rows from the running containers, so no property of the slot
  table could survive it: that the file is there, and parses, is an assumption
  there, and `StateFile` says what keeps it true.
* CPU shares and quotas but for `cpu_burst`; names, labels, image and volume
  arguments; the wording of alerts, logs and units; the syntax of TOML, JSON and
  timestamps (dates are modelled, their parsing is not).
* The statistics of the canary's history, the queue monitor's report and the
  history file: they are read by people only.
* The order of slots when Path 1 walks ten or more of them (names sort as
  strings): passes treat rows independently.
* The refresh job of the token, the supervisor, docker and GitHub are outside of
  the source: they are modelled from how the code uses them, and marked external
  in the map.

Components: the doctor scripts, installers, the runner image and the dashboard
(shell, Python and static files with no state that the daemon reads); the
subcommands that print or call a modelled operation once.
