--------------------------- MODULE Configuration ---------------------------
(***************************************************************************)
(* config.toml, from `ezgha init`, which sizes the limits of a runner to   *)
(* the Docker daemon and writes the file through a temporary one, to the   *)
(* commands that load it.  Several inits may run at once and be killed,    *)
(* and the operator edits the file.                                        *)
(* Memory is counted in units of 512 MB, and a CPU in twelfths, so that    *)
(* the shares of up to four runners are whole.                             *)
(***************************************************************************)
EXTENDS Naturals

CONSTANTS
    Setups,       \* processes that run `ezgha init`
    Loaders,      \* processes that run another command
    Requests,     \* the flags an init is given: scope, target, count
    HostSizes,    \* [memory, cpus] of the machine
    EngineSizes,  \* what the Docker daemon reports, Silent where it does not
    Typos,        \* [field, value] the operator may change the file to
    MaxTypos      \* bound on these changes

CpuUnit == 12
Silent == [memory |-> 0, cpus |-> 0]

(* The shapes of github.target: "owner", "owner/repo", "owner/repo/more".  *)
Slashes == [empty |-> 0, org |-> 0, repo |-> 1, nested |-> 2]

(* The settings that are numbers: another value there does not parse.      *)
NumberFields ==
    {"version", "vmTotal", "runnerFloor", "memory", "cpus", "pids", "minFreeDisk", "count",
     "slotFailures", "failureWindow", "slotCooldown", "openSlots", "fleetCooldown",
     "failureAlerts", "alertCooldown", "tailWarn", "queueInterval", "staleHours",
     "badSamples", "sloStart", "canaryInterval", "pollTimeout", "pollInterval",
     "sampleInterval"}

ASSUME ConfigurationAssumption ==
    /\ Requests \subseteq [scope : {"repo", "org"}, target : DOMAIN Slashes, count : Nat]
    /\ HostSizes \subseteq [memory : Nat, cpus : Nat]
    /\ EngineSizes \subseteq [memory : Nat, cpus : Nat]
    /\ MaxTypos \in Nat
    /\ \A t \in Typos : t.field \in NumberFields /\ t.value \in Nat

VARIABLES
    configFile,  \* what config.toml holds
    tempFile,    \* what config.toml.tmp holds
    written,     \* the file an init has open, under whichever name it goes now
    initStage,   \* where each init is
    made,        \* the configuration each init made
    typos,       \* changes of the operator so far
    holds,       \* what each command got from the file
    shared       \* history: two inits had the temporary file at once

configVars == <<configFile, tempFile, written, initStage, made, typos, holds, shared>>

NoFile == [state |-> "none"]
HalfWritten == [state |-> "torn"]
WholeFile(c) == [state |-> "whole", config |-> c]

ConfigurationTypeOK ==
    /\ {configFile.state, tempFile.state} \subseteq {"none", "torn", "whole"}
    /\ written \in [Setups -> {"nothing", "temp", "config", "lost"}]
    /\ initStage \in [Setups -> {"new", "made", "open", "full", "done", "refused"}]
    /\ typos \in 0..MaxTypos /\ shared \in BOOLEAN
    /\ \A l \in Loaders : holds[l].state \in {"none", "refused", "whole"}

-----------------------------------------------------------------------------
(* The sections of the file and their defaults.                            *)
LadderDefaults ==
    [slotFailures |-> 3, failureWindow |-> 600, slotCooldown |-> 900,
     openSlots |-> 3, fleetCooldown |-> 600]

AlertDefaults == [failureAlerts |-> 3, alertCooldown |-> 900]

QueueDefaults ==
    [tailWarn |-> 20, queueInterval |-> 300, staleHours |-> 8, badSamples |-> 2,
     watch |-> TRUE, watched |-> "none"]

CanaryDefaults ==
    [sloStart |-> 90, canaryInterval |-> 600, pollTimeout |-> 600, pollInterval |-> 15,
     canary |-> FALSE, canaryIn |-> "none"]

SamplerDefaults == [sampleInterval |-> 240]

RunnerDefaults == [version |-> 1, vmTotal |-> 0, runnerFloor |-> 6]

LimitDefaults == [pids |-> 512, minFreeDisk |-> 10]

AtMost(a, b)  == IF a < b THEN a ELSE b
AtLeast(a, b) == IF a < b THEN b ELSE a

(* The sections as one.                                                    *)
Joined(f, g) ==
    [x \in DOMAIN f \cup DOMAIN g |-> IF x \in DOMAIN f THEN f[x] ELSE g[x]]

SectionDefaults ==
    Joined(LadderDefaults, Joined(AlertDefaults, Joined(QueueDefaults, Joined(CanaryDefaults,
        Joined(SamplerDefaults, Joined(RunnerDefaults, LimitDefaults))))))

(* Config::defaults_for: half of the machine, within bounds.               *)
DefaultsFor(host, q) ==
    Joined([scope |-> q.scope, target |-> q.target, count |-> 1,
            memory |-> AtMost(AtLeast(host.memory \div 2, 4), 32),
            cpus |-> CpuUnit * AtLeast(host.cpus \div 2, 1)], SectionDefaults)

(* A runner's share of the Docker daemon, but what a runner must have.     *)
CpuShare(engine, n) == AtLeast((CpuUnit * engine.cpus) \div AtLeast(n, 1), CpuUnit \div 2)

MemoryShare(engine, n) == AtLeast(engine.memory \div AtLeast(n, 1), 1)

(* Commands::Init: the target is checked for a slash, the count only       *)
(* against the CPUs.                                                       *)
InitRefuses(q, engine) ==
    \/ q.scope = "repo" /\ Slashes[q.target] = 0
    \/ engine # Silent /\ q.count * CpuShare(engine, q.count) > CpuUnit * engine.cpus

Sized(c, engine) ==
    IF engine = Silent THEN c
    ELSE [c EXCEPT !.cpus = AtMost(@, CpuShare(engine, c.count)),
                   !.memory = AtMost(@, MemoryShare(engine, c.count)),
                   !.vmTotal = engine.memory]

Made(host, engine, q) == Sized([DefaultsFor(host, q) EXCEPT !.count = q.count], engine)

-----------------------------------------------------------------------------
(* Config::validate.                                                       *)
Least ==
    [memory |-> 1, runnerFloor |-> 1, cpus |-> CpuUnit \div 2, pids |-> 1,
     minFreeDisk |-> 1, count |-> 1]

LeastOfLadder ==
    [failureAlerts |-> 1, slotFailures |-> 1, failureWindow |-> 1, slotCooldown |-> 1,
     openSlots |-> 1, fleetCooldown |-> 1, alertCooldown |-> 1]

LeastOfWatchers ==
    [tailWarn |-> 1, queueInterval |-> 60, staleHours |-> 1, badSamples |-> 1,
     sloStart |-> 1, canaryInterval |-> 60, pollTimeout |-> 1, pollInterval |-> 1,
     sampleInterval |-> 1]

Most == [staleHours |-> 8, sampleInterval |-> 300]

Meets(c, least) == \A f \in DOMAIN least : c[f] >= least[f]

TargetValid(c) == c.target # "empty" /\ (c.scope = "repo" => Slashes[c.target] = 1)

(* require_scoped_repo: an organisation has no one repository to watch.    *)
RepoKnown(c, enabled, repo) ==
    IF repo = "none" THEN enabled => c.scope = "repo" ELSE Slashes[repo] = 1

ConfigValid(c) ==
    /\ c.version = 1
    /\ Meets(c, Least) /\ Meets(c, LeastOfLadder) /\ Meets(c, LeastOfWatchers)
    /\ \A f \in DOMAIN Most : c[f] <= Most[f]
    /\ TargetValid(c)
    /\ RepoKnown(c, c.watch, c.watched) /\ RepoKnown(c, c.canary, c.canaryIn)
    /\ c.pollInterval <= c.pollTimeout

-----------------------------------------------------------------------------
(* `ezgha init`.                                                           *)
MakeConfig(p) ==
    /\ initStage[p] = "new"
    /\ \E q \in Requests, host \in HostSizes, engine \in EngineSizes :
          IF InitRefuses(q, engine)
          THEN initStage' = [initStage EXCEPT ![p] = "refused"] /\ UNCHANGED made
          ELSE /\ initStage' = [initStage EXCEPT ![p] = "made"]
               /\ made' = [made EXCEPT ![p] = [flags |-> q, engine |-> engine,
                                               config |-> Made(host, engine, q)]]
    /\ UNCHANGED <<configFile, tempFile, written, typos, holds, shared>>

(* Config::save: fs::write empties the temporary file, whose name is the   *)
(* same for all, and then fills it, wherever it has been renamed to.       *)
OpenInPlace(p) ==                                          \* mutant of OpenTemp
    /\ configFile' = HalfWritten /\ written' = [written EXCEPT ![p] = "config"]
    /\ UNCHANGED tempFile
OpenTemp(p) ==
    /\ tempFile' = HalfWritten /\ written' = [written EXCEPT ![p] = "temp"]
    /\ UNCHANGED configFile

StartSave(p) ==
    /\ initStage[p] = "made" /\ OpenTemp(p)
    /\ initStage' = [initStage EXCEPT ![p] = "open"]
    /\ shared' = (shared \/ \E q \in Setups : initStage[q] \in {"open", "full"})
    /\ UNCHANGED <<made, typos, holds>>

(* A write over another init's leaves the rest of a longer one.            *)
Overwritten(p, old) ==
    {WholeFile(made[p].config)} \cup (IF old.state = "whole" THEN {HalfWritten} ELSE {})

FillFile(p) ==
    /\ initStage[p] = "open"
    /\ IF written[p] = "temp"
       THEN tempFile' \in Overwritten(p, tempFile) ELSE UNCHANGED tempFile
    /\ IF written[p] = "config"
       THEN configFile' \in Overwritten(p, configFile) ELSE UNCHANGED configFile
    /\ initStage' = [initStage EXCEPT ![p] = "full"]
    /\ UNCHANGED <<written, made, typos, holds, shared>>

RenameOver(p) ==
    /\ initStage[p] = "full"
    /\ IF tempFile = NoFile
       THEN /\ initStage' = [initStage EXCEPT ![p] = "refused"]
            /\ UNCHANGED <<configFile, tempFile, written>>
       ELSE /\ configFile' = tempFile /\ tempFile' = NoFile
            /\ written' = [q \in Setups |-> CASE written[q] = "temp"   -> "config"
                                              [] written[q] = "config" -> "lost"
                                              [] OTHER                 -> written[q]]
            /\ initStage' = [initStage EXCEPT ![p] = "done"]
    /\ UNCHANGED <<made, typos, holds, shared>>

InitKilled(p) ==
    /\ initStage[p] \in {"made", "open", "full"}
    /\ initStage' = [initStage EXCEPT ![p] = "refused"]
    /\ UNCHANGED <<configFile, tempFile, written, made, typos, holds, shared>>

-----------------------------------------------------------------------------
Edit ==
    /\ typos < MaxTypos /\ configFile.state = "whole"
    /\ \E t \in Typos :
          /\ t.value # configFile.config[t.field]
          /\ configFile' = WholeFile([configFile.config EXCEPT ![t.field] = t.value])
    /\ typos' = typos + 1
    /\ UNCHANGED <<tempFile, written, initStage, made, holds, shared>>

(* Config::load, in every command but init.                                *)
Accepted(file) == file.state = "whole" /\ ConfigValid(file.config)

LoadConfig(l) ==
    /\ holds[l] = NoFile
    /\ holds' = [holds EXCEPT ![l] =
                   IF Accepted(configFile) THEN configFile ELSE [state |-> "refused"]]
    /\ UNCHANGED <<configFile, tempFile, written, initStage, made, typos, shared>>

ConfigurationInit ==
    /\ configFile = NoFile /\ tempFile = NoFile
    /\ written = [p \in Setups |-> "nothing"] /\ initStage = [p \in Setups |-> "new"]
    /\ made = [p \in Setups |-> NoFile]
    /\ typos = 0 /\ holds = [l \in Loaders |-> NoFile] /\ shared = FALSE

SetupStep(p) ==
    MakeConfig(p) \/ StartSave(p) \/ FillFile(p) \/ RenameOver(p) \/ InitKilled(p)

ConfigurationNext ==
    \/ \E p \in Setups : SetupStep(p)
    \/ Edit
    \/ \E l \in Loaders : LoadConfig(l)

ConfigurationSpec == ConfigurationInit /\ [][ConfigurationNext]_configVars

-----------------------------------------------------------------------------
(* Whatever an init was told of the machine and of the Docker daemon, the  *)
(* starter config it makes for a repository and one runner at least is one *)
(* that the other commands load, and its runners together take no more     *)
(* CPUs than the daemon has.                                               *)
Sensible(q) == q.scope = "repo" /\ Slashes[q.target] = 1 /\ q.count >= 1

StarterFits ==
    \A p \in Setups : made[p] # NoFile /\ Sensible(made[p].flags) =>
        /\ ConfigValid(made[p].config)
        /\ made[p].engine # Silent =>
             made[p].config.count * made[p].config.cpus <= CpuUnit * made[p].engine.cpus

(* No kill of an init leaves half a config: only inits that were at it at  *)
(* once can, since they share the temporary file.                          *)
ConfigNotTorn ==
    [][configFile.state # "torn" /\ configFile'.state = "torn" => shared]_configVars

(* Whatever was done to the file, the command that runs on it has a limit  *)
(* for each resource of a runner (0 is none to Docker), and what the       *)
(* ladder, the alerts and the watchers assume of their settings holds.     *)
RunsBounded ==
    \A l \in Loaders : holds[l].state = "whole" =>
        LET c == holds[l].config
        IN  /\ 0 \notin {c.memory, c.cpus, c.pids, c.count}
            /\ \A f \in DOMAIN LadderDefaults \cup DOMAIN AlertDefaults : c[f] > 0
            /\ c.pollInterval \in 1..c.pollTimeout /\ c.staleHours \in 1..8
=============================================================================
