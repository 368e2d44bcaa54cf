--------------------------- MODULE ServiceInstall ---------------------------
(***************************************************************************)
(* `ezgha install-service` (src/service.rs), which writes the files of the *)
(* user's supervisor and has it start the daemon: two units for systemd, a *)
(* wrapper script and a plist for launchd.  It may be killed or fail at    *)
(* each step, it is run again when the settings it bakes into the files    *)
(* change, and the user logs in again at any time.                         *)
(***************************************************************************)
EXTENDS Naturals

CONSTANTS MaxInstalls  \* bound on the times the command is run

ASSUME InstallAssumption == MaxInstalls \in Nat \ {0}

VARIABLES
    supervisor,  \* "systemd" or "launchd"
    mainFile,    \* ezgha.service, or the plist: what it was written for
    sideFile,    \* ezgha-alert@.service, or the wrapper script
    agentRead,   \* what the supervisor has read of both
    enabled,     \* the service starts at login
    service,     \* what the daemon it runs was started from, 0 for no daemon
    installs,    \* the installs begun; the last one is the one that runs
    progress     \* the step it is at, or how it ended

installVars == <<supervisor, mainFile, sideFile, agentRead, enabled, service, installs,
                 progress>>

(* A file names the install it is of; it is empty while it is written.     *)
Missing == 0
Torn == MaxInstalls + 1
Contents == 0..Torn

Steps == {"main", "main.fill", "side", "side.fill", "unload", "load", "enable"}

InstallTypeOK ==
    /\ supervisor \in {"systemd", "launchd"} /\ enabled \in BOOLEAN
    /\ {mainFile, sideFile} \subseteq Contents
    /\ agentRead \in [main : Contents, side : Contents] /\ service \in 0..MaxInstalls
    /\ installs \in 0..MaxInstalls /\ progress \in Steps \cup {"ended", "done"}

Runnable(contents) == contents \in 1..MaxInstalls

(* What the supervisor finds on disk, and the daemon it makes of it: the   *)
(* plist starts the wrapper, the alert unit is for failures.               *)
OnDisk == [main |-> mainFile, side |-> sideFile]

Startable(read) ==
    Runnable(read.main) /\ (supervisor = "launchd" => Runnable(read.side))

DaemonOf(read) == IF Startable(read) THEN read.main ELSE 0

-----------------------------------------------------------------------------
(* Commands::InstallService, install_systemd and install_launchd.  The     *)
(* config is read first, and an install it refuses does nothing.           *)
FirstStep == IF supervisor = "systemd" THEN "main" ELSE "side"

(* The order of the steps: the unit before the alert unit, but the wrapper *)
(* before the plist, and the supervisor once both are written.             *)
After(s) ==
    CASE s = "main.fill" -> IF supervisor = "systemd" THEN "side" ELSE "unload"
      [] s = "side.fill" -> IF supervisor = "systemd" THEN "load" ELSE "main"
      [] s = "unload"    -> "load"
      [] s = "load"      -> IF supervisor = "systemd" THEN "enable" ELSE "done"
      [] s = "enable"    -> "done"

Install ==
    /\ progress \in {"ended", "done"} /\ installs < MaxInstalls
    /\ installs' = installs + 1 /\ progress' = FirstStep
    /\ UNCHANGED <<supervisor, mainFile, sideFile, agentRead, enabled, service>>

(* fs::write empties the file, then fills it.                              *)
WriteFile ==
    /\ \/ /\ progress = "main" /\ mainFile' = Torn /\ progress' = "main.fill"
          /\ UNCHANGED sideFile
       \/ /\ progress = "side" /\ sideFile' = Torn /\ progress' = "side.fill"
          /\ UNCHANGED mainFile
       \/ /\ progress = "main.fill" /\ mainFile' = installs /\ progress' = After(progress)
          /\ UNCHANGED sideFile
       \/ /\ progress = "side.fill" /\ sideFile' = installs /\ progress' = After(progress)
          /\ UNCHANGED mainFile
    /\ UNCHANGED <<supervisor, agentRead, enabled, service, installs>>

(* systemctl daemon-reload, which leaves the running daemon alone, and     *)
(* systemctl enable --now, which starts one only where there is none.      *)
Reload ==
    /\ progress = "load" /\ supervisor = "systemd"
    /\ agentRead' = OnDisk /\ progress' = After(progress)
    /\ UNCHANGED <<supervisor, mainFile, sideFile, enabled, service, installs>>

EnableNow ==
    /\ progress = "enable"
    /\ enabled' = TRUE /\ progress' = After(progress)
    /\ service' = IF service = 0 THEN DaemonOf(agentRead) ELSE service
    /\ UNCHANGED <<supervisor, mainFile, sideFile, agentRead, installs>>

(* launchctl unload -w, whose failure is ignored, and launchctl load -w,   *)
(* which a loaded agent fails.                                             *)
Unload ==
    /\ progress = "unload" /\ progress' = After(progress)
    /\ \/ enabled' = FALSE /\ service' = 0
       \/ UNCHANGED <<enabled, service>>
    /\ UNCHANGED <<supervisor, mainFile, sideFile, agentRead, installs>>

LoadAgent ==
    /\ progress = "load" /\ supervisor = "launchd" /\ ~enabled
    /\ agentRead' = OnDisk /\ enabled' = TRUE /\ service' = DaemonOf(OnDisk)
    /\ progress' = After(progress)
    /\ UNCHANGED <<supervisor, mainFile, sideFile, installs>>

(* A step fails, or the command is killed.                                 *)
InstallEnds ==
    /\ progress \in Steps /\ progress' = "ended"
    /\ UNCHANGED <<supervisor, mainFile, sideFile, agentRead, enabled, service, installs>>

-----------------------------------------------------------------------------
(* The supervisor: it starts a daemon that ended again, and reads its      *)
(* files anew at a login.                                                  *)
DaemonRestarts ==
    /\ service # 0
    /\ service' = DaemonOf(agentRead)
    /\ UNCHANGED <<supervisor, mainFile, sideFile, agentRead, enabled, installs, progress>>

Login ==
    /\ agentRead' = OnDisk
    /\ service' = IF enabled THEN DaemonOf(OnDisk) ELSE 0
    /\ progress' = IF progress \in Steps THEN "ended" ELSE progress
    /\ UNCHANGED <<supervisor, mainFile, sideFile, enabled, installs>>

InstallInit ==
    /\ supervisor \in {"systemd", "launchd"}
    /\ mainFile = Missing /\ sideFile = Missing
    /\ agentRead = [main |-> Missing, side |-> Missing]
    /\ enabled = FALSE /\ service = 0 /\ installs = 0 /\ progress = "ended"

InstallStep ==
    Install \/ WriteFile \/ Reload \/ EnableNow \/ Unload \/ LoadAgent \/ InstallEnds

InstallNext == InstallStep \/ DaemonRestarts \/ Login

InstallSpec == InstallInit /\ [][InstallNext]_installVars

-----------------------------------------------------------------------------
(* An install that says it is done has left files of one and the same      *)
(* install, which the supervisor has read and starts at the next login;    *)
(* and wherever an earlier one was cut short, systemd never starts a       *)
(* daemon at login whose failures nobody hears of: the alert unit that     *)
(* OnFailure names has been written.                                       *)
InstallHolds ==
    /\ progress = "done" =>
          /\ mainFile = installs /\ sideFile = installs
          /\ agentRead = OnDisk /\ enabled /\ DaemonOf(agentRead) = installs
          /\ service \in (IF supervisor = "systemd" THEN 1..installs ELSE {installs})
    /\ supervisor = "systemd" /\ enabled => sideFile # Missing

(* The service of an earlier install goes on while systemd's files are     *)
(* replaced, whichever step fails; launchd's is only ended by the unload.  *)
InstallSparesDaemon ==
    [][InstallStep /\ service # 0 /\ service' # service
         => supervisor = "launchd" /\ progress \in {"unload", "load"}]_installVars
=============================================================================
