-------------------------- MODULE LimaConvergence --------------------------
(***************************************************************************)
(* ezgha lima-converge (lima_convergence.rs and main.rs): a probe of the   *)
(* canonical and the legacy Lima VM, the socket the Docker context uses,   *)
(* the migration the two imply, and the marker that lets the operator roll *)
(* it back.  The command never touches the context: the operator migrates  *)
(* and rolls back, as an environment here.                                 *)
(***************************************************************************)
EXTENDS Naturals

CONSTANTS Rounds  \* bound on the runs of the command

ASSUME LimaAssumption == Rounds \in Nat

(* "sys" is the default socket, "none" no socket at all. *)
Sockets == {"canonical", "legacy", "sys", "none"}

VARIABLES
    vm,         \* of each VM: "absent", "stopped", "stale" socket, "alive"
    context,    \* the socket of the named Docker context; "none": not a Unix one
    dockerHost, \* DOCKER_HOST of the operator's shell
    cmd,        \* the step of the command
    probe,      \* DualLimaProbe
    selected,   \* CurrentSocketResolution
    marker,     \* the previous socket in the backup marker, "none" if unwritten
    report,     \* the last run implied a migration and wrote its marker
    before,     \* history: the socket the last migration left
    rounds      \* runs of the command so far

limaVars == <<vm, context, dockerHost, cmd, probe, selected, marker, report, before, rounds>>

VMs == {"canonical", "legacy"}

LimaTypeOK ==
    /\ vm \in [VMs -> {"absent", "stopped", "stale", "alive"}]
    /\ {context, dockerHost, marker, before, selected.socket} \subseteq Sockets
    /\ cmd \in {"idle", "probed", "resolved", "marking"}
    /\ probe \in [VMs -> {"absent", "stopped", "stale", "alive"}]
    /\ selected.verified \in BOOLEAN /\ report \in BOOLEAN /\ rounds \in 0..Rounds

----------------------------------------------------------------------------
(* The VMs are started and stopped at any time. *)
VmChanges ==
    /\ \E v \in VMs, new \in {"stopped", "stale", "alive"} :
          vm[v] # "absent" /\ vm[v] # new /\ vm' = [vm EXCEPT ![v] = new]
    /\ UNCHANGED <<context, dockerHost, cmd, probe, selected, marker, report, before, rounds>>

(* probe_dual_lima: directories, sockets and a connect to each. *)
ProbeSocket ==
    /\ cmd = "idle" /\ rounds < Rounds
    /\ probe' = vm /\ cmd' = "probed" /\ rounds' = rounds + 1 /\ report' = FALSE
    /\ UNCHANGED <<vm, context, dockerHost, selected, marker, before>>

HasSocket(p, v) == p[v] \in {"stale", "alive"}

(* resolve_current_socket: only the operator's word and the named context, *)
(* when docker can read it, are proof of what was in use.                  *)
Resolved(explicit, readable) ==
    IF explicit /\ context # "none" THEN [socket |-> context, verified |-> TRUE]
    ELSE IF readable /\ context # "none" THEN [socket |-> context, verified |-> TRUE]
    ELSE IF dockerHost # "none" THEN [socket |-> dockerHost, verified |-> FALSE]
    ELSE [socket |-> "sys", verified |-> FALSE]

Resolve ==
    /\ cmd = "probed"
    /\ \E explicit, readable \in BOOLEAN : selected' = Resolved(explicit, readable)
    /\ cmd' = "resolved"
    /\ UNCHANGED <<vm, context, dockerHost, probe, marker, report, before, rounds>>

(* migration_plan: there is somewhere to go, and the context is not there. *)
Implied ==
    /\ HasSocket(probe, "canonical") /\ vm["canonical"] = "alive"
    /\ selected.socket # "canonical"

(* Mutant: a guessed socket is recorded, too. *)
RecordableAlways == TRUE

(* require_backup_provenance *)
Recordable == selected.verified

(* The report; the marker only with --write-backup. *)
Finish(writeBackup) ==
    /\ cmd = "resolved"
    /\ cmd' = IF Implied /\ writeBackup /\ Recordable THEN "marking" ELSE "idle"
    /\ UNCHANGED <<vm, context, dockerHost, probe, selected, marker, report, before, rounds>>

(* write_backup_marker: the entry of this context, in a copy of the marker *)
(* that is renamed over it.  It may fail, or the command may be killed.    *)
WriteMarker ==
    /\ cmd = "marking" /\ cmd' = "idle"
    /\ marker' = selected.socket /\ report' = TRUE
    /\ UNCHANGED <<vm, context, dockerHost, probe, selected, before, rounds>>

MarkerUnwritten ==
    /\ cmd = "marking" /\ cmd' = "idle"
    /\ UNCHANGED <<vm, context, dockerHost, probe, selected, marker, report, before, rounds>>

(* The operator migrates after a run that wrote the marker, and may go     *)
(* back to what the marker says.                                           *)
Migrate ==
    /\ cmd = "idle" /\ report /\ context # "canonical"
    /\ before' = context /\ context' = "canonical"
    /\ UNCHANGED <<vm, dockerHost, cmd, probe, selected, marker, report, rounds>>

RollBack ==
    /\ cmd = "idle" /\ before # "none" /\ context = "canonical"
    /\ context' = marker /\ before' = "none" /\ report' = FALSE
    /\ UNCHANGED <<vm, dockerHost, cmd, probe, selected, marker, rounds>>

LimaInit ==
    /\ vm \in [VMs -> {"absent", "stopped", "stale", "alive"}]
    /\ context \in {"canonical", "legacy", "sys", "none"}
    /\ dockerHost \in {"none", "legacy", "sys"}
    /\ cmd = "idle" /\ probe = vm
    /\ selected = [socket |-> "none", verified |-> FALSE]
    /\ marker = "none" /\ report = FALSE /\ before = "none" /\ rounds = 0

LimaNext ==
    \/ VmChanges \/ Migrate \/ RollBack
    \/ ProbeSocket \/ Resolve \/ WriteMarker \/ MarkerUnwritten
    \/ \E w \in BOOLEAN : Finish(w)

LimaSpec == LimaInit /\ [][LimaNext]_limaVars

----------------------------------------------------------------------------
(* After a migration the marker names the socket the context had before,   *)
(* however often the command is run again, whatever it can still resolve.  *)
RollbackRestores == before # "none" => marker = before
=============================================================================
