------------------------------ MODULE Lifecycle ------------------------------
(***************************************************************************)
(* The status vocabulary of OxideBatch and the lifecycle table every       *)
(* in-place status change of a job or step execution goes through.         *)
(* Source: crates/oxide-batch-core/src/domain/{execution,lifecycle}.rs.    *)
(***************************************************************************)

EXTENDS Naturals

BatchStatus ==
  {"STARTING", "STARTED", "STOPPING", "STOPPED",
   "FAILED", "COMPLETED", "ABANDONED", "UNKNOWN"}

(* A row that does not exist: not created yet, or purged.                  *)
Absent == "ABSENT"

IsActive(s) == s \in {"STARTING", "STARTED", "STOPPING"}

IsFinished(s) == s \in {"STOPPED", "FAILED", "COMPLETED", "ABANDONED"}

(* validate_restart: the statuses a new attempt may follow.                *)
IsRestartable(s) == s \in {"STOPPED", "FAILED"}

(* recovered_execution: the statuses an audited recovery may close.        *)
IsRecoverableAgain(s) == IsActive(s) \/ s \in {"UNKNOWN", "FAILED"}

IsRecoverable(s) == IsActive(s) \/ s = "UNKNOWN"

IsLegalInPlaceTransition(from, to) ==
  \/ from = "STARTING" /\ to \in {"STARTED", "STOPPING", "FAILED", "UNKNOWN"}
  \/ from = "STARTED"
       /\ to \in {"STOPPING", "STOPPED", "FAILED", "COMPLETED", "UNKNOWN"}
  \/ from = "STOPPING" /\ to \in {"STOPPED", "FAILED", "UNKNOWN"}
  \/ from \in {"STOPPED", "FAILED", "UNKNOWN"} /\ to = "ABANDONED"
  \/ from = "UNKNOWN" /\ to = "FAILED"

(***************************************************************************)
(* transition_execution: compare the expected version, consult the table,  *)
(* then change the status and advance the version together.  `row' is any  *)
(* record with the fields status and ver.                                  *)
(***************************************************************************)
CanTransition(row, expected, to) ==
  /\ row.ver = expected
  /\ IsLegalInPlaceTransition(row.status, to)

Transitioned(row, to) == [row EXCEPT !.status = to, !.ver = @ + 1]

(* enrich_execution_exit_status: the exit code changes, the status does    *)
(* not; what the protocol sees of it is the version.                       *)
Enriched(row) == [row EXCEPT !.ver = @ + 1]

(***************************************************************************)
(* recovered_execution and recovered_step_execution build the closed row   *)
(* directly: they do not go through the table.  A finished child is left   *)
(* as it is.                                                               *)
(***************************************************************************)
RecoveryDispositions == {"FAILED", "ABANDONED"}

RecoveredJob(row, disposition) == Transitioned(row, disposition)

RecoveredStepNever(row, disposition) == row

RecoveredStepAlways(row, disposition) ==
  IF row.status = Absent THEN row ELSE Transitioned(row, disposition)

RecoveredStep(row, disposition) ==
  IF IsRecoverable(row.status) THEN Transitioned(row, disposition) ELSE row
==============================================================================
