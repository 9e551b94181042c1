---------------------------- MODULE JobRepository ----------------------------
(***************************************************************************)
(* The durable job repository: job executions (attempts) of job instances, *)
(* their step executions, ownership, stop requests, recovery decisions and *)
(* registered definition upgrades.                                         *)
(*                                                                         *)
(* One action is one committed unit of work.  A unit works on a snapshot   *)
(* and commits by compare-and-swap (memory adapter) or under row locks and *)
(* version predicates (PostgreSQL adapter), so a unit that commits applies *)
(* to the current state and one that loses changes nothing: a losing unit  *)
(* is no step here.  Next lets any client issue any unit at any time; the  *)
(* launcher, flow and operator modules restrict who calls what, and when.  *)
(***************************************************************************)
EXTENDS Lifecycle, FiniteSets

CONSTANTS
  Instances,          \* job instances (job name + identifying parameters)
  Nodes,              \* logical step identifiers of a job
  Definitions,        \* manifest digests of job definitions
  Owners,             \* per-process owner tokens
  None,               \* "no value"
  MaxExecutions,      \* bound: job executions ever created
  MaxVersion          \* bound: optimistic version of one row

ASSUME RepositoryAssumption ==
  /\ MaxExecutions \in Nat
  /\ MaxVersion \in Nat
  /\ None \notin Instances \cup Definitions \cup Owners

VARIABLES
  jobs,        \* job execution id -> row
  steps,       \* job execution id -> node -> row
  nextJob,     \* number of job execution ids handed out
  recoveries,  \* job execution id -> recovery decisions appended for it
  upgrades     \* registered direct definition upgrade edges

repoVars == <<jobs, steps, nextJob, recoveries, upgrades>>

JobIds == 1..MaxExecutions

JobRow ==
  [inst : Instances \cup {None}, status : BatchStatus \cup {Absent},
   ver : 0..MaxVersion, def : Definitions \cup {None},
   owner : Owners \cup {None}, stop : BOOLEAN]

StepRow == [status : BatchStatus \cup {Absent}, ver : 0..MaxVersion]

RecoveryDecision ==
  [ver : 0..MaxVersion, prior : BatchStatus, result : RecoveryDispositions]

NoJob ==
  [inst |-> None, status |-> Absent, ver |-> 0, def |-> None,
   owner |-> None, stop |-> FALSE]

NoStep == [status |-> Absent, ver |-> 0]

JobExists(j) == jobs[j].status # Absent

StepExists(j, n) == steps[j][n].status # Absent

AttemptsOf(i) == {j \in JobIds : JobExists(j) /\ jobs[j].inst = i}

(* latest_job_execution: executions of an instance are kept in creation    *)
(* order, so the latest is the one with the largest id.                    *)
IsLatest(j) ==
  /\ JobExists(j)
  /\ \A k \in JobIds : JobExists(k) /\ jobs[k].inst = jobs[j].inst => k <= j

-----------------------------------------------------------------------------
(***************************************************************************)
(* create_job_execution.  The latest attempt must be restartable; a        *)
(* changed definition needs the caller to select an upgrade and the        *)
(* repository to hold that direct edge; an upgrade selected for an         *)
(* unchanged definition is refused.                                        *)
(***************************************************************************)
DefinitionAcceptedUnregistered(previous, def, upgrade) ==
  IF previous # def THEN upgrade = <<previous, def>> ELSE upgrade = None

DefinitionAccepted(previous, def, upgrade) ==
  IF previous # def
    THEN upgrade = <<previous, def>> /\ upgrade \in upgrades
    ELSE upgrade = None

MayCreateUngated(i, def, upgrade) ==
  /\ nextJob < MaxExecutions
  /\ \A j \in AttemptsOf(i) :
       IsLatest(j) => DefinitionAccepted(jobs[j].def, def, upgrade)

MayCreateAfterUnknown(i, def, upgrade) ==
  /\ nextJob < MaxExecutions
  /\ \A j \in AttemptsOf(i) :
       IsLatest(j) =>
         /\ ~IsActive(jobs[j].status)
         /\ DefinitionAccepted(jobs[j].def, def, upgrade)

MayCreate(i, def, upgrade) ==
  /\ nextJob < MaxExecutions
  /\ \A j \in AttemptsOf(i) :
       IsLatest(j) =>
         /\ IsRestartable(jobs[j].status)
         /\ DefinitionAccepted(jobs[j].def, def, upgrade)

StartingJob(i, def, owner) ==
  [inst |-> i, status |-> "STARTING", ver |-> 0, def |-> def,
   owner |-> owner, stop |-> FALSE]

StartingStep == [status |-> "STARTING", ver |-> 0]

(* The id of the execution the next creating unit adds.                    *)
NewJob == nextJob + 1

(***************************************************************************)
(* The unit of create_execution_graph and of the flow launcher's and       *)
(* operator's creation: the attempt, its owner when execution control is   *)
(* configured, and the step rows in `started' (none for the operator and   *)
(* the flow launcher).                                                     *)
(***************************************************************************)
CreateExecution(i, def, upgrade, owner, started) ==
  /\ MayCreate(i, def, upgrade)
  /\ nextJob' = NewJob
  /\ jobs' = [jobs EXCEPT ![NewJob] = StartingJob(i, def, owner)]
  /\ steps' = [steps EXCEPT ![NewJob] =
                 [n \in Nodes |-> IF n \in started THEN StartingStep ELSE NoStep]]
  /\ UNCHANGED <<recoveries, upgrades>>

(* create_flow_step_execution: neither adapter looks at the status of the  *)
(* job execution.  The start limit counts the rows of the node over all    *)
(* attempts of the instance.                                               *)
StartsOf(i, n) == {j \in AttemptsOf(i) : StepExists(j, n)}

CreateStep(j, n, limit) ==
  /\ JobExists(j)
  /\ ~StepExists(j, n)
  /\ Cardinality(StartsOf(jobs[j].inst, n)) < limit
  /\ steps' = [steps EXCEPT ![j][n] = StartingStep]
  /\ UNCHANGED <<jobs, nextJob, recoveries, upgrades>>

(* transition_job_execution in a unit of its own (start, mark stopping,    *)
(* abandon).                                                               *)
MayTransitionJobWrapping(j, expected, to) ==
  JobExists(j) /\ CanTransition(jobs[j], expected, to)

MayTransitionJob(j, expected, to) ==
  /\ JobExists(j)
  /\ CanTransition(jobs[j], expected, to)
  /\ jobs[j].ver + 1 <= MaxVersion

TransitionJob(j, expected, to) ==
  /\ MayTransitionJob(j, expected, to)
  /\ jobs' = [jobs EXCEPT ![j] = Transitioned(@, to)]
  /\ UNCHANGED <<steps, nextJob, recoveries, upgrades>>

(* finish_job: exit status and terminal status in one unit.                *)
MayFinishJob(j, expected, to) ==
  /\ JobExists(j)
  /\ jobs[j].ver = expected
  /\ CanTransition(Enriched(jobs[j]), expected + 1, to)
  /\ jobs[j].ver + 2 <= MaxVersion

FinishJobRow(j, expected, to) ==
  /\ MayFinishJob(j, expected, to)
  /\ jobs' = [jobs EXCEPT ![j] = Transitioned(Enriched(@), to)]
  /\ UNCHANGED <<steps, nextJob, recoveries, upgrades>>

MayTransitionStep(j, n, expected, to) ==
  /\ StepExists(j, n)
  /\ CanTransition(steps[j][n], expected, to)
  /\ steps[j][n].ver + 1 <= MaxVersion

TransitionStep(j, n, expected, to) ==
  /\ MayTransitionStep(j, n, expected, to)
  /\ steps' = [steps EXCEPT ![j][n] = Transitioned(@, to)]
  /\ UNCHANGED <<jobs, nextJob, recoveries, upgrades>>

(* finish_step: exit status and terminal status in one unit.               *)
MayFinishStep(j, n, expected, to) ==
  /\ StepExists(j, n)
  /\ steps[j][n].ver = expected
  /\ CanTransition(Enriched(steps[j][n]), expected + 1, to)
  /\ steps[j][n].ver + 2 <= MaxVersion

FinishStepRow(j, n, expected, to) ==
  /\ MayFinishStep(j, n, expected, to)
  /\ steps' = [steps EXCEPT ![j][n] = Transitioned(Enriched(@), to)]
  /\ UNCHANGED <<jobs, nextJob, recoveries, upgrades>>

(* commit_step_execution_context, a chunk commit and a retry reservation:  *)
(* progress of a STARTED step under its expected version.                  *)
CommitStepProgress(j, n, expected) ==
  /\ StepExists(j, n)
  /\ steps[j][n].ver = expected
  /\ steps[j][n].status = "STARTED"
  /\ expected + 1 <= MaxVersion
  /\ steps' = [steps EXCEPT ![j][n].ver = @ + 1]
  /\ UNCHANGED <<jobs, nextJob, recoveries, upgrades>>

(* claim_execution_owner: only while STARTING, never over another owner;   *)
(* the version does not move.                                              *)
MayClaimOwned(j, owner) == jobs[j].status = "STARTING"

MayClaim(j, owner) ==
  /\ jobs[j].status = "STARTING"
  /\ jobs[j].owner \in {None, owner}

(***************************************************************************)
(* prepare_precreated_execution_graph: a launcher takes over an execution  *)
(* that another unit created without running it.  It claims the execution  *)
(* when it has an owner token, creates the step row when there is none and *)
(* reuses it while it is STARTING.                                         *)
(***************************************************************************)
MayAdopt(j, n, owner) ==
  /\ jobs[j].status = "STARTING"
  /\ owner # None => MayClaim(j, owner)
  /\ steps[j][n].status \in {Absent, "STARTING"}

AdoptExecution(j, n, owner) ==
  /\ MayAdopt(j, n, owner)
  /\ jobs' = [jobs EXCEPT ![j].owner = IF owner = None THEN @ ELSE owner]
  /\ steps' = [steps EXCEPT ![j][n] =
                 IF @.status = Absent THEN StartingStep ELSE @]
  /\ UNCHANGED <<nextJob, recoveries, upgrades>>

(* request_execution_stop records the request; status and version stay.    *)
RequestExecutionStop(j, expected) ==
  /\ JobExists(j)
  /\ jobs[j].ver = expected
  /\ jobs' = [jobs EXCEPT ![j].stop = TRUE]
  /\ UNCHANGED <<steps, nextJob, recoveries, upgrades>>

(* observe_execution_control: the recorded owner's poll is what turns a    *)
(* stop request into STOPPING.                                             *)
ObservedControl(row, owner) ==
  IF row.owner = owner /\ row.stop /\ row.status \in {"STARTING", "STARTED"}
    THEN Transitioned(row, "STOPPING")
    ELSE row

ObserveExecutionControl(j, owner) ==
  /\ JobExists(j)
  /\ ObservedControl(jobs[j], owner).ver <= MaxVersion
  /\ jobs' = [jobs EXCEPT ![j] = ObservedControl(@, owner)]
  /\ UNCHANGED <<steps, nextJob, recoveries, upgrades>>

(***************************************************************************)
(* recover_job_execution: close the execution and every unfinished child,  *)
(* and append the decision, in one unit.  A second decision for the same   *)
(* observed version is a conflict.                                         *)
(***************************************************************************)
RecoverJobExecution(j, expected, disposition) ==
  /\ JobExists(j)
  /\ jobs[j].ver = expected
  /\ \A d \in recoveries[j] : d.ver # expected
  /\ IsRecoverable(jobs[j].status)
  /\ expected + 1 <= MaxVersion
  /\ \A n \in Nodes : RecoveredStep(steps[j][n], disposition).ver <= MaxVersion
  /\ jobs' = [jobs EXCEPT ![j] = RecoveredJob(@, disposition)]
  /\ steps' = [steps EXCEPT ![j] =
                 [n \in Nodes |-> RecoveredStep(@[n], disposition)]]
  /\ recoveries' = [recoveries EXCEPT ![j] = @ \cup
       {[ver |-> expected, prior |-> jobs[j].status, result |-> disposition]}]
  /\ UNCHANGED <<nextJob, upgrades>>

(* JobOperator::abandon: any attempt, not only the latest.  An UNKNOWN     *)
(* attempt needs a recovery decision on record.                            *)
AbandonExecution(j, expected) ==
  /\ \/ IsRestartable(jobs[j].status)
     \/ jobs[j].status = "UNKNOWN" /\ recoveries[j] # {}
  /\ TransitionJob(j, expected, "ABANDONED")

(* register_definition_upgrade: a direct edge, idempotent.                 *)
RegisterDefinitionUpgrade(from, to) ==
  /\ upgrades' = upgrades \cup {<<from, to>>}
  /\ UNCHANGED <<jobs, steps, nextJob, recoveries>>
-----------------------------------------------------------------------------

RepoInit ==
  /\ jobs = [j \in JobIds |-> NoJob]
  /\ steps = [j \in JobIds |-> [n \in Nodes |-> NoStep]]
  /\ nextJob = 0
  /\ recoveries = [j \in JobIds |-> {}]
  /\ upgrades = {}

Upgrades == {None} \cup (Definitions \X Definitions)

(* The lifecycle targets the launchers write in place; ABANDONED is        *)
(* written by the operator only.                                           *)
RunningTargets == {"STARTED", "STOPPING"}
FinalTargets == {"STOPPED", "FAILED", "COMPLETED", "UNKNOWN"}

CreateUnit ==
  \E i \in Instances, d \in Definitions, u \in Upgrades,
     o \in Owners \cup {None}, s \in SUBSET Nodes :
    CreateExecution(i, d, u, o, s)

JobUnit(j) ==
  \/ \E to \in RunningTargets : TransitionJob(j, jobs[j].ver, to)
  \/ \E to \in FinalTargets : FinishJobRow(j, jobs[j].ver, to)
  \/ RequestExecutionStop(j, jobs[j].ver)
  \/ \E o \in Owners : ObserveExecutionControl(j, o)
  \/ \E r \in RecoveryDispositions : RecoverJobExecution(j, jobs[j].ver, r)
  \/ AbandonExecution(j, jobs[j].ver)

StepUnit(j, n) ==
  \/ CreateStep(j, n, MaxExecutions + 1)
  \/ \E o \in Owners \cup {None} : AdoptExecution(j, n, o)
  \/ \E to \in RunningTargets : TransitionStep(j, n, steps[j][n].ver, to)
  \/ \E to \in FinalTargets : FinishStepRow(j, n, steps[j][n].ver, to)
  \/ CommitStepProgress(j, n, steps[j][n].ver)

RegisterUnit ==
  \E f, t \in Definitions : f # t /\ RegisterDefinitionUpgrade(f, t)

RepoNext ==
  \/ CreateUnit
  \/ \E j \in JobIds : JobUnit(j)
  \/ \E j \in JobIds, n \in Nodes : StepUnit(j, n)
  \/ RegisterUnit

RepoSpec == RepoInit /\ [][RepoNext]_repoVars
-----------------------------------------------------------------------------
(* Properties of the repository whatever its clients do.                   *)

RepoTypeOK ==
  /\ jobs \in [JobIds -> JobRow]
  /\ steps \in [JobIds -> [Nodes -> StepRow]]
  /\ nextJob \in 0..MaxExecutions
  /\ recoveries \in [JobIds -> SUBSET RecoveryDecision]
  /\ upgrades \subseteq Definitions \X Definitions

(* Execution ids are handed out in order and never reused.                 *)
IdsInOrder == \A j \in JobIds : JobExists(j) <=> j <= nextJob

(* An execution that does not exist has left no owner or stop request.     *)
AbsentIsBlank == \A j \in JobIds : JobExists(j) \/ jobs[j] = NoJob

(* A step row belongs to an execution that exists.                         *)
StepsHaveJob ==
  \A j \in JobIds, n \in Nodes : StepExists(j, n) => JobExists(j)

(***************************************************************************)
(* At most one attempt of an instance is unfinished and it is the latest:  *)
(* every superseded attempt stays STOPPED, FAILED or ABANDONED, although   *)
(* each row is changed by clients that hold only their own version of it   *)
(* (create_job_execution's gate against transition, recovery and abandon). *)
(***************************************************************************)
SupersededIsClosed ==
  \A j, k \in JobIds :
    /\ JobExists(j) /\ JobExists(k)
    /\ jobs[j].inst = jobs[k].inst
    /\ j < k
    => jobs[j].status \in {"STOPPED", "FAILED", "ABANDONED"}

(* Consecutive attempts run the same definition or one reached by a        *)
(* registered direct upgrade edge (the definition gate of                  *)
(* create_job_execution).                                                  *)
DefinitionContinuity ==
  \A j, k \in JobIds :
    /\ JobExists(j) /\ JobExists(k)
    /\ jobs[j].inst = jobs[k].inst
    /\ j < k
    /\ \A m \in JobIds : j < m /\ m < k => jobs[m].inst # jobs[j].inst
    => jobs[j].def = jobs[k].def \/ <<jobs[j].def, jobs[k].def>> \in upgrades

(* A recovered execution stays resolved: once a decision is on record the  *)
(* row is FAILED or ABANDONED at a later version than the one decided on,  *)
(* and there is no second decision.                                        *)
RecoveryIsFinal ==
  \A j \in JobIds : \A d \in recoveries[j] :
    /\ jobs[j].status \in {d.result, "ABANDONED"}
    /\ jobs[j].ver > d.ver
    /\ recoveries[j] = {d}

(***************************************************************************)
(* Ownership is not a lease: once a process token is recorded for an       *)
(* execution no unit replaces it (claim_execution_owner), and an owner is  *)
(* never taken for an execution that has left STARTING.                    *)
(***************************************************************************)
OwnerNeverStolen ==
  [][\A j \in JobIds :
       jobs[j].owner # jobs'[j].owner =>
         jobs[j].owner = None /\ jobs'[j].status = "STARTING"]_repoVars

(* A finished step row never changes again, whoever writes late: not its   *)
(* status, version or progress (lifecycle table, STARTED guard of progress *)
(* commits, recovered_step_execution leaving finished children alone).     *)
FinishedStepFrozen ==
  [][\A j \in JobIds, n \in Nodes :
       IsFinished(steps[j][n].status) => steps'[j][n] = steps[j][n]]_repoVars
=============================================================================
