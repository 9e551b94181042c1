---------------------------- MODULE FlowLauncher -----------------------------
(***************************************************************************)
(* FlowLauncher: the runtime of a job whose plan is an acyclic graph of    *)
(* step and decider nodes.  A flow walks the graph from its entry, runs or *)
(* reuses each step it reaches, and commits a decision row before it moves *)
(* to the target of that decision.                                         *)
(* Source: crates/oxide-batch/src/flow.rs, the flow part of                *)
(* crates/oxide-batch/src/repository/memory.rs.                            *)
(*                                                                         *)
(* The plan fingerprint is the definition of the execution: one plan here. *)
(* Input digests are what they digest: the identity and version of a step  *)
(* row.  Splits, partitioned steps, nested jobs, custom leaves and repeat  *)
(* chains are nodes this module does not have.                             *)
(***************************************************************************)
EXTENDS JobRepository, Sequences

CONSTANTS
  Runners,         \* flow launching processes
  Controlled,      \* the runners with execution control
  Deciders,        \* decision nodes of the plan
  Entry,           \* entry node of the plan
  Codes,           \* exit codes steps complete with and deciders return
  Route,           \* <<node, exit code>> -> node or terminal status
  StartLimit,      \* step node -> maximum number of starts per instance
  AllowRerun,      \* steps with allow_start_if_complete
  NotRestartable,  \* steps with RestartPolicy::NotRestartable
  JobRestartable   \* the job's own restart policy

Terminals == {"COMPLETED", "STOPPED", "FAILED"}

PlanNodes == Nodes \cup Deciders

ASSUME FlowAssumption ==
  /\ Controlled \subseteq Runners /\ Controlled \subseteq Owners
  /\ Deciders \cap Nodes = {}
  /\ Entry \in PlanNodes
  /\ {"COMPLETED", "FAILED"} \subseteq Codes
  /\ DOMAIN Route \subseteq PlanNodes \X Codes
  /\ \A x \in DOMAIN Route : Route[x] \in PlanNodes \cup Terminals
  /\ StartLimit \in [Nodes -> Nat]
  /\ AllowRerun \subseteq Nodes /\ NotRestartable \subseteq Nodes
  /\ JobRestartable \in BOOLEAN

VARIABLES
  exits,      \* job execution id -> step node -> recorded exit code
  decisions,  \* job execution id -> its decision rows, in sequence order
  flow,       \* runner -> where its launch is and what it remembers
  lost        \* history: executions one of whose steps lost a commit response

flowVars == <<exits, decisions, flow, lost>>
vars == <<jobs, steps, nextJob, recoveries, upgrades, exits, decisions, flow, lost>>

Labels ==
  {"idle", "dead", "job_scope", "start_job", "poll", "node", "lookup", "create_step",
   "before_step", "start_step", "tasklet", "after_step", "reload",
   "finish_step", "fail_step", "reread", "append", "close_scope", "finish_job"}

Kinds == {"StepExit", "CompletedStepReuse", "Decider"}

Idle ==
  [pc |-> "idle", job |-> 0, jver |-> 0, sver |-> 0, at |-> None,
   prev |-> <<>>, kind |-> None, code |-> None, reused |-> <<>>,
   taken |-> 0, stop |-> FALSE, outcome |-> None]

At(p, label) == flow[p].pc = label

(* p has no launch under way; at "dead" the last one did not return.       *)
Free(p) == At(p, "idle") \/ At(p, "dead")

JobOf(p) == flow[p].job

InstOf(p) == jobs[JobOf(p)].inst

Token(p) == IF p \in Controlled THEN p ELSE None

Goto(p, label) == flow' = [flow EXCEPT ![p].pc = label]

Return(p) == flow' = [flow EXCEPT ![p] = Idle]

(* An error leaves the launch with `?'; the rows stay as they are.         *)
Refused(p) == Return(p) /\ UNCHANGED <<repoVars, exits, decisions>>

(* run_scope returns a terminal status: the job scope is closed next.      *)
EndScope(p, status) ==
  flow' = [flow EXCEPT ![p].pc = "close_scope", ![p].outcome = status]

-----------------------------------------------------------------------------
(* Reads of durable flow state.                                            *)

(* latest_flow_step: the newest attempt of the instance with a row for the *)
(* node, 0 when there is none.                                             *)
LatestStep(i, n) ==
  IF StartsOf(i, n) = {}
    THEN 0
    ELSE CHOOSE j \in StartsOf(i, n) : \A k \in StartsOf(i, n) : k <= j

(* step_input_digest, and through the preceding step decision_input_digest.*)
Digest(j, n) == <<j, n, steps[j][n].ver>>

(* find_reusable_flow_decision: newest first; the kind must match.         *)
ReusableDecisions(i, n, input, kind) ==
  {<<j, k>> \in AttemptsOf(i) \X (1..Cardinality(PlanNodes)) :
     /\ k <= Len(decisions[j])
     /\ decisions[j][k].node = n
     /\ decisions[j][k].input = input
     /\ decisions[j][k].kind = kind}

NewestOf(refs) ==
  IF refs = {} THEN <<>> ELSE CHOOSE r \in refs : \A s \in refs : s[1] <= r[1]

CompletedBefore(i, n) ==
  /\ LatestStep(i, n) # 0
  /\ steps[LatestStep(i, n)][n].status = "COMPLETED"

ReusesPrevious(i, n) ==
  /\ CompletedBefore(i, n) /\ n \notin AllowRerun
  /\ LatestStep(i, n) + 1 >= nextJob

(* A completed step is reused unless its start controls allow a rerun.     *)
Reuses(i, n) == CompletedBefore(i, n) /\ n \notin AllowRerun
-----------------------------------------------------------------------------
(* create_job_execution with ensure_plan_restart_allowed.                  *)
PlanRestartJobOnly(i) ==
  \A j \in AttemptsOf(i) :
    IsLatest(j) /\ IsRestartable(jobs[j].status) => JobRestartable

PlanRestartAllowed(i) ==
  \A j \in AttemptsOf(i) :
    IsLatest(j) /\ IsRestartable(jobs[j].status) =>
      /\ JobRestartable
      /\ \A n \in NotRestartable : LatestStep(i, n) # 0 => Reuses(i, n)

LaunchFlowForgetful(p) ==
  /\ Free(p)
  /\ \E i \in Instances, d \in Definitions :
       PlanRestartAllowed(i) /\ CreateExecution(i, d, None, Token(p), {})
  /\ flow' = [flow EXCEPT ![p].pc = "job_scope", ![p].job = NewJob]
  /\ UNCHANGED <<exits, decisions, lost>>

LaunchFlow(p) ==
  /\ Free(p)
  /\ \E i \in Instances, d \in Definitions :
       PlanRestartAllowed(i) /\ CreateExecution(i, d, None, Token(p), {})
  /\ flow' = [flow EXCEPT ![p] =
                [Idle EXCEPT !.pc = "job_scope", !.job = NewJob, !.at = Entry]]
  /\ UNCHANGED <<exits, decisions, lost>>

(* build_live_scope: an assembly failure finishes the unstarted job.       *)
BuildJobScope(p) ==
  /\ At(p, "job_scope")
  /\ \/ Goto(p, "start_job")
     \/ flow' = [flow EXCEPT ![p].pc = "finish_job", ![p].outcome = "FAILED"]
  /\ UNCHANGED <<repoVars, exits, decisions, lost>>

StartJob(p) ==
  /\ At(p, "start_job")
  /\ \/ /\ TransitionJob(JobOf(p), flow[p].jver, "STARTED")
        /\ flow' = [flow EXCEPT ![p].pc = "poll", ![p].jver = @ + 1]
        /\ UNCHANGED <<exits, decisions>>
     \/ /\ ~MayTransitionJob(JobOf(p), flow[p].jver, "STARTED")
        /\ Refused(p)
  /\ UNCHANGED lost

(* poll_execution_control, once after start and again during tasklets.     *)
PollAt(p, here, go) ==
  /\ At(p, here)
  /\ IF p \in Controlled
       THEN ObserveExecutionControl(JobOf(p), p)
       ELSE UNCHANGED repoVars
  /\ flow' = [flow EXCEPT ![p].pc = go,
                          ![p].stop = @ \/ (p \in Controlled /\ jobs[JobOf(p)].stop)]
  /\ UNCHANGED <<exits, decisions, lost>>

PollJob(p) == PollAt(p, "poll", "node")

PollTasklet(p) == p \in Controlled /\ PollAt(p, "tasklet", "tasklet")

(***************************************************************************)
(* The head of run_scope's loop.  A stop ends the scope before the node is *)
(* looked at; a step that is reused keeps its recorded exit code.          *)
(***************************************************************************)
VisitNode(p) ==
  LET n == flow[p].at
      j == LatestStep(InstOf(p), n)
  IN /\ At(p, "node")
     /\ \/ flow[p].stop /\ EndScope(p, "STOPPED")
        \/ /\ ~flow[p].stop
           /\ n \in Deciders
           /\ flow' = [flow EXCEPT ![p].pc = "lookup", ![p].kind = "Decider"]
        \/ /\ ~flow[p].stop
           /\ n \in Nodes
           /\ Reuses(InstOf(p), n)
           /\ flow' = [flow EXCEPT ![p].pc = "lookup",
                                   ![p].kind = "CompletedStepReuse",
                                   ![p].prev = Digest(j, n),
                                   ![p].code = exits[j][n]]
        \/ /\ ~flow[p].stop
           /\ n \in Nodes
           /\ ~Reuses(InstOf(p), n)
           /\ Goto(p, "create_step")
     /\ UNCHANGED <<repoVars, exits, decisions, lost>>

PriorDecisionNever(p) == <<>>

(* reusable_decision: a reused step looks for the exit decision of the     *)
(* attempt that ran it, a decider for its own decision on the same input.  *)
PriorDecision(p) ==
  NewestOf(ReusableDecisions(InstOf(p), flow[p].at, flow[p].prev,
             IF flow[p].kind = "Decider" THEN "Decider" ELSE "StepExit"))

(* A decider runs only when no prior decision is found; it may fail.       *)
LookupDecision(p) ==
  LET prior == PriorDecision(p)
  IN /\ At(p, "lookup")
     /\ \/ /\ flow[p].kind # "Decider" \/ prior # <<>>
           /\ flow' = [flow EXCEPT ![p].pc = "append", ![p].reused = prior,
                         ![p].code = IF flow[p].kind = "Decider"
                                       THEN decisions[prior[1]][prior[2]].code
                                       ELSE @]
        \/ /\ flow[p].kind = "Decider" /\ prior = <<>>
           /\ \/ EndScope(p, "FAILED")
              \/ \E c \in Codes :
                   flow' = [flow EXCEPT ![p].pc = "append", ![p].reused = <<>>,
                                        ![p].code = c]
     /\ UNCHANGED <<repoVars, exits, decisions, lost>>

(***************************************************************************)
(* create_step.  An acyclic plan visits a node once per attempt, so the    *)
(* attempt has no row for it yet.                                          *)
(***************************************************************************)
StepRestartAllowed(p, n) ==
  n \in NotRestartable => LatestStep(InstOf(p), n) \in {0, JobOf(p)}

LimitReached(p, n) ==
  Cardinality(StartsOf(InstOf(p), n)) >= StartLimit[n]

AtLimitSkip(p) == EndScope(p, "COMPLETED")

(* StartLimitExceeded is a failed flow, not an error.                      *)
AtLimit(p) == EndScope(p, "FAILED")

CreateFlowStep(p) ==
  LET n == flow[p].at
  IN /\ At(p, "create_step")
     /\ \/ /\ StepRestartAllowed(p, n)
           /\ CreateStep(JobOf(p), n, StartLimit[n])
           /\ flow' = [flow EXCEPT ![p].pc = "before_step", ![p].sver = 0]
           /\ UNCHANGED <<exits, decisions>>
        \/ /\ ~StepRestartAllowed(p, n)
           /\ Refused(p)
        \/ /\ StepRestartAllowed(p, n) /\ LimitReached(p, n)
           /\ AtLimit(p)
           /\ UNCHANGED <<repoVars, exits, decisions>>
     /\ UNCHANGED lost

(* Before-step listeners, then the step scope.  A failing listener fails   *)
(* the step, a scope that cannot be assembled fails step and job.          *)
BeforeStep(p) ==
  /\ At(p, "before_step")
  /\ \/ Goto(p, "start_step")
     \/ \E label \in {"finish_step", "fail_step"} :
          flow' = [flow EXCEPT ![p].pc = label, ![p].outcome = "FAILED",
                               ![p].code = "FAILED"]
  /\ UNCHANGED <<repoVars, exits, decisions, lost>>

StartStep(p) ==
  /\ At(p, "start_step")
  /\ \/ /\ TransitionStep(JobOf(p), flow[p].at, flow[p].sver, "STARTED")
        /\ Goto(p, "tasklet")
        /\ UNCHANGED <<exits, decisions>>
     \/ /\ ~MayTransitionStep(JobOf(p), flow[p].at, flow[p].sver, "STARTED")
        /\ Refused(p)
  /\ UNCHANGED lost

(* What invoke_tasklet returned, as outcome and exit code: completed work  *)
(* under a stop request counts as stopped.                                 *)
TaskletResults(stop) ==
  {<<"FAILED", "FAILED">>, <<"STOPPED", "STOPPED">>, <<"UNKNOWN", "UNKNOWN">>}
    \cup (IF stop THEN {} ELSE {"COMPLETED"} \X Codes)

TaskletReturns(p) ==
  /\ At(p, "tasklet")
  /\ \E r \in TaskletResults(flow[p].stop) :
       /\ flow' = [flow EXCEPT ![p].pc = "after_step", ![p].outcome = r[1],
                               ![p].code = r[2]]
       /\ lost' = IF r[1] = "UNKNOWN" THEN lost \cup {JobOf(p)} ELSE lost
  /\ UNCHANGED <<repoVars, exits, decisions>>

(***************************************************************************)
(* After-step listeners and the closing of the step scope.  A failing      *)
(* listener fails the step whatever its outcome was; an unclean scope only *)
(* one that completed.                                                     *)
(***************************************************************************)
AfterStep(p) ==
  /\ At(p, "after_step")
  /\ \/ Goto(p, "reload")
     \/ flow' = [flow EXCEPT ![p].pc = "reload", ![p].outcome = "FAILED",
                             ![p].code = "FAILED"]
  /\ UNCHANGED <<repoVars, exits, decisions, lost>>

ReloadStep(p) ==
  /\ At(p, "reload")
  /\ flow' = [flow EXCEPT ![p].pc = "finish_step",
                          ![p].sver = steps[JobOf(p)][flow[p].at].ver]
  /\ UNCHANGED <<repoVars, exits, decisions, lost>>

(***************************************************************************)
(* finish_step, and what run_scope does with the outcome: UNKNOWN and      *)
(* STOPPED end the scope, the rest is routed.  A lost commit response is   *)
(* re-read and accepted when the row is the one proposed.                  *)
(***************************************************************************)
FinishStepOverwrite(p, here, next) ==
  /\ At(p, here)
  /\ steps' = [steps EXCEPT ![JobOf(p)][flow[p].at].status = flow[p].outcome]
  /\ exits' = [exits EXCEPT ![JobOf(p)][flow[p].at] = flow[p].code]
  /\ Goto(p, IF flow[p].outcome \in {"UNKNOWN", "STOPPED"}
               THEN "close_scope" ELSE next)
  /\ UNCHANGED <<jobs, nextJob, recoveries, upgrades, decisions, lost>>

FinishStepAt(p, here, next) ==
  /\ At(p, here)
  /\ \/ /\ FinishStepRow(JobOf(p), flow[p].at, flow[p].sver, flow[p].outcome)
        /\ exits' = [exits EXCEPT ![JobOf(p)][flow[p].at] = flow[p].code]
        /\ Goto(p, IF flow[p].outcome \in {"UNKNOWN", "STOPPED"}
                     THEN "close_scope" ELSE next)
        /\ UNCHANGED decisions
     \/ /\ ~MayFinishStep(JobOf(p), flow[p].at, flow[p].sver, flow[p].outcome)
        /\ Refused(p)
  /\ UNCHANGED lost

FinishStep(p) ==
  \/ FinishStepAt(p, "finish_step", "reread")
  \/ FinishStepAt(p, "fail_step", "close_scope")

(* latest_step once more: the digest is of the newest row of the node,     *)
(* which is another attempt's when this launch was recovered and restarted.*)
RereadStep(p) ==
  /\ At(p, "reread")
  /\ flow' = [flow EXCEPT ![p].pc = "append", ![p].kind = "StepExit",
                ![p].prev = Digest(LatestStep(InstOf(p), flow[p].at), flow[p].at),
                ![p].reused = <<>>]
  /\ UNCHANGED <<repoVars, exits, decisions, lost>>

(***************************************************************************)
(* append_flow_decision: the next sequence number, one decision per source *)
(* node, and a reused decision must agree in everything it decides.  The   *)
(* status of the job execution is not looked at.                           *)
(***************************************************************************)
MayAppendDecision(p, d) ==
  /\ flow[p].taken = Len(decisions[JobOf(p)])
  /\ \A k \in DOMAIN decisions[JobOf(p)] : decisions[JobOf(p)][k].node # d.node
  /\ d.reused # <<>> =>
       LET r == decisions[d.reused[1]][d.reused[2]]
       IN r.node = d.node /\ r.input = d.input /\ r.code = d.code /\ r.target = d.target

NewDecision(p) ==
  [node |-> flow[p].at, kind |-> flow[p].kind, code |-> flow[p].code,
   target |-> Route[<<flow[p].at, flow[p].code>>], input |-> flow[p].prev,
   reused |-> flow[p].reused]

AppendUnlessReused(p) ==
  IF flow[p].reused # <<>>
    THEN UNCHANGED decisions
    ELSE decisions' = [decisions EXCEPT ![JobOf(p)] = Append(@, NewDecision(p))]

(* The row append_decision commits.                                        *)
AppendRow(p) ==
  decisions' = [decisions EXCEPT ![JobOf(p)] = Append(@, NewDecision(p))]

AppendDecision(p) ==
  /\ At(p, "append")
  /\ \/ /\ <<flow[p].at, flow[p].code>> \notin DOMAIN Route
        /\ EndScope(p, "FAILED")
        /\ UNCHANGED decisions
     \/ /\ <<flow[p].at, flow[p].code>> \in DOMAIN Route
        /\ MayAppendDecision(p, NewDecision(p))
        /\ AppendRow(p)
        /\ LET t == NewDecision(p).target
           IN IF t \in Terminals
                THEN EndScope(p, t)
                ELSE flow' = [flow EXCEPT ![p].pc = "node", ![p].at = t,
                                          ![p].taken = @ + 1]
     \/ /\ <<flow[p].at, flow[p].code>> \in DOMAIN Route
        /\ ~MayAppendDecision(p, NewDecision(p))
        /\ Return(p)
        /\ UNCHANGED decisions
  /\ UNCHANGED <<repoVars, exits, lost>>

(* Closing the job scope uncleanly fails a completed flow.                 *)
CloseJobScope(p) ==
  /\ At(p, "close_scope")
  /\ \/ Goto(p, "finish_job")
     \/ /\ flow[p].outcome = "COMPLETED"
        /\ flow' = [flow EXCEPT ![p].pc = "finish_job", ![p].outcome = "FAILED"]
  /\ UNCHANGED <<repoVars, exits, decisions, lost>>

CurrentJobVersionRemembered(p) == flow[p].jver

CurrentJobVersion(p) ==
  IF p \in Controlled THEN jobs[JobOf(p)].ver ELSE flow[p].jver

FinishJob(p) ==
  /\ At(p, "finish_job")
  /\ \/ /\ FinishJobRow(JobOf(p), CurrentJobVersion(p), flow[p].outcome)
        /\ Return(p)
        /\ UNCHANGED <<exits, decisions>>
     \/ /\ ~MayFinishJob(JobOf(p), CurrentJobVersion(p), flow[p].outcome)
        /\ Refused(p)
  /\ UNCHANGED lost
-----------------------------------------------------------------------------
(* The application's stop source, or process shutdown.                     *)
RequestStop(p) ==
  /\ ~Free(p) /\ ~flow[p].stop
  /\ flow' = [flow EXCEPT ![p].stop = TRUE]
  /\ UNCHANGED <<repoVars, exits, decisions, lost>>

(* The process dies, or a unit fails before or after it took effect.       *)
Crash(p) ==
  /\ ~Free(p)
  /\ flow' = [flow EXCEPT ![p] = [Idle EXCEPT !.pc = "dead"]]
  /\ UNCHANGED <<repoVars, exits, decisions, lost>>

OperatorStop(j) ==
  /\ jobs[j].status \in {"STARTING", "STARTED"}
  /\ RequestExecutionStop(j, jobs[j].ver)
  /\ UNCHANGED flowVars

OperatorAbandon(j) == AbandonExecution(j, jobs[j].ver) /\ UNCHANGED flowVars

(* The repository cannot tell a dead launch from a slow one ...            *)
OperatorRecoverAny(j) ==
  /\ \E d \in RecoveryDispositions : RecoverJobExecution(j, jobs[j].ver, d)
  /\ UNCHANGED flowVars

(* ... so the runbook asks the operator to establish that it is gone.      *)
OperatorRecover(j) == (\A p \in Runners : JobOf(p) # j) /\ OperatorRecoverAny(j)
-----------------------------------------------------------------------------
FlowInit ==
  /\ RepoInit
  /\ exits = [j \in JobIds |-> [n \in Nodes |-> None]]
  /\ decisions = [j \in JobIds |-> <<>>]
  /\ flow = [p \in Runners |-> Idle]
  /\ lost = {}

FlowStep(p) ==
  \/ BuildJobScope(p) \/ StartJob(p) \/ PollJob(p) \/ VisitNode(p)
  \/ LookupDecision(p) \/ CreateFlowStep(p) \/ BeforeStep(p) \/ StartStep(p)
  \/ PollTasklet(p) \/ TaskletReturns(p) \/ AfterStep(p) \/ ReloadStep(p)
  \/ FinishStep(p) \/ RereadStep(p) \/ AppendDecision(p) \/ CloseJobScope(p)
  \/ FinishJob(p)

FlowNext ==
  \/ \E p \in Runners : LaunchFlow(p) \/ FlowStep(p) \/ RequestStop(p) \/ Crash(p)
  \/ \E j \in JobIds : OperatorStop(j) \/ OperatorAbandon(j) \/ OperatorRecover(j)

(* The launch future is polled until ready, and user code returns.         *)
FlowSpec ==
  /\ FlowInit /\ [][FlowNext]_vars
  /\ \A p \in Runners : WF_vars(FlowStep(p))

(* The part of FlowNext that restarting takes: no stops, no abandons.      *)
RestartNext ==
  \/ \E p \in Runners : LaunchFlow(p) \/ FlowStep(p) \/ Crash(p)
  \/ \E j \in JobIds : OperatorRecover(j)

RestartSpec == FlowInit /\ [][RestartNext]_vars
-----------------------------------------------------------------------------
StepRef == {<<>>} \cup (JobIds \X Nodes \X (0..MaxVersion))

Decision ==
  [node : PlanNodes, kind : Kinds, code : Codes,
   target : PlanNodes \cup Terminals, input : StepRef,
   reused : {<<>>} \cup (JobIds \X (1..Cardinality(PlanNodes)))]

FlowTypeOK ==
  /\ RepoTypeOK
  /\ exits \in [JobIds -> [Nodes -> Codes \cup {"STOPPED", "UNKNOWN", None}]]
  /\ \A j \in JobIds : \A k \in DOMAIN decisions[j] : decisions[j][k] \in Decision
  /\ \A p \in Runners :
       /\ flow[p].pc \in Labels
       /\ Free(p) \/ (JobOf(p) \in JobIds /\ flow[p].at \in PlanNodes)
       /\ flow[p].prev \in StepRef
  /\ lost \subseteq JobIds

(***************************************************************************)
(* The decisions of an attempt are a path of the plan: it begins at the    *)
(* entry, each decision starts where the one before it led, and every step *)
(* row of the attempt is on it: the decision was committed before its      *)
(* target started (append_decision ahead of the next loop iteration).      *)
(***************************************************************************)
DecisionsFormPath ==
  \A j \in JobIds :
    LET d == decisions[j]
    IN /\ \A k \in DOMAIN d :
            d[k].node = IF k = 1 THEN Entry ELSE d[k - 1].target
       /\ \A n \in Nodes : StepExists(j, n) =>
            n = Entry \/ \E k \in DOMAIN d : d[k].target = n

(* A job is COMPLETED only at the end of a path that leads to Complete,    *)
(* every step of which is finished in some attempt.                        *)
CompletedFollowsPath ==
  \A j \in JobIds :
    jobs[j].status = "COMPLETED" =>
      LET d == decisions[j]
      IN /\ d # <<>>
         /\ d[Len(d)].target = "COMPLETED"
         /\ \A k \in DOMAIN d : d[k].node \in Nodes =>
              d[k].input # <<>> /\ IsFinished(steps[d[k].input[1]][d[k].node].status)

(* Completed work is not done twice: a step that completed in an attempt   *)
(* is started again in a later one only under allow_start_if_complete.     *)
CompletedStepNotRerun ==
  \A j, k \in JobIds, n \in Nodes \ AllowRerun :
    /\ j < k /\ jobs[j].inst = jobs[k].inst
    /\ steps[j][n].status = "COMPLETED"
    => ~StepExists(k, n)

(***************************************************************************)
(* History is never contradicted: two decisions of one instance for the    *)
(* same node on the same input agree, whether the second was reused,       *)
(* derived again from a completed step after a crash, or decided.          *)
(***************************************************************************)
DecisionsAgree ==
  \A j, k \in JobIds :
    jobs[j].inst = jobs[k].inst =>
      \A x \in DOMAIN decisions[j], y \in DOMAIN decisions[k] :
        LET d == decisions[j][x]
            e == decisions[k][y]
        IN d.node = e.node /\ d.input = e.input => d.code = e.code /\ d.target = e.target

(* No finished execution leaves an open step behind.                       *)
FinishedFlowClosedSteps ==
  \A j \in JobIds :
    IsFinished(jobs[j].status) =>
      \A n \in Nodes : ~IsRecoverable(steps[j][n].status)

(* The plan gate of create_job_execution is enough: no attempt it lets in  *)
(* is later refused a NotRestartable step, which would abort the launch    *)
(* and strand the execution in STARTED.                                    *)
PlanGateSuffices ==
  \A p \in Runners : At(p, "create_step") => StepRestartAllowed(p, flow[p].at)

(* Every unit of a flow launch is one of the repository's units.           *)
ImplementsRepository == RepoSpec

(* A lost commit response of a step is settled by a recovery decision      *)
(* only.                                                                   *)
LostStaysUnknown ==
  \A j \in lost :
    IsActive(jobs[j].status) \/ jobs[j].status = "UNKNOWN" \/ recoveries[j] # {}

(* A launched flow is eventually resolved unless its process dies, whatever *)
(* is stopped and whichever listeners fail: finish_job is never refused.   *)
FlowEventuallyResolved ==
  \A p \in Runners, j \in JobIds :
    JobOf(p) = j ~> ~IsActive(jobs[j].status) \/ At(p, "dead")
==============================================================================
