----------------------------- MODULE JobLauncher -----------------------------
(***************************************************************************)
(* JobLauncher: the runtime of a one-step tasklet job, one process per     *)
(* launch, against the shared repository, together with what the operator  *)
(* and the recovery service do to the same rows meanwhile.                 *)
(* Source: crates/oxide-batch/src/runtime.rs.                              *)
(*                                                                         *)
(* A launch is a sequence of units of work with user code in between: the  *)
(* launcher keeps the versions it last saw (jver, sver) and every unit     *)
(* compares them.  A unit that is refused, or whose commit fails, ends the *)
(* launch with an error and leaves the rows as they are.                   *)
(***************************************************************************)
EXTENDS JobRepository

CONSTANTS
  Launchers,    \* launching processes
  Controlled,   \* the launchers configured with with_execution_control
  Step,         \* the job's only step
  MaxProgress   \* bound: version up to which a tasklet commits progress

ASSUME LauncherAssumption ==
  /\ Controlled \subseteq Launchers
  /\ Controlled \subseteq Owners
  /\ Step \in Nodes
  /\ MaxProgress \in Nat

VARIABLES
  run,        \* launcher -> where its launch is and what it remembers
  linked,     \* executions created by another unit for a launcher to adopt
  ambiguous   \* history: executions whose tasklet lost a commit response

launchVars == <<run, linked, ambiguous>>
vars == <<jobs, steps, nextJob, recoveries, upgrades, run, linked, ambiguous>>

Outcomes == {"COMPLETED", "STOPPED", "FAILED", "UNKNOWN"}

Labels ==
  {"idle", "dead", "poll_job", "before_job", "start_job", "poll_step", "before_step",
   "start_step", "tasklet", "after_step", "reload_step", "finish_step",
   "finish_unstarted", "after_job", "finish_job",
   "stop_job", "stop_step", "stop_finish_step"}

Idle ==
  [pc |-> "idle", job |-> 0, jver |-> 0, sver |-> 0, stop |-> FALSE,
   outcome |-> None]

At(p, label) == run[p].pc = label

(* p has no launch under way; at "dead" the last one did not return.       *)
Free(p) == At(p, "idle") \/ At(p, "dead")

JobOf(p) == run[p].job

(* The per-process owner token, recorded only under execution control.     *)
Token(p) == IF p \in Controlled THEN p ELSE None

Goto(p, label) == run' = [run EXCEPT ![p].pc = label]

(* The launch returns, with a report or with an error.                     *)
Return(p) == run' = [run EXCEPT ![p] = Idle]

(* A unit of p was refused: the error propagates with `?'.                 *)
Refused(p) == Return(p) /\ UNCHANGED repoVars

-----------------------------------------------------------------------------
(* create_execution_graph: attempt, owner and step row in one unit.        *)
Launch(p) ==
  /\ Free(p)
  /\ \E i \in Instances, d \in Definitions, u \in Upgrades :
       CreateExecution(i, d, u, Token(p), {Step})
  /\ run' = [run EXCEPT ![p] = [Idle EXCEPT !.pc = "poll_job", !.job = NewJob]]
  /\ UNCHANGED <<linked, ambiguous>>

LaunchPrecreatedForgetful(p) ==
  /\ Free(p)
  /\ \E j \in linked : AdoptExecution(j, Step, Token(p))
  /\ Goto(p, "poll_job")
  /\ UNCHANGED <<linked, ambiguous>>

(* launch_precreated: the child execution of a nested job, adopted by the  *)
(* parent's flow, and again by its next attempt while still STARTING.      *)
LaunchPrecreated(p) ==
  /\ Free(p)
  /\ \E j \in linked :
       /\ AdoptExecution(j, Step, Token(p))
       /\ run' = [run EXCEPT ![p] =
                    [Idle EXCEPT !.pc = "poll_job", !.job = j,
                                 !.jver = jobs[j].ver, !.sver = steps'[j][Step].ver]]
  /\ UNCHANGED <<linked, ambiguous>>

(***************************************************************************)
(* poll_execution_control: one unit that may move the job to STOPPING; the *)
(* stop flag it returns sets the in-process stop token.  The launcher does *)
(* not take over the version the poll may have advanced.                   *)
(***************************************************************************)
Observed(p) == p \in Controlled /\ jobs[JobOf(p)].stop

Poll(p) ==
  IF p \in Controlled
    THEN ObserveExecutionControl(JobOf(p), p)
    ELSE UNCHANGED repoVars

StopSeen(p) == run[p].stop \/ Observed(p)

PollBefore(p, here, go, stopped) ==
  /\ At(p, here)
  /\ Poll(p)
  /\ run' = [run EXCEPT ![p].pc = IF StopSeen(p) THEN stopped ELSE go,
                        ![p].stop = StopSeen(p)]
  /\ UNCHANGED <<linked, ambiguous>>

PollJob(p) == PollBefore(p, "poll_job", "before_job", "stop_job")

PollStep(p) == PollBefore(p, "poll_step", "before_step", "stop_job")

(* A listener ahead of the work succeeds, or fails the launch.             *)
BeforeListeners(p, here, go, failed) ==
  /\ At(p, here)
  /\ \/ Goto(p, go)
     \/ run' = [run EXCEPT ![p].pc = failed, ![p].outcome = "FAILED"]
  /\ UNCHANGED <<repoVars, linked, ambiguous>>

BeforeJob(p) == BeforeListeners(p, "before_job", "start_job", "finish_unstarted")

BeforeStep(p) == BeforeListeners(p, "before_step", "start_step", "finish_step")

StartJob(p) ==
  /\ At(p, "start_job")
  /\ \/ /\ TransitionJob(JobOf(p), run[p].jver, "STARTED")
        /\ run' = [run EXCEPT ![p].pc = "poll_step", ![p].jver = @ + 1]
     \/ /\ ~MayTransitionJob(JobOf(p), run[p].jver, "STARTED")
        /\ Refused(p)
  /\ UNCHANGED <<linked, ambiguous>>

StartStep(p) ==
  /\ At(p, "start_step")
  /\ \/ /\ TransitionStep(JobOf(p), Step, run[p].sver, "STARTED")
        /\ Goto(p, "tasklet")
     \/ /\ ~MayTransitionStep(JobOf(p), Step, run[p].sver, "STARTED")
        /\ Refused(p)
  /\ UNCHANGED <<linked, ambiguous>>

(* invoke_with_execution_control: polls go on while the tasklet runs.      *)
PollTasklet(p) ==
  /\ p \in Controlled
  /\ PollBefore(p, "tasklet", "tasklet", "tasklet")

(* The tasklet commits progress of its step under the current version.     *)
TaskletProgress(p) ==
  /\ At(p, "tasklet")
  /\ steps[JobOf(p)][Step].ver < MaxProgress
  /\ CommitStepProgress(JobOf(p), Step, steps[JobOf(p)][Step].ver)
  /\ UNCHANGED launchVars

(* What the tasklet returned becomes an outcome: completed work counts as  *)
(* stopped when a stop was requested, and a lost commit response is        *)
(* UNKNOWN.                                                                *)
ProvisionalOutcome(result, stop) ==
  IF result = "COMPLETED" /\ stop THEN "STOPPED" ELSE result

TaskletReturns(p) ==
  /\ At(p, "tasklet")
  /\ \E result \in Outcomes :
       /\ run' = [run EXCEPT ![p].pc = "after_step",
                             ![p].outcome = ProvisionalOutcome(result, run[p].stop)]
       /\ ambiguous' = IF result = "UNKNOWN"
                         THEN ambiguous \cup {JobOf(p)} ELSE ambiguous
  /\ UNCHANGED <<repoVars, linked>>

OutcomeAfterListenersAlways(outcome, failed) ==
  IF failed THEN "FAILED" ELSE outcome

(* A failing listener behind the work turns the outcome into FAILED unless *)
(* it is UNKNOWN.                                                          *)
OutcomeAfterListeners(outcome, failed) ==
  IF failed /\ outcome # "UNKNOWN" THEN "FAILED" ELSE outcome

AfterListeners(p, here, go) ==
  /\ At(p, here)
  /\ \E failed \in BOOLEAN :
       run' = [run EXCEPT ![p].pc = go,
                          ![p].outcome = OutcomeAfterListeners(@, failed)]
  /\ UNCHANGED <<repoVars, linked, ambiguous>>

AfterStep(p) == AfterListeners(p, "after_step", "reload_step")

AfterJobForgetful(p) ==
  /\ At(p, "after_job")
  /\ \E o \in {"COMPLETED", "FAILED"} :
       run' = [run EXCEPT ![p].pc = "finish_job", ![p].outcome = o]
  /\ UNCHANGED <<repoVars, linked, ambiguous>>

AfterJob(p) == AfterListeners(p, "after_job", "finish_job")

(* reload_step: the version the tasklet left, read in a unit of its own.   *)
ReloadStep(p) ==
  /\ At(p, "reload_step")
  /\ run' = [run EXCEPT ![p].pc = "finish_step",
                        ![p].sver = steps[JobOf(p)][Step].ver]
  /\ UNCHANGED <<repoVars, linked, ambiguous>>

FinishStepAt(p, here, go) ==
  /\ At(p, here)
  /\ \/ /\ FinishStepRow(JobOf(p), Step, run[p].sver, run[p].outcome)
        /\ Goto(p, go)
     \/ /\ ~MayFinishStep(JobOf(p), Step, run[p].sver, run[p].outcome)
        /\ Refused(p)
  /\ UNCHANGED <<linked, ambiguous>>

FinishStep(p) ==
  \/ FinishStepAt(p, "finish_step", "after_job")
  \/ FinishStepAt(p, "finish_unstarted", "finish_job")
  \/ FinishStepAt(p, "stop_finish_step", "finish_job")

CurrentJobVersionRemembered(p) == run[p].jver

(* The version finish_job and mark_job_stopping write against: re-read     *)
(* under execution control, remembered otherwise.                          *)
CurrentJobVersion(p) ==
  IF p \in Controlled THEN jobs[JobOf(p)].ver ELSE run[p].jver

FinishJob(p) ==
  /\ At(p, "finish_job")
  /\ \/ /\ FinishJobRow(JobOf(p), CurrentJobVersion(p), run[p].outcome)
        /\ Return(p)
     \/ /\ ~MayFinishJob(JobOf(p), CurrentJobVersion(p), run[p].outcome)
        /\ Refused(p)
  /\ UNCHANGED <<linked, ambiguous>>

(* stop_graph, first unit: a poll may already have moved the job.          *)
MarkJobStopping(p) ==
  /\ At(p, "stop_job")
  /\ \/ /\ p \in Controlled
        /\ jobs[JobOf(p)].status = "STOPPING"
        /\ Goto(p, "stop_step")
        /\ UNCHANGED repoVars
     \/ /\ TransitionJob(JobOf(p), CurrentJobVersion(p), "STOPPING")
        /\ run' = [run EXCEPT ![p].pc = "stop_step",
                              ![p].jver = CurrentJobVersion(p) + 1]
     \/ /\ ~(p \in Controlled /\ jobs[JobOf(p)].status = "STOPPING")
        /\ ~MayTransitionJob(JobOf(p), CurrentJobVersion(p), "STOPPING")
        /\ Refused(p)
  /\ UNCHANGED <<linked, ambiguous>>

MarkStepStopping(p) ==
  /\ At(p, "stop_step")
  /\ \/ /\ TransitionStep(JobOf(p), Step, run[p].sver, "STOPPING")
        /\ run' = [run EXCEPT ![p].pc = "stop_finish_step", ![p].sver = @ + 1,
                              ![p].outcome = "STOPPED"]
     \/ /\ ~MayTransitionStep(JobOf(p), Step, run[p].sver, "STOPPING")
        /\ Refused(p)
  /\ UNCHANGED <<linked, ambiguous>>

(* The application's stop source, or the process shutdown signal.          *)
RequestStop(p) ==
  /\ ~Free(p)
  /\ ~run[p].stop
  /\ run' = [run EXCEPT ![p].stop = TRUE]
  /\ UNCHANGED <<repoVars, linked, ambiguous>>

(***************************************************************************)
(* The process dies, the launch future is dropped, or a unit fails: begin  *)
(* or a read is unavailable, the memory adapter reports a concurrent       *)
(* modification, or a commit response is lost (the unit's own step, then   *)
(* this one).                                                              *)
(***************************************************************************)
Crash(p) ==
  /\ ~Free(p)
  /\ run' = [run EXCEPT ![p] = [Idle EXCEPT !.pc = "dead"]]
  /\ UNCHANGED <<repoVars, linked, ambiguous>>
-----------------------------------------------------------------------------
(* What other processes do to the same rows.                               *)

(* create_nested_job_link: the child attempt, without a step row.          *)
CreateLinked ==
  /\ \E i \in Instances, d \in Definitions : CreateExecution(i, d, None, None, {})
  /\ linked' = linked \cup {NewJob}
  /\ UNCHANGED <<run, ambiguous>>

(* JobOperator::stop records the request while STARTING or STARTED.        *)
OperatorStop(j) ==
  /\ jobs[j].status \in {"STARTING", "STARTED"}
  /\ RequestExecutionStop(j, jobs[j].ver)
  /\ UNCHANGED launchVars

OperatorAbandonUnreviewed(j) ==
  /\ TransitionJob(j, jobs[j].ver, "ABANDONED")
  /\ UNCHANGED launchVars

OperatorAbandon(j) ==
  /\ AbandonExecution(j, jobs[j].ver)
  /\ UNCHANGED launchVars

(* The recovery service cannot tell a dead launcher from a slow one.       *)
OperatorRecover(j) ==
  /\ \E d \in RecoveryDispositions : RecoverJobExecution(j, jobs[j].ver, d)
  /\ UNCHANGED launchVars
-----------------------------------------------------------------------------
LaunchInit ==
  /\ RepoInit
  /\ run = [p \in Launchers |-> Idle]
  /\ linked = {}
  /\ ambiguous = {}

(* The steps a launch takes by itself once begun.                          *)
LaunchStep(p) ==
  \/ PollJob(p) \/ BeforeJob(p) \/ StartJob(p) \/ PollStep(p) \/ BeforeStep(p)
  \/ StartStep(p) \/ PollTasklet(p) \/ TaskletProgress(p) \/ TaskletReturns(p)
  \/ AfterStep(p) \/ ReloadStep(p) \/ FinishStep(p) \/ AfterJob(p)
  \/ FinishJob(p) \/ MarkJobStopping(p) \/ MarkStepStopping(p)

(* Launches, crashes, stops and what an operator does about them: the part *)
(* of LaunchNext that restarting an instance takes, without operator stops *)
(* and nested children.                                                    *)
RestartNext ==
  \/ \E p \in Launchers : Launch(p) \/ LaunchStep(p) \/ Crash(p) \/ RequestStop(p)
  \/ \E j \in JobIds : OperatorAbandon(j) \/ OperatorRecover(j)

LaunchNext ==
  \/ RestartNext
  \/ CreateLinked
  \/ \E p \in Launchers : LaunchPrecreated(p)
  \/ \E j \in JobIds : OperatorStop(j)

RestartSpec == LaunchInit /\ [][RestartNext]_vars

(***************************************************************************)
(* The launch future is polled until it is ready, so each launch takes its *)
(* next step: tasklets and listeners are assumed to return.                *)
(***************************************************************************)
LaunchSpec ==
  /\ LaunchInit
  /\ [][LaunchNext]_vars
  /\ \A p \in Launchers : WF_vars(LaunchStep(p))
-----------------------------------------------------------------------------
LaunchTypeOK ==
  /\ RepoTypeOK
  /\ run \in [Launchers ->
       [pc : Labels, job : 0..MaxExecutions, jver : 0..MaxVersion,
        sver : 0..MaxVersion, stop : BOOLEAN, outcome : Outcomes \cup {None}]]
  /\ \A p \in Launchers : Free(p) \/ JobOf(p) \in JobIds
  /\ linked \subseteq JobIds
  /\ ambiguous \subseteq JobIds

(***************************************************************************)
(* Two launches run the tasklet of one instance at the same time only when *)
(* an operator recovered the execution of one of them while it was alive:  *)
(* the creation gate and start_job's version check together are the mutual *)
(* exclusion of the runtime.  (OwnerNeverStolen is about the claim of a    *)
(* precreated execution.)                                                  *)
(***************************************************************************)
TaskletExclusive ==
  \A p, q \in Launchers :
    /\ p # q
    /\ At(p, "tasklet") /\ At(q, "tasklet")
    /\ jobs[JobOf(p)].inst = jobs[JobOf(q)].inst
    => recoveries[JobOf(p)] # {} \/ recoveries[JobOf(q)] # {}

(***************************************************************************)
(* A lost commit response is never settled by the runtime: the execution   *)
(* stays open or UNKNOWN, which no ordinary launch may follow, until a     *)
(* recovery decision is on record.  Listener failures and stop requests do *)
(* not hide it.                                                            *)
(***************************************************************************)
AmbiguityPreserved ==
  \A j \in ambiguous :
    \/ IsActive(jobs[j].status)
    \/ jobs[j].status = "UNKNOWN"
    \/ recoveries[j] # {}

(* No finished execution leaves an open or UNKNOWN step behind, wherever   *)
(* the launch crashed and whoever closed it (order of finish_step and      *)
(* finish_job; recovery closing the children).                             *)
FinishedJobClosedSteps ==
  \A j \in JobIds :
    IsFinished(jobs[j].status) =>
      \A n \in Nodes : ~IsRecoverable(steps[j][n].status)

(***************************************************************************)
(* The job's verdict is the step's: an execution is COMPLETED, STOPPED or  *)
(* UNKNOWN only over a step row that says the same, although the two rows  *)
(* are written by different units with listeners, stops and crashes in     *)
(* between (order of finish_step and finish_job, stop_graph).              *)
(***************************************************************************)
VerdictAgrees ==
  \A j \in JobIds :
    jobs[j].status \in {"COMPLETED", "STOPPED", "UNKNOWN"} =>
      steps[j][Step].status = jobs[j].status

(* Every unit a launcher, an operator or recovery commits is one of the    *)
(* repository's units, so what holds of RepoSpec holds here.               *)
ImplementsRepository == RepoSpec

(***************************************************************************)
(* An execution a launcher created is eventually resolved unless its       *)
(* launch crashed: no combination of listener failures, in-process and     *)
(* operator stop requests, abandons and recoveries makes a launch's own    *)
(* units refuse each other.  A nested child is left out: nothing prevents  *)
(* two parents from adopting it, and then neither need resolve it.         *)
(***************************************************************************)
EventuallyResolved ==
  \A p \in Launchers, j \in JobIds :
    JobOf(p) = j /\ j \notin linked ~> ~IsActive(jobs[j].status) \/ At(p, "dead")
==============================================================================
