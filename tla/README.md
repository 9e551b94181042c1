# Verification of OxideBatch in TLA+

OxideBatch runs batch jobs whose progress is durable. A *job instance* (a name and its
identifying parameters) is run by a series of *job executions* (attempts); an attempt owns *step
executions*; a chunk step reads, processes and writes items in transactions that also record its
position. Processes die, answers to `COMMIT` get lost, operators stop, abandon and recover
executions, and recovery cannot tell a dead process from a slow one. This project states what
must stay true through all that, model-checks it on small instances with TLC and proves the
repository's part for instances of any size with TLAPS.

Source paths below are relative to `src/crates/` unless they start with `docs/`.

## 1. The system

| Part | Durable and volatile state | Operations | What is hard about it |
|---|---|---|---|
| Lifecycle (`oxide-batch-core/src/domain`) | status and version of a row | transition table, version check, row builders of recovery | recovery bypasses the table |
| Repository (`oxide-batch/src/repository`, `oxide-batch-repository`) | attempts, steps, decisions, owners, stop requests, recovery decisions, upgrade edges, component state | units of work committed by compare-and-swap (memory) or under row locks (PostgreSQL) | any two clients interleave; each holds only its own version |
| Job launcher (`oxide-batch/src/runtime.rs`) | versions last seen, stop token, outcome | about ten units with listeners and the tasklet in between | a poll advances a version behind the launcher; crash between two units; a listener fails after a lost commit |
| Flow launcher (`oxide-batch/src/flow.rs`) | node, decision being made, scopes | traversal of steps, deciders, splits, partitioned steps, nested jobs, repeat chains | crash between a step and its decision; reuse of older attempts; start limits |
| Chunk runtime (`oxide-batch/src/chunk_runtime.rs`) | open buffer, reader position, skips so far | read, process, write, commit, rollback, replay | a lost commit; budgets that span attempts; a late process next to its successor |
| Fault policy and fault state (`fault.rs`, `fault_state.rs`) | reserved retry ordinals, skip counts | classification, durable reservation | a crash between a reservation and the replay it paid for |
| Process shutdown (`shutdown.rs`) | phase, registered executions | admission, drain, deadlines | admission races the shutdown request |
| Operator and recovery services (`service/operator.rs`, `service/recovery.rs`) | operation ids, audit records, proposals | launch, restart, stop, abandon, recover | a repeated request after a lost answer; stale evidence |
| Retention (`service/retention.rs`) | holds, purge plans | hold, release, preview, purge | a purge changes which attempt is the latest |
| Partitions, nested jobs, repeat chains, forks, upgrades, scopes | plan rows, links, iterations, scope rows | create, assign, observe, finish, reuse | partial completion across attempts |
| Completion policies, item components | counters, reader positions | when a chunk ends; restart arithmetic | boundary cases |
| Explorer, telemetry, command line, test kit | none of their own | read-only or glue | out of scope |

The parts interact only through repository rows: the launchers, the operator and recovery
services and retention each read a row, decide, and commit a unit that the repository refuses
if the row moved. The in-process links are the stop token and the launcher's call into the
chunk runtime.

`PROJECT.json` lists every part with its status, the lines each definition models, and the
hazards of the code with the properties that would catch them.

## 2. Modules

```
Lifecycle            statuses, transition table, recovery row builders
  JobRepository      durable tables; one action per committed unit of work
    JobRepositoryProofs
    JobLauncher      one-step launches over the repository      -> MCJobLauncher
    FlowLauncher     flow launches over the repository          -> MCFlowLauncher
  (MCJobRepository)
ChunkStep            one chunk step and its restarts            -> MCChunkStep
```

**Lifecycle** holds `BatchStatus`, `IsLegalInPlaceTransition` (the table of `lifecycle.rs`),
`Transitioned` and the two recovery row builders, which do not consult the table.

**JobRepository** has `jobs`, `steps`, `nextJob`, `recoveries` and `upgrades`. An action is a
unit that committed: a unit works on a snapshot and either applies to the current rows or
changes nothing, so a losing unit is no step. Its guards are named `May...` and are what a
client tests to know that its unit would be refused. `RepoNext` lets any client issue any unit
at any time. It is the abstract specification the launcher modules implement.

**JobLauncher** gives each launching process a program counter and what the runtime keeps in
local variables: the job and step versions it last saw, the stop token and the outcome so far.
`Launch` creates attempt, owner and step row in one unit; `PollJob`, `BeforeJob`, `StartJob`,
`PollStep`, `BeforeStep`, `StartStep`, `TaskletProgress`, `TaskletReturns`, `AfterStep`,
`ReloadStep`, `FinishStep`, `AfterJob` and `FinishJob` follow `launch_created` in order, and
`MarkJobStopping`, `MarkStepStopping` are `stop_graph`. A refused unit ends the launch and leaves
the rows (`Refused`). `Crash` stands for a killed process, a dropped future, an unavailable
repository and, taken right after a unit, for a lost answer to it. `LaunchPrecreated` adopts the
child execution that a nested job's link created. `OperatorStop`, `OperatorAbandon` and
`OperatorRecover` act on the same rows; recovery may hit a live launch.

**FlowLauncher** adds the decision rows (`decisions`), recorded exit codes (`exits`) and the
traversal of `run_scope`: visit a node, look for a completed step or a decision to reuse, create,
start, run and finish a step, re-read it, append the decision, go on. The plan is a constant:
`Route` maps a node and an exit code to a node or a terminal. Step input digests are modelled by
what they depend on (`Digest`), so two decisions have the same digest exactly when they have the
same predecessor state.

**ChunkStep** models `execute_chunk_step` for one step of one instance over its attempts: `row`
is the durable step row (position, counts, reserved retries), `run` the volatile state of each
attempt's process, `effects` what writers made visible. A component returns an error of any
category that the policy tells apart (`Categories`), or answers by itself that it has stopped
(`ReadStops`, `ProcessStops`, `WriteStops`). `Decide` is the fault policy and `Classify` what may
come of it once the error and retry listeners had their turn: a failing listener, or the lack of
a fault runtime, fails the step whatever the category. A retry
is reserved durably (`ReserveRetry`) before the backoff and the replay. `run[p].lost` remembers
which commit became ambiguous, until a restart. `Rules`, `Filters`,
`Enlisted` (does the writer share the transaction?), `FinishChunk` (the stop policy), `Advances`
(does a failed read move the reader?), `EarlyClose` (may a completion policy close a chunk before
it is full?) and `Zombies` (may recovery give up a live process?) select the configuration.
`ChunkAssumption` requires what the reader documentation asks for: no retry rule for a reader
that has moved past the failed input.

## 3. Runs

All were run with two workers. Every passing property also has a mutant in `PROJECT.json`: a
plausible slip in one modelled definition under which TLC finds the property violated.

| Run | Instance | Distinct states | Checks |
|---|---|---|---|
| `repository` | arbitrary clients; 3 attempts, 2 definitions, versions to 3; or 1 attempt with a step, 2 owners, versions to 5 | 259,980 | `RepoTypeOK`, `SupersededIsClosed`, `DefinitionContinuity`, `RecoveryIsFinal`, `OwnerNeverStolen`, `FinishedStepFrozen` |
| `launcher` | 2 launchers (1 controlled), 1 attempt, everything enabled | 43,125 | `LaunchTypeOK`, `FinishedJobClosedSteps`, `VerdictAgrees`, `ImplementsRepository`, `EventuallyResolved` |
| `launcher_restart` | 2 launchers, 2 attempts, crashes, stops, abandons, recoveries | 633,681 | `TaskletExclusive`, `AmbiguityPreserved` |
| `flow_restart` | 1 runner, 3 attempts, steps and a decider, crashes and recoveries | 253,023 | `FlowTypeOK`, `DecisionsFormPath`, `CompletedFollowsPath`, `CompletedStepNotRerun`, `DecisionsAgree` |
| `flow_controlled` | 1 controlled runner, 2 attempts, stops, abandons, crashes, a step that may not be restarted | 138,057 | `FinishedFlowClosedSteps`, `PlanGateSuffices`, `ImplementsRepository`, `FlowEventuallyResolved` |
| `chunk` | 3 inputs in chunks of 2, 2 attempts, enlisted writer, `FinishChunk` | 137,718 | `ChunkTypeOK`, `ExactlyOnce`, `CountsAccount`, `SkipBudget`, `RetryBudget`, `AmbiguityKept`, `CompletedMeansAll`, `AttemptEnds` |
| `chunk_zombie` | 2 inputs, recovery gives up live processes | 271,270 | `ExactlyOnce`, `RetryBudget` |
| `chunk_at_least_once` | 2 inputs, writer outside the transaction, early close, filter, `RollbackChunk` | 360,068 | `NothingLost`, `CountsAccount` |
| `flow_stopped`, `flow_lost`, `chunk_stopped`, `chunk_reported` | smallest instances | | one documented statement each, violated (section 6) |

What they show, by theme:

- *One attempt at a time.* Only the latest attempt of an instance is ever open, whoever creates,
  transitions, recovers and abandons (`SupersededIsClosed`); two live launches run the tasklet of
  one instance only if an operator recovered one of them (`TaskletExclusive`).
- *Late writers.* What recovery settled stays settled and a finished step row is frozen.
- *Agreement.* Job and step rows, written by different units, agree once the job is finished.
- *Ambiguity.* A lost commit response stays open or `UNKNOWN` until someone decides
  (`AmbiguityPreserved` for tasklets, `AmbiguityKept` for the `COMMIT` of a chunk). It does not
  hold of an `UnknownCommit` that a writer reports (`chunk_reported`, section 6).
- *Restart of flows.* The decisions of an attempt are a path of the plan; completed work is not
  repeated; a decision for the same node on the same input is never contradicted.
- *Chunks.* With an enlisted writer each input before the position is written exactly once or
  skipped or filtered, through crashes, lost commits, replays and zombies; without one nothing is
  lost. Counts and budgets hold over the whole chain of attempts.
- *Progress.* A launch that is not killed resolves its execution; a chunk attempt ends.

**Bounds.** `MaxExecutions` bounds attempts and `MaxVersion` the version of a row; the units
check the version bound as the code checks its integer increment. Two attempts are what a
restart takes, three are needed for "reuse from an attempt that is not the previous one". Two
launchers are what a race takes. Three inputs in chunks of two give a full chunk, a short one and
an end of input inside a chunk; with two inputs `EarlyClose` gives the chunk boundary. `RetryLimit`
1 and `SkipLimit` 1 are reached and exceeded. Deadlock checking is off: with the bounds used up
and every execution closed these systems have nothing left to do.

`MCJobRepository` runs the repository in two scenarios, each a restriction of `RepoNext`: a
history of attempts (job rows and upgrades only) and one attempt in depth (its step row, owners,
late writers). One instance with both at once is too large for TLC; the theorems of section 4
have no such split.

**Symmetry** is used only in the repository run, over constants that appear in no `CHOOSE` and
under safety properties only.

**Fairness.** `LaunchSpec`, `FlowSpec` and `FairSpec` assume weak fairness of the steps a process
takes by itself. The runtime polls a launch future until it is ready, and tasklets, listeners and
components are assumed to return. Nothing obliges a stop, crash, recovery or restart to happen,
and a process that died ("dead") is excused.

## 4. Proofs

`JobRepositoryProofs` proves, for every set of instances, nodes, definitions and owners and every
bound, from `RepositoryAssumption` only (the bounds are naturals, `None` is not a value):

| Theorem | States |
|---|---|
| `TypeCorrect` | `RepoSpec => []RepoTypeOK` |
| `OneOpenAttempt` | `RepoSpec => []SupersededIsClosed` |
| `DefinitionsContinuous` | `RepoSpec => []DefinitionContinuity` |
| `RecoverySettles` | `RepoSpec => []RecoveryIsFinal` |
| `FinishedStepsStay` | `RepoSpec => FinishedStepFrozen` |
| `OwnershipPermanent` | `RepoSpec => OwnerNeverStolen` |

The inductive invariant is `AttemptsInv`: types, ids handed out in order, `SupersededIsClosed`
and `DefinitionContinuity` together. `SupersededIsClosed` is not inductive alone: the creation
gate looks at the latest attempt only, so that the earlier ones are closed is the induction
hypothesis, and that the new attempt is the latest needs `IdsInOrder`. All units other than
creation are reduced to one relation, `Moves(r, s)`: instance and definition stay, the version
does not go back, and the status changes by the table or by recovery. `JobUnitMoves` and
`StepUnitMoves` show it of each unit, `MovesKeepAttempts` and `CreateKeepsAttempts` use it.
`RecoverySettles` adds that a decided row is closed and `Moves` cannot reopen it. `FinishedStepsStay`
and `OwnershipPermanent` are action properties proved from the same invariant. The launcher runs
check `ImplementsRepository` on their instances, which carries these theorems over to launches.

Only model-checked: the launcher, flow and chunk properties; liveness; and the refinements
`ImplementsRepository`.

## 5. Limits of the models

- `JobRepository` follows the in-memory adapter; where PostgreSQL differs in what it accepts
  (restart source of a step, row locks) the difference is noted in the hazards.
- `FinishedFlowClosedSteps` is checked where recovery only settles launches that are gone, as
  the runbook asks. A flow launch that is still alive can insert a step row under an execution
  that recovery has just closed; the documents do not say what such a row means.
- In `FlowLauncher` a plan has steps and deciders. Splits, partitioned steps, nested jobs, custom
  leaves and repeat chains are not there yet.
- `ChunkStep` uses the durable (PostgreSQL) retry store. The process-local store says of itself
  that it does not survive a restart.
- Payloads, encodings, digests, backoff durations and listener wiring are data or failure choices.

## 6. Where code and documents disagree

- `flow_lost`: a failing after-step listener turns a flow step whose commit response was lost
  into `FAILED` (`oxide-batch/src/flow.rs:5196`), which
  `docs/compatibility/execution-semantics.md:115` says becomes `UNKNOWN`. The one-step launcher
  guards the same assignment.
- `flow_stopped`: a stop observed while a step fails, in a plan that completes after that
  failure, leaves the execution `STOPPING`: the launcher asks for `STOPPING -> COMPLETED`, which
  the table refuses (`flow.rs:4414`; `docs/architecture/shutdown-and-recovery.md:111`).
  `flow_controlled` shows progress for plans without such a route.
- `chunk_stopped`: `FinishChunk` protects one attempt of a chunk, not its replay, so a stopped
  step may leave the open chunk uncommitted (`chunk_runtime.rs:1659`;
  `docs/architecture/shutdown-and-recovery.md:72`). `docs/architecture/fault-tolerance.md:114`
  says otherwise than that page: stop is checked before the reservation, around the wait and
  before reinvocation, which then does not happen. The code agrees with it about reinvocation,
  while under `FinishChunk` the earlier checks do not see the stop. Nothing is lost.
- `chunk_reported`: when a writer reports `UnknownCommit`, a failing `on_write_error`,
  `after_retry` or `on_retry_exhausted` listener (`chunk_runtime.rs:2725`, `3100-3134`), or a step
  without a fault runtime (`3114`), is rolled back and ends `FAILED`.
  `docs/architecture/fault-tolerance.md:56` says "`UnknownCommit` always produces `UNKNOWN`" and
  line 148 that it "is never rolled back, retried, skipped, or guessed."
- Not a run: `docs/architecture/fault-tolerance.md:284` says only components that have not yet
  succeeded are re-invoked by a replay. `process_phase` calls the processor for every slot that is
  not skipped (`chunk_runtime.rs:2422`), and `ProcessItem` models that.

## 7. Plan

Done: lifecycle, repository and its proofs, one-step launcher, flow traversal, chunk step.

Next, in this order:

1. `OperatorService`: operation ids, replay of recorded answers, audit, and recovery proposals
   with stale evidence, over `JobRepository`. Property: a request is carried out at most once
   and every answer agrees with the record. Abstract specification: a request is pending, then
   answered once.
2. `Retention`: holds, eligibility and purge over `JobRepository` extended with removal.
   Properties: no held or open execution is purged, a purge keeps the creation gate meaningful.
3. `Shutdown`: admission, drain and deadlines. Properties: no execution is admitted unseen by a
   drain; the shutdown ends.
4. `PartitionedStep`: plan, assignment, aggregation and restart. Property: the aggregate speaks
   of every partition, finished partitions are not run again.
5. Nested jobs, repeat chains and scopes in the flow; completion policies as operators checked
   against a reference; the restart sources of PostgreSQL.
6. Proofs: `ExactlyOnce`, `CountsAccount` and the budgets of `ChunkStep`; `ImplementsRepository`
   for the launchers; `DecisionsFormPath`; the operator's at-most-once property.
