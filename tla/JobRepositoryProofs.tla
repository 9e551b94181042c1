------------------------- MODULE JobRepositoryProofs -------------------------
(***************************************************************************)
(* Proofs about the repository for any number of instances, nodes,         *)
(* definitions, owners and executions, and any version width.              *)
(***************************************************************************)
EXTENDS JobRepository, TLAPS

(* The lifecycle table never leads out of the closed statuses except to    *)
(* ABANDONED, and never leads back to STARTING.                            *)
LEMMA TableClosed ==
  ASSUME NEW from, NEW to, IsLegalInPlaceTransition(from, to)
  PROVE  /\ from \in BatchStatus
         /\ to \in BatchStatus \ {"STARTING"}
         /\ from \in {"STOPPED", "FAILED"} => to = "ABANDONED"
         /\ from \notin {"COMPLETED", "ABANDONED"}
BY Zenon DEF IsLegalInPlaceTransition, BatchStatus

(* What each way of rewriting a job row does to it, when the row is typed. *)
LEMMA TransitionedTyped ==
  ASSUME NEW row \in JobRow, NEW to \in BatchStatus, row.ver + 1 <= MaxVersion
  PROVE  Transitioned(row, to) \in JobRow
<1>1. row.ver + 1 \in 0..MaxVersion
  BY RepositoryAssumption DEF JobRow
<1> QED
  BY <1>1, Zenon DEF JobRow, Transitioned

(* Rewriting the exit status, which advances the version, keeps a row      *)
(* typed.                                                                  *)
LEMMA EnrichedTyped ==
  ASSUME NEW row \in JobRow, row.ver + 1 <= MaxVersion
  PROVE  Enriched(row) \in JobRow
<1>1. row.ver + 1 \in 0..MaxVersion
  BY RepositoryAssumption DEF JobRow
<1> QED
  BY <1>1, Zenon DEF JobRow, Enriched

(* So do recording an owner and recording a stop request.                  *)
LEMMA OwnedAndStopped ==
  ASSUME NEW row \in JobRow, NEW o \in Owners \cup {None}
  PROVE  /\ [row EXCEPT !.owner = o] \in JobRow
         /\ [row EXCEPT !.stop = TRUE] \in JobRow
<1>1. [row EXCEPT !.owner = o] \in JobRow
  BY Zenon DEF JobRow
<1>2. [row EXCEPT !.stop = TRUE] \in JobRow
  BY Zenon DEF JobRow
<1> QED
  BY <1>1, <1>2, Zenon

(* Creating an attempt keeps every variable typed.                         *)
LEMMA CreateTyped ==
  ASSUME RepoTypeOK, CreateUnit
  PROVE  RepoTypeOK'
<1>1. PICK i \in Instances, d \in Definitions, u \in Upgrades,
           o \in Owners \cup {None}, s \in SUBSET Nodes :
        CreateExecution(i, d, u, o, s)
  BY Zenon DEF CreateUnit
<1>2. nextJob < MaxExecutions /\ NewJob \in JobIds /\ nextJob' \in 0..MaxExecutions
  BY <1>1, RepositoryAssumption
  DEF CreateExecution, MayCreate, NewJob, JobIds, RepoTypeOK
<1>3. StartingJob(i, d, o) \in JobRow
  BY RepositoryAssumption DEF StartingJob, JobRow, BatchStatus
<1>4. jobs' \in [JobIds -> JobRow]
  BY <1>1, <1>2, <1>3, Zenon DEF CreateExecution, RepoTypeOK
<1>5. [n \in Nodes |-> IF n \in s THEN StartingStep ELSE NoStep] \in [Nodes -> StepRow]
  BY RepositoryAssumption DEF StartingStep, NoStep, StepRow, BatchStatus
<1>6. steps' \in [JobIds -> [Nodes -> StepRow]]
  BY <1>1, <1>2, <1>5, Zenon DEF CreateExecution, RepoTypeOK
<1> QED
  BY <1>1, <1>2, <1>4, <1>6, Zenon DEF CreateExecution, RepoTypeOK

(* The units of one job row keep every variable typed.                     *)
LEMMA JobTyped ==
  ASSUME RepoTypeOK, NEW j \in JobIds, JobUnit(j)
  PROVE  RepoTypeOK'
<1> jobs[j] \in JobRow
  BY Zenon DEF RepoTypeOK
<1> /\ RunningTargets \subseteq BatchStatus
    /\ FinalTargets \subseteq BatchStatus
    /\ RecoveryDispositions \subseteq BatchStatus
  BY Zenon DEF RunningTargets, FinalTargets, RecoveryDispositions, BatchStatus
<1>a. ASSUME NEW to \in BatchStatus, TransitionJob(j, jobs[j].ver, to)
      PROVE  RepoTypeOK'
  <2>1. Transitioned(jobs[j], to) \in JobRow
    BY <1>a, TransitionedTyped, Zenon DEF TransitionJob, MayTransitionJob
  <2> QED
    BY <1>a, <2>1, Zenon DEF TransitionJob, RepoTypeOK
<1>1. CASE \E to \in RunningTargets : TransitionJob(j, jobs[j].ver, to)
  BY <1>1, <1>a, Zenon
<1>2. CASE \E to \in FinalTargets : FinishJobRow(j, jobs[j].ver, to)
  <2>1. PICK to \in FinalTargets : FinishJobRow(j, jobs[j].ver, to)
    BY <1>2, Zenon
  <2>2. jobs[j].ver \in Nat /\ jobs[j].ver + 1 <= MaxVersion /\ jobs[j].ver + 2 <= MaxVersion
    BY <2>1, RepositoryAssumption DEF FinishJobRow, MayFinishJob, JobRow
  <2>3. Enriched(jobs[j]) \in JobRow /\ Enriched(jobs[j]).ver = jobs[j].ver + 1
    BY <2>2, EnrichedTyped, Zenon DEF Enriched, JobRow
  <2>4. Transitioned(Enriched(jobs[j]), to) \in JobRow
    BY <2>2, <2>3, TransitionedTyped
  <2> QED
    BY <2>1, <2>4, Zenon DEF FinishJobRow, RepoTypeOK
<1>3. CASE RequestExecutionStop(j, jobs[j].ver)
  BY <1>3, OwnedAndStopped, Zenon DEF RequestExecutionStop, RepoTypeOK
<1>4. CASE \E o \in Owners : ObserveExecutionControl(j, o)
  <2>1. PICK o \in Owners : ObserveExecutionControl(j, o)
    BY <1>4, Zenon
  <2>2. ObservedControl(jobs[j], o) \in JobRow
    <3>1. CASE ObservedControl(jobs[j], o) = jobs[j]
      BY <3>1, Zenon
    <3>2. CASE ObservedControl(jobs[j], o) = Transitioned(jobs[j], "STOPPING")
      <4>1. jobs[j].ver + 1 <= MaxVersion
        BY <2>1, <3>2, Zenon DEF ObserveExecutionControl, Transitioned, JobRow
      <4> QED
        BY <3>2, <4>1, TransitionedTyped, Zenon DEF BatchStatus
    <3> QED
      BY <3>1, <3>2, Zenon DEF ObservedControl
  <2> QED
    BY <2>1, <2>2, Zenon DEF ObserveExecutionControl, RepoTypeOK
<1>5. CASE \E r \in RecoveryDispositions : RecoverJobExecution(j, jobs[j].ver, r)
  <2>1. PICK r \in RecoveryDispositions : RecoverJobExecution(j, jobs[j].ver, r)
    BY <1>5, Zenon
  <2>2. Transitioned(jobs[j], r) \in JobRow
    BY <2>1, TransitionedTyped, Zenon DEF RecoverJobExecution
  <2>3. ASSUME NEW n \in Nodes
        PROVE  RecoveredStep(steps[j][n], r) \in StepRow
    <3>1. steps[j][n] \in StepRow
      BY Zenon DEF RepoTypeOK
    <3>2. RecoveredStep(steps[j][n], r).ver <= MaxVersion
      BY <2>1, Zenon DEF RecoverJobExecution
    <3>3. CASE IsRecoverable(steps[j][n].status)
      <4>1. RecoveredStep(steps[j][n], r)
              = [steps[j][n] EXCEPT !.status = r, !.ver = steps[j][n].ver + 1]
        BY <3>3, Zenon DEF RecoveredStep, Transitioned
      <4>2. steps[j][n].ver + 1 <= MaxVersion
        BY <3>1, <3>2, <4>1, Zenon DEF StepRow
      <4>3. steps[j][n].ver + 1 \in 0..MaxVersion
        BY <3>1, <4>2, RepositoryAssumption DEF StepRow
      <4> QED
        BY <3>1, <4>1, <4>3, Zenon DEF StepRow
    <3> QED
      BY <3>1, <3>3, Zenon DEF RecoveredStep
  <2>4. [ver |-> jobs[j].ver, prior |-> jobs[j].status, result |-> r] \in RecoveryDecision
    <3>1. jobs[j].status \in BatchStatus
      BY <2>1, Zenon DEF RecoverJobExecution, IsRecoverable, IsActive, BatchStatus
    <3> QED
      BY <3>1, Zenon DEF RecoveryDecision, JobRow
  <2>5. jobs' \in [JobIds -> JobRow]
    BY <2>1, <2>2, Zenon DEF RecoverJobExecution, RecoveredJob, RepoTypeOK
  <2>6. steps' \in [JobIds -> [Nodes -> StepRow]]
    BY <2>1, <2>3, Zenon DEF RecoverJobExecution, RepoTypeOK
  <2>7. recoveries' \in [JobIds -> SUBSET RecoveryDecision]
    BY <2>1, <2>4, Zenon DEF RecoverJobExecution, RepoTypeOK
  <2> QED
    BY <2>1, <2>5, <2>6, <2>7, Zenon DEF RecoverJobExecution, RepoTypeOK
<1>6. CASE AbandonExecution(j, jobs[j].ver)
  BY <1>6, <1>a, Zenon DEF AbandonExecution, BatchStatus
<1> QED
  BY <1>1, <1>2, <1>3, <1>4, <1>5, <1>6, Zenon DEF JobUnit

(* The units of one step row keep every variable typed.                    *)
LEMMA StepTyped ==
  ASSUME RepoTypeOK, NEW j \in JobIds, NEW n \in Nodes, StepUnit(j, n)
  PROVE  RepoTypeOK'
<1> /\ jobs[j] \in JobRow
    /\ steps[j][n] \in StepRow
    /\ steps[j][n].ver \in Nat
  BY RepositoryAssumption DEF RepoTypeOK, StepRow
<1> /\ RunningTargets \subseteq BatchStatus
    /\ FinalTargets \subseteq BatchStatus
  BY Zenon DEF RunningTargets, FinalTargets, BatchStatus
<1>0. StartingStep \in StepRow
  BY RepositoryAssumption DEF StartingStep, StepRow, BatchStatus
<1>1. CASE CreateStep(j, n, MaxExecutions + 1)
  BY <1>0, <1>1, Zenon DEF CreateStep, RepoTypeOK
<1>2. CASE \E o \in Owners \cup {None} : AdoptExecution(j, n, o)
  <2>1. PICK o \in Owners \cup {None} : AdoptExecution(j, n, o)
    BY <1>2, Zenon
  <2>2. jobs' \in [JobIds -> JobRow]
    <3>1. jobs' = [jobs EXCEPT ![j] = [jobs[j] EXCEPT !.owner = IF o = None THEN @ ELSE o]]
      BY <2>1, Zenon DEF AdoptExecution
    <3>2. jobs[j] \in JobRow /\ jobs[j].owner \in Owners \cup {None}
      BY Zenon DEF RepoTypeOK, JobRow
    <3>3. [jobs[j] EXCEPT !.owner = IF o = None THEN @ ELSE o] \in JobRow
      BY <3>2, OwnedAndStopped, Zenon
    <3> QED
      BY <3>1, <3>3, Zenon DEF RepoTypeOK
  <2>3. steps' \in [JobIds -> [Nodes -> StepRow]]
    BY <2>1, <1>0, Zenon DEF AdoptExecution, RepoTypeOK
  <2> QED
    BY <2>1, <2>2, <2>3, Zenon DEF AdoptExecution, RepoTypeOK
<1>3. CASE \E to \in RunningTargets : TransitionStep(j, n, steps[j][n].ver, to)
  <2>1. PICK to \in RunningTargets : TransitionStep(j, n, steps[j][n].ver, to)
    BY <1>3, Zenon
  <2>2. steps[j][n].ver + 1 \in 0..MaxVersion
    BY <2>1, RepositoryAssumption DEF TransitionStep, MayTransitionStep
  <2>3. Transitioned(steps[j][n], to) \in StepRow
    BY <2>2, Zenon DEF Transitioned, StepRow
  <2> QED
    BY <2>1, <2>3, Zenon DEF TransitionStep, RepoTypeOK
<1>4. CASE \E to \in FinalTargets : FinishStepRow(j, n, steps[j][n].ver, to)
  <2>1. PICK to \in FinalTargets : FinishStepRow(j, n, steps[j][n].ver, to)
    BY <1>4, Zenon
  <2>2. steps[j][n].ver + 1 \in 0..MaxVersion /\ steps[j][n].ver + 2 \in 0..MaxVersion
    BY <2>1, RepositoryAssumption DEF FinishStepRow, MayFinishStep
  <2>3. /\ Enriched(steps[j][n]) \in StepRow
        /\ Enriched(steps[j][n]).ver + 1 \in 0..MaxVersion
    BY <2>2 DEF Enriched, StepRow
  <2>4. Transitioned(Enriched(steps[j][n]), to) \in StepRow
    BY <2>3, Zenon DEF Transitioned, StepRow
  <2> QED
    BY <2>1, <2>4, Zenon DEF FinishStepRow, RepoTypeOK
<1>5. CASE CommitStepProgress(j, n, steps[j][n].ver)
  <2>1. steps[j][n].ver + 1 \in 0..MaxVersion
    BY <1>5, RepositoryAssumption DEF CommitStepProgress
  <2>2. [steps[j][n] EXCEPT !.ver = @ + 1] \in StepRow
    BY <2>1, Zenon DEF StepRow
  <2>3. steps' = [steps EXCEPT ![j] = [steps[j] EXCEPT ![n] =
                    [steps[j][n] EXCEPT !.ver = @ + 1]]]
    BY <1>5, Zenon DEF CommitStepProgress
  <2> QED
    BY <1>5, <2>2, <2>3 DEF CommitStepProgress, RepoTypeOK
<1> QED
  BY <1>1, <1>2, <1>3, <1>4, <1>5, Zenon DEF StepUnit

(***************************************************************************)
(* Every row of the repository keeps its type: versions stay within their  *)
(* width because each unit checks the increment before it writes.          *)
(***************************************************************************)
THEOREM TypeCorrect == RepoSpec => []RepoTypeOK
<1>1. RepoInit => RepoTypeOK
  <2> SUFFICES ASSUME RepoInit PROVE RepoTypeOK
    BY Zenon
  <2>1. NoJob \in JobRow
    BY RepositoryAssumption DEF NoJob, JobRow
  <2>2. NoStep \in StepRow
    BY RepositoryAssumption DEF NoStep, StepRow
  <2> QED
    BY <2>1, <2>2, RepositoryAssumption DEF RepoInit, RepoTypeOK
<1>2. RepoTypeOK /\ [RepoNext]_repoVars => RepoTypeOK'
  <2> SUFFICES ASSUME RepoTypeOK, [RepoNext]_repoVars PROVE RepoTypeOK'
    BY Zenon
  <2>1. CASE CreateUnit
    BY <2>1, CreateTyped, Zenon
  <2>2. CASE \E j \in JobIds : JobUnit(j)
    BY <2>2, JobTyped, Zenon
  <2>3. CASE \E j \in JobIds, n \in Nodes : StepUnit(j, n)
    BY <2>3, StepTyped, Zenon
  <2>4. CASE RegisterUnit
    BY <2>4 DEF RegisterUnit, RegisterDefinitionUpgrade, RepoTypeOK
  <2>5. CASE UNCHANGED repoVars
    BY <2>5, Zenon DEF repoVars, RepoTypeOK
  <2> QED
    BY <2>1, <2>2, <2>3, <2>4, <2>5, Zenon DEF RepoNext
<1> QED
  BY <1>1, <1>2, PTL DEF RepoSpec
-----------------------------------------------------------------------------
(* What any unit but a creation may do to a job row: it keeps the instance *)
(* and the definition, its version does not go back, and its status stays, *)
(* follows the table, or is closed by recovery.                            *)
Moves(r, s) ==
  /\ s.inst = r.inst
  /\ s.def = r.def
  /\ s.ver >= r.ver
  /\ \/ s.status = r.status
     \/ IsLegalInPlaceTransition(r.status, s.status)
     \/ IsRecoverable(r.status) /\ s.status \in RecoveryDispositions

(* A row that is left alone moves trivially.                               *)
LEMMA MovesReflexive ==
  ASSUME NEW row \in JobRow
  PROVE  Moves(row, row)
BY RepositoryAssumption DEF Moves, JobRow

(* A transition through the table, and one that also rewrites the exit     *)
(* status, are moves.                                                      *)
LEMMA TransitionMoves ==
  ASSUME NEW row \in JobRow, NEW to,
         \/ IsLegalInPlaceTransition(row.status, to)
         \/ IsRecoverable(row.status) /\ to \in RecoveryDispositions
  PROVE  Moves(row, Transitioned(row, to)) /\ Moves(row, Transitioned(Enriched(row), to))
<1>1. /\ Transitioned(row, to).inst = row.inst
      /\ Transitioned(row, to).def = row.def
      /\ Transitioned(row, to).ver = row.ver + 1
      /\ Transitioned(row, to).status = to
  BY Zenon DEF JobRow, Transitioned
<1>2. /\ Transitioned(Enriched(row), to).inst = row.inst
      /\ Transitioned(Enriched(row), to).def = row.def
      /\ Transitioned(Enriched(row), to).ver = row.ver + 1 + 1
      /\ Transitioned(Enriched(row), to).status = to
  BY Zenon DEF JobRow, Transitioned, Enriched
<1>3. row.ver \in Nat
  BY RepositoryAssumption DEF JobRow
<1> QED
  BY <1>1, <1>2, <1>3 DEF Moves

(* Every unit of an existing execution moves its row and no other.         *)
LEMMA JobUnitMoves ==
  ASSUME RepoTypeOK, NEW j \in JobIds, JobUnit(j)
  PROVE  /\ jobs' = [jobs EXCEPT ![j] = jobs'[j]]
         /\ Moves(jobs[j], jobs'[j])
         /\ JobExists(j)
         /\ nextJob' = nextJob /\ upgrades' = upgrades
<1> jobs[j] \in JobRow
  BY Zenon DEF RepoTypeOK
<1> DEFINE Goal == /\ jobs' = [jobs EXCEPT ![j] = jobs'[j]]
                   /\ Moves(jobs[j], jobs'[j])
                   /\ JobExists(j)
                   /\ nextJob' = nextJob /\ upgrades' = upgrades
<1>a. ASSUME NEW row, jobs' = [jobs EXCEPT ![j] = row]
      PROVE  jobs' = [jobs EXCEPT ![j] = jobs'[j]] /\ jobs'[j] = row
  BY <1>a, Zenon DEF RepoTypeOK
<1>b. ASSUME NEW to, TransitionJob(j, jobs[j].ver, to)
      PROVE  Goal
  <2>1. IsLegalInPlaceTransition(jobs[j].status, to)
    BY <1>b, Zenon DEF TransitionJob, MayTransitionJob, CanTransition
  <2>2. jobs' = [jobs EXCEPT ![j] = Transitioned(jobs[j], to)]
    BY <1>b, Zenon DEF TransitionJob
  <2>3. Moves(jobs[j], Transitioned(jobs[j], to))
    BY <2>1, TransitionMoves, Zenon
  <2>4. JobExists(j) /\ nextJob' = nextJob /\ upgrades' = upgrades
    BY <1>b, Zenon DEF TransitionJob, MayTransitionJob
  <2> QED
    BY <2>2, <2>3, <2>4, <1>a, Zenon
<1>1. CASE \E to \in RunningTargets : TransitionJob(j, jobs[j].ver, to)
  BY <1>1, <1>b, Zenon
<1>2. CASE \E to \in FinalTargets : FinishJobRow(j, jobs[j].ver, to)
  <2>1. PICK to \in FinalTargets : FinishJobRow(j, jobs[j].ver, to)
    BY <1>2, Zenon
  <2>2. Enriched(jobs[j]).status = jobs[j].status
    BY Zenon DEF Enriched, JobRow
  <2>3. IsLegalInPlaceTransition(jobs[j].status, to)
    BY <2>1, <2>2, Zenon DEF FinishJobRow, MayFinishJob, CanTransition
  <2>4. jobs' = [jobs EXCEPT ![j] = Transitioned(Enriched(jobs[j]), to)]
    BY <2>1, Zenon DEF FinishJobRow
  <2>5. Moves(jobs[j], Transitioned(Enriched(jobs[j]), to))
    BY <2>3, TransitionMoves, Zenon
  <2>6. JobExists(j) /\ nextJob' = nextJob /\ upgrades' = upgrades
    BY <2>1, Zenon DEF FinishJobRow, MayFinishJob
  <2> QED
    BY <2>4, <2>5, <2>6, <1>a, Zenon
<1>3. CASE RequestExecutionStop(j, jobs[j].ver)
  <2>1. jobs' = [jobs EXCEPT ![j] = [jobs[j] EXCEPT !.stop = TRUE]]
    BY <1>3, Zenon DEF RequestExecutionStop
  <2>2. Moves(jobs[j], [jobs[j] EXCEPT !.stop = TRUE])
    BY RepositoryAssumption DEF Moves, JobRow
  <2> QED
    BY <1>3, <2>1, <2>2, <1>a, Zenon DEF RequestExecutionStop
<1>4. CASE \E o \in Owners : ObserveExecutionControl(j, o)
  <2>1. PICK o \in Owners : ObserveExecutionControl(j, o)
    BY <1>4, Zenon
  <2>2. Moves(jobs[j], ObservedControl(jobs[j], o))
    <3>1. CASE ObservedControl(jobs[j], o) = jobs[j]
      BY <3>1, MovesReflexive, Zenon
    <3>2. CASE /\ ObservedControl(jobs[j], o) = Transitioned(jobs[j], "STOPPING")
               /\ jobs[j].status \in {"STARTING", "STARTED"}
      <4>1. IsLegalInPlaceTransition(jobs[j].status, "STOPPING")
        BY <3>2, Zenon DEF IsLegalInPlaceTransition
      <4> QED
        BY <3>2, <4>1, TransitionMoves, Zenon
    <3> QED
      BY <3>1, <3>2, Zenon DEF ObservedControl
  <2>3. jobs' = [jobs EXCEPT ![j] = ObservedControl(jobs[j], o)]
    BY <2>1, Zenon DEF ObserveExecutionControl
  <2> QED
    BY <2>1, <2>2, <2>3, <1>a, Zenon DEF ObserveExecutionControl
<1>5. CASE \E r \in RecoveryDispositions : RecoverJobExecution(j, jobs[j].ver, r)
  <2>1. PICK r \in RecoveryDispositions : RecoverJobExecution(j, jobs[j].ver, r)
    BY <1>5, Zenon
  <2>2. jobs' = [jobs EXCEPT ![j] = Transitioned(jobs[j], r)]
    BY <2>1, Zenon DEF RecoverJobExecution, RecoveredJob
  <2>3. Moves(jobs[j], Transitioned(jobs[j], r))
    BY <2>1, TransitionMoves, Zenon DEF RecoverJobExecution
  <2>4. JobExists(j) /\ nextJob' = nextJob /\ upgrades' = upgrades
    BY <2>1, Zenon DEF RecoverJobExecution
  <2> QED
    BY <2>2, <2>3, <2>4, <1>a, Zenon
<1>6. CASE AbandonExecution(j, jobs[j].ver)
  BY <1>6, <1>b, Zenon DEF AbandonExecution
<1> QED
  BY <1>1, <1>2, <1>3, <1>4, <1>5, <1>6, Zenon DEF JobUnit

(* The units of a step row leave the job rows alone, but for the owner an  *)
(* adopting launcher records.                                              *)
LEMMA StepUnitMoves ==
  ASSUME RepoTypeOK, NEW j \in JobIds, NEW n \in Nodes, StepUnit(j, n)
  PROVE  /\ \A k \in JobIds : /\ Moves(jobs[k], jobs'[k])
                              /\ jobs'[k].status = jobs[k].status
                              /\ jobs'[k].ver = jobs[k].ver
         /\ nextJob' = nextJob /\ upgrades' = upgrades /\ recoveries' = recoveries
<1>1. CASE \E o \in Owners \cup {None} : AdoptExecution(j, n, o)
  <2>1. PICK o \in Owners \cup {None} : AdoptExecution(j, n, o)
    BY <1>1, Zenon
  <2>2. ASSUME NEW k \in JobIds
        PROVE  /\ Moves(jobs[k], jobs'[k])
               /\ jobs'[k].status = jobs[k].status
               /\ jobs'[k].ver = jobs[k].ver
    <3> jobs[k] \in JobRow
      BY Zenon DEF RepoTypeOK
    <3>1. jobs'[k] = jobs[k] \/ \E w : jobs'[k] = [jobs[k] EXCEPT !.owner = w]
      BY <2>1, Zenon DEF AdoptExecution, RepoTypeOK
    <3> QED
      BY <3>1, MovesReflexive, RepositoryAssumption, Zenon DEF Moves, JobRow
  <2> QED
    BY <2>1, <2>2, Zenon DEF AdoptExecution
<1>2. CASE UNCHANGED <<jobs, nextJob, recoveries, upgrades>>
  BY <1>2, MovesReflexive, Zenon DEF RepoTypeOK
<1> QED
  BY <1>1, <1>2, Zenon
  DEF StepUnit, CreateStep, TransitionStep, FinishStepRow, CommitStepProgress
-----------------------------------------------------------------------------
(***************************************************************************)
(* The inductive invariant behind the attempt properties.  The creation    *)
(* gate speaks of the latest attempt only; that every earlier one is       *)
(* closed is the induction hypothesis, and ids in order make the new       *)
(* attempt the latest.                                                     *)
(***************************************************************************)
AttemptsInv ==
  /\ RepoTypeOK
  /\ IdsInOrder
  /\ SupersededIsClosed
  /\ DefinitionContinuity

Closed == {"STOPPED", "FAILED", "ABANDONED"}

(* A closed row stays closed under any move, and no move removes a row.    *)
LEMMA MovesKeepsClosed ==
  ASSUME NEW r \in JobRow, NEW s \in JobRow, Moves(r, s)
  PROVE  /\ r.status \in Closed => s.status \in Closed
         /\ r.status # Absent => s.status # Absent
BY TableClosed, SMT
DEF Moves, Closed, IsRecoverable, IsActive, RecoveryDispositions, BatchStatus, Absent

(* Units that create nothing preserve the attempt properties.              *)
LEMMA MovesKeepAttempts ==
  ASSUME AttemptsInv, RepoTypeOK',
         \A k \in JobIds : /\ Moves(jobs[k], jobs'[k])
                           /\ JobExists(k)' => JobExists(k),
         nextJob' = nextJob, upgrades \subseteq upgrades'
  PROVE  AttemptsInv'
<1>1. ASSUME NEW k \in JobIds
      PROVE  /\ JobExists(k)' <=> JobExists(k)
             /\ jobs'[k].inst = jobs[k].inst
             /\ jobs'[k].def = jobs[k].def
             /\ jobs[k].status \in Closed => jobs'[k].status \in Closed
  <2>1. jobs[k] \in JobRow /\ jobs'[k] \in JobRow
    BY Zenon DEF AttemptsInv, RepoTypeOK
  <2> QED
    BY <2>1, MovesKeepsClosed, Zenon DEF JobExists, Moves
<1>2. IdsInOrder'
  BY <1>1, Zenon DEF IdsInOrder, AttemptsInv
<1>3. SupersededIsClosed'
  BY <1>1, Zenon DEF SupersededIsClosed, AttemptsInv, Closed
<1>4. DefinitionContinuity'
  <2> SUFFICES ASSUME NEW j \in JobIds, NEW k \in JobIds,
                      JobExists(j)', JobExists(k)',
                      jobs'[j].inst = jobs'[k].inst, j < k,
                      \A m \in JobIds : j < m /\ m < k => jobs'[m].inst # jobs'[j].inst
               PROVE  jobs'[j].def = jobs'[k].def \/ <<jobs'[j].def, jobs'[k].def>> \in upgrades'
    BY Zenon DEF DefinitionContinuity
  <2>1. \A m \in JobIds : j < m /\ m < k => jobs[m].inst # jobs[j].inst
    BY <1>1, Zenon
  <2>2. jobs[j].def = jobs[k].def \/ <<jobs[j].def, jobs[k].def>> \in upgrades
    BY <1>1, <2>1, Zenon DEF DefinitionContinuity, AttemptsInv
  <2> QED
    BY <1>1, <2>2, Zenon
<1> QED
  BY <1>2, <1>3, <1>4, Zenon DEF AttemptsInv

(* The creation gate, together with the invariant, closes every earlier    *)
(* attempt of the instance before a new one appears.                       *)
LEMMA CreateKeepsAttempts ==
  ASSUME AttemptsInv, CreateUnit
  PROVE  AttemptsInv'
<1>0. RepoTypeOK /\ RepoTypeOK'
  BY CreateTyped, Zenon DEF AttemptsInv
<1>1. PICK i \in Instances, d \in Definitions, u \in Upgrades,
           o \in Owners \cup {None}, s \in SUBSET Nodes :
        CreateExecution(i, d, u, o, s)
  BY Zenon DEF CreateUnit
<1>2. /\ NewJob \in JobIds /\ NewJob = nextJob + 1 /\ nextJob' = NewJob /\ nextJob \in Nat
      /\ JobIds \subseteq Nat /\ upgrades' = upgrades
  BY <1>0, <1>1, RepositoryAssumption
  DEF CreateExecution, MayCreate, NewJob, JobIds, RepoTypeOK
<1>3. /\ jobs'[NewJob].inst = i /\ jobs'[NewJob].def = d
      /\ jobs'[NewJob].status = "STARTING"
      /\ \A j \in JobIds \ {NewJob} : jobs'[j] = jobs[j]
  BY <1>0, <1>1, <1>2, Zenon DEF CreateExecution, StartingJob, RepoTypeOK
<1>4. IdsInOrder'
  BY <1>2, <1>3 DEF IdsInOrder, JobExists, AttemptsInv, Absent
<1>5. \A j \in JobIds : JobExists(j) => j < NewJob
  BY <1>2 DEF IdsInOrder, AttemptsInv
<1>6. ASSUME NEW j \in JobIds, JobExists(j), jobs[j].inst = i, IsLatest(j)
      PROVE  IsRestartable(jobs[j].status) /\ DefinitionAccepted(jobs[j].def, d, u)
  BY <1>1, <1>6, Zenon DEF CreateExecution, MayCreate, AttemptsOf
<1>7. ASSUME NEW j \in JobIds, JobExists(j), jobs[j].inst = i
      PROVE  jobs[j].status \in Closed
  <2>1. CASE IsLatest(j)
    BY <1>6, <1>7, <2>1, Zenon DEF IsRestartable, Closed
  <2>2. CASE ~IsLatest(j)
    <3>1. PICK k \in JobIds : JobExists(k) /\ jobs[k].inst = jobs[j].inst /\ j < k
      BY <1>2, <1>7, <2>2 DEF IsLatest
    <3> QED
      BY <1>7, <3>1, Zenon DEF SupersededIsClosed, AttemptsInv, Closed
  <2> QED
    BY <2>1, <2>2, Zenon
<1>8. SupersededIsClosed'
  <2> SUFFICES ASSUME NEW j \in JobIds, NEW k \in JobIds,
                      JobExists(j)', JobExists(k)',
                      jobs'[j].inst = jobs'[k].inst, j < k
               PROVE  jobs'[j].status \in Closed
    BY Zenon DEF SupersededIsClosed, Closed
  <2>1. j # NewJob
    BY <1>2, <1>4 DEF IdsInOrder
  <2>2. jobs'[j] = jobs[j] /\ JobExists(j)
    BY <1>3, <2>1, Zenon DEF JobExists
  <2>3. CASE k = NewJob
    BY <1>3, <1>7, <2>2, <2>3, Zenon
  <2>4. CASE k # NewJob
    BY <1>3, <2>2, <2>4, Zenon DEF SupersededIsClosed, AttemptsInv, Closed, JobExists
  <2> QED
    BY <2>3, <2>4, Zenon
<1>9. DefinitionContinuity'
  <2> SUFFICES ASSUME NEW j \in JobIds, NEW k \in JobIds,
                      JobExists(j)', JobExists(k)',
                      jobs'[j].inst = jobs'[k].inst, j < k,
                      \A m \in JobIds : j < m /\ m < k => jobs'[m].inst # jobs'[j].inst
               PROVE  jobs'[j].def = jobs'[k].def \/ <<jobs'[j].def, jobs'[k].def>> \in upgrades'
    BY Zenon DEF DefinitionContinuity
  <2>1. j # NewJob
    BY <1>2, <1>4 DEF IdsInOrder
  <2>2. jobs'[j] = jobs[j] /\ JobExists(j)
    BY <1>3, <2>1, Zenon DEF JobExists
  <2>3. CASE k = NewJob
    <3>1. ASSUME NEW m \in JobIds, JobExists(m), jobs[m].inst = jobs[j].inst, j < m
          PROVE  FALSE
      BY <1>3, <1>5, <2>2, <2>3, <3>1, Zenon
    <3>2. IsLatest(j)
      BY <1>2, <2>2, <3>1 DEF IsLatest
    <3>3. DefinitionAccepted(jobs[j].def, d, u)
      BY <1>3, <1>6, <2>2, <2>3, <3>2, Zenon
    <3> QED
      BY <1>2, <1>3, <2>2, <2>3, <3>3, Zenon DEF DefinitionAccepted
  <2>4. CASE k # NewJob
    <3>1. k < NewJob /\ JobExists(k) /\ jobs'[k] = jobs[k]
      BY <1>3, <1>5, <2>4, Zenon DEF JobExists
    <3>2. \A m \in JobIds : j < m /\ m < k => jobs[m].inst # jobs[j].inst
      <4> TAKE m \in JobIds
      <4> HAVE j < m /\ m < k
      <4>1. m # NewJob
        BY <1>2, <3>1 DEF JobIds
      <4> QED
        BY <1>3, <2>2, <4>1, Zenon
    <3> QED
      BY <1>2, <2>2, <3>1, <3>2, Zenon DEF DefinitionContinuity, AttemptsInv
  <2> QED
    BY <2>3, <2>4, Zenon
<1> QED
  BY <1>0, <1>4, <1>8, <1>9, Zenon DEF AttemptsInv

(* The attempt invariant is inductive.                                     *)
LEMMA AttemptsInductive == AttemptsInv /\ [RepoNext]_repoVars => AttemptsInv'
<1> SUFFICES ASSUME AttemptsInv, [RepoNext]_repoVars PROVE AttemptsInv'
  BY Zenon
<1>0. RepoTypeOK
  BY Zenon DEF AttemptsInv
<1>1. CASE CreateUnit
  BY <1>1, CreateKeepsAttempts, Zenon
<1>2. CASE \E j \in JobIds : JobUnit(j)
  <2>1. PICK j \in JobIds : JobUnit(j)
    BY <1>2, Zenon
  <2>2. RepoTypeOK'
    BY <1>0, <2>1, JobTyped, Zenon
  <2>3. \A k \in JobIds : Moves(jobs[k], jobs'[k]) /\ (JobExists(k)' => JobExists(k))
    BY <1>0, <2>1, JobUnitMoves, MovesReflexive, Zenon DEF RepoTypeOK, JobExists
  <2> QED
    BY <1>0, <2>1, <2>2, <2>3, JobUnitMoves, MovesKeepAttempts, Zenon
<1>3. CASE \E j \in JobIds, n \in Nodes : StepUnit(j, n)
  <2>1. PICK j \in JobIds, n \in Nodes : StepUnit(j, n)
    BY <1>3, Zenon
  <2>2. RepoTypeOK'
    BY <1>0, <2>1, StepTyped, Zenon
  <2> QED
    BY <1>0, <2>1, <2>2, StepUnitMoves, MovesKeepAttempts, Zenon DEF JobExists
<1>4. CASE RegisterUnit
  <2>1. UNCHANGED <<jobs, nextJob>> /\ upgrades \subseteq upgrades' /\ RepoTypeOK'
    BY <1>0, <1>4 DEF RegisterUnit, RegisterDefinitionUpgrade, RepoTypeOK
  <2> QED
    BY <1>0, <2>1, MovesReflexive, MovesKeepAttempts, Zenon DEF RepoTypeOK, JobExists
<1>5. CASE UNCHANGED repoVars
  BY <1>5, Zenon DEF repoVars, AttemptsInv, RepoTypeOK, IdsInOrder, SupersededIsClosed,
              DefinitionContinuity, JobExists
<1> QED
  BY <1>1, <1>2, <1>3, <1>4, <1>5, Zenon DEF RepoNext

(* Every reachable state satisfies the attempt invariant.                  *)
LEMMA AttemptsInvariant == RepoSpec => []AttemptsInv
<1>1. RepoInit => AttemptsInv
  <2> SUFFICES ASSUME RepoInit PROVE AttemptsInv
    BY Zenon
  <2>1. RepoTypeOK
    BY RepositoryAssumption
    DEF RepoInit, RepoTypeOK, NoJob, NoStep, JobRow, StepRow
  <2>2. \A j \in JobIds : ~JobExists(j)
    BY Zenon DEF RepoInit, JobExists, NoJob
  <2>3. IdsInOrder
    BY <2>2, RepositoryAssumption DEF RepoInit, IdsInOrder, JobIds
  <2> QED
    BY <2>1, <2>2, <2>3, Zenon DEF AttemptsInv, SupersededIsClosed, DefinitionContinuity
<1> QED
  BY <1>1, AttemptsInductive, PTL DEF RepoSpec

(***************************************************************************)
(* At most one attempt of an instance is ever unfinished, and it is the    *)
(* latest: the creation gate against every concurrent transition, recovery *)
(* and abandonment.                                                        *)
(***************************************************************************)
THEOREM OneOpenAttempt == RepoSpec => []SupersededIsClosed
BY AttemptsInvariant, PTL DEF AttemptsInv

(* Consecutive attempts never change definition without a registered edge. *)
THEOREM DefinitionsContinuous == RepoSpec => []DefinitionContinuity
BY AttemptsInvariant, PTL DEF AttemptsInv
-----------------------------------------------------------------------------
(* A recorded decision survives any unit that leaves the decisions alone.  *)
LEMMA MovesKeepDecisions ==
  ASSUME RepoTypeOK, RepoTypeOK', RecoveryIsFinal, recoveries' = recoveries,
         NEW j \in JobIds, Moves(jobs[j], jobs'[j]),
         NEW d \in recoveries[j]
  PROVE  /\ jobs'[j].status \in {d.result, "ABANDONED"}
         /\ jobs'[j].ver > d.ver
<1>1. d.result \in RecoveryDispositions /\ d.ver \in Nat
  BY RepositoryAssumption DEF RepoTypeOK, RecoveryDecision
<1>2. jobs[j].ver \in Nat /\ jobs'[j].ver \in Nat
  BY RepositoryAssumption DEF RepoTypeOK, JobRow
<1>3. jobs[j].status \in {d.result, "ABANDONED"} /\ jobs[j].ver > d.ver
  BY Zenon DEF RecoveryIsFinal
<1>4. ~IsRecoverable(jobs[j].status)
  BY <1>1, <1>3, Zenon DEF IsRecoverable, IsActive, RecoveryDispositions
<1>5. jobs'[j].ver >= jobs[j].ver
  BY Zenon DEF Moves
<1>6. jobs'[j].status = jobs[j].status \/ IsLegalInPlaceTransition(jobs[j].status, jobs'[j].status)
  BY <1>4, Zenon DEF Moves
<1>7. jobs'[j].status \in {d.result, "ABANDONED"}
  BY <1>1, <1>3, <1>6, TableClosed, Zenon DEF RecoveryDispositions
<1> QED
  BY <1>1, <1>2, <1>3, <1>5, <1>7

(* No unit reopens a recovered execution or decides on it twice.           *)
LEMMA DecisionsInductive ==
  AttemptsInv /\ RecoveryIsFinal /\ [RepoNext]_repoVars => RecoveryIsFinal'
<1> SUFFICES ASSUME AttemptsInv, RecoveryIsFinal, [RepoNext]_repoVars
             PROVE  RecoveryIsFinal'
  BY Zenon
<1>0. RepoTypeOK /\ RepoTypeOK'
  BY AttemptsInductive, Zenon DEF AttemptsInv
<1>a. ASSUME recoveries' = recoveries,
             \A k \in JobIds : recoveries[k] # {} => Moves(jobs[k], jobs'[k])
      PROVE  RecoveryIsFinal'
  <2> SUFFICES ASSUME NEW j \in JobIds, NEW d \in recoveries'[j]
               PROVE  /\ jobs'[j].status \in {d.result, "ABANDONED"}
                      /\ jobs'[j].ver > d.ver
                      /\ recoveries'[j] = {d}
    BY Zenon DEF RecoveryIsFinal
  <2>1. d \in recoveries[j] /\ Moves(jobs[j], jobs'[j])
    BY <1>a, Zenon
  <2>2. recoveries'[j] = {d}
    BY <1>a, <2>1, Zenon DEF RecoveryIsFinal
  <2> QED
    BY <1>0, <1>a, <2>1, <2>2, MovesKeepDecisions, Zenon
<1>1. CASE CreateUnit
  <2>1. PICK i \in Instances, df \in Definitions, u \in Upgrades,
             o \in Owners \cup {None}, s \in SUBSET Nodes :
          CreateExecution(i, df, u, o, s)
    BY <1>1, Zenon DEF CreateUnit
  <2>2. recoveries' = recoveries /\ NewJob \in JobIds
    BY <1>0, <2>1, RepositoryAssumption
    DEF CreateExecution, MayCreate, NewJob, JobIds, RepoTypeOK
  <2>3. ~JobExists(NewJob)
    BY <1>0, <2>2 DEF AttemptsInv, IdsInOrder, NewJob, RepoTypeOK
  <2>4. recoveries[NewJob] = {}
    <3> SUFFICES ASSUME NEW d \in recoveries[NewJob] PROVE FALSE
      BY Zenon
    <3>1. d.result \in RecoveryDispositions
      BY <1>0, <2>2 DEF RepoTypeOK, RecoveryDecision
    <3> QED
      BY <2>2, <2>3, <3>1, Zenon DEF RecoveryIsFinal, JobExists, RecoveryDispositions, Absent
  <2>5. \A k \in JobIds \ {NewJob} : jobs'[k] = jobs[k]
    BY <1>0, <2>1, <2>2, Zenon DEF CreateExecution, RepoTypeOK
  <2> QED
    BY <1>0, <1>a, <2>2, <2>4, <2>5, MovesReflexive, Zenon DEF RepoTypeOK
<1>2. CASE \E j \in JobIds : JobUnit(j)
  <2>1. PICK j \in JobIds : JobUnit(j)
    BY <1>2, Zenon
  <2>2. \A k \in JobIds : Moves(jobs[k], jobs'[k])
    BY <1>0, <2>1, JobUnitMoves, MovesReflexive, Zenon DEF RepoTypeOK
  <2>3. CASE \E r \in RecoveryDispositions : RecoverJobExecution(j, jobs[j].ver, r)
    <3>1. PICK r \in RecoveryDispositions : RecoverJobExecution(j, jobs[j].ver, r)
      BY <2>3, Zenon
    <3> DEFINE new == [ver |-> jobs[j].ver, prior |-> jobs[j].status, result |-> r]
    <3>2. recoveries[j] = {}
      <4> SUFFICES ASSUME NEW d \in recoveries[j] PROVE FALSE
        BY Zenon
      <4>1. d.result \in RecoveryDispositions
        BY <1>0 DEF RepoTypeOK, RecoveryDecision
      <4> QED
        BY <3>1, <4>1, Zenon
        DEF RecoveryIsFinal, RecoverJobExecution, IsRecoverable, IsActive, RecoveryDispositions
    <3>3. recoveries'[j] = {new}
      BY <1>0, <3>1, <3>2, Zenon DEF RecoverJobExecution, RepoTypeOK
    <3>4. jobs'[j].status = r /\ jobs'[j].ver = jobs[j].ver + 1 /\ jobs[j].ver \in Nat
      BY <1>0, <3>1, RepositoryAssumption
      DEF RecoverJobExecution, RecoveredJob, Transitioned, RepoTypeOK, JobRow
    <3>5. \A k \in JobIds \ {j} : jobs'[k] = jobs[k] /\ recoveries'[k] = recoveries[k]
      BY <1>0, <3>1, Zenon DEF RecoverJobExecution, RepoTypeOK
    <3> QED
      BY <3>3, <3>4, <3>5 DEF RecoveryIsFinal
  <2>4. CASE recoveries' = recoveries
    BY <1>a, <2>2, <2>4, Zenon
  <2> QED
    BY <2>1, <2>3, <2>4, Zenon
    DEF JobUnit, TransitionJob, FinishJobRow, RequestExecutionStop,
        ObserveExecutionControl, AbandonExecution
<1>3. CASE \E j \in JobIds, n \in Nodes : StepUnit(j, n)
  BY <1>0, <1>3, <1>a, StepUnitMoves, Zenon
<1>4. CASE RegisterUnit \/ UNCHANGED repoVars
  <2>1. recoveries' = recoveries /\ jobs' = jobs
    BY <1>4, Zenon DEF RegisterUnit, RegisterDefinitionUpgrade, repoVars
  <2> QED
    BY <1>0, <1>a, <2>1, MovesReflexive, Zenon DEF RepoTypeOK
<1> QED
  BY <1>1, <1>2, <1>3, <1>4, Zenon DEF RepoNext

(***************************************************************************)
(* A recovered execution is settled for good: no late write of a launcher  *)
(* that was only slow, and no second decision, reopens it.                 *)
(***************************************************************************)
THEOREM RecoverySettles == RepoSpec => []RecoveryIsFinal
<1>1. RepoInit => RecoveryIsFinal
  BY Zenon DEF RepoInit, RecoveryIsFinal
<1> QED
  BY <1>1, AttemptsInvariant, DecisionsInductive, PTL DEF RepoSpec
-----------------------------------------------------------------------------
(* What a unit may do to a step row: create it, or, while it is open or    *)
(* UNKNOWN, rewrite it.                                                    *)
StepMoves(r, s) ==
  \/ s = r
  \/ ~IsFinished(r.status)

(* No unit touches a finished step row or creates one for no execution.    *)
LEMMA StepRowsMove ==
  ASSUME AttemptsInv, StepsHaveJob, RepoNext
  PROVE  /\ \A j \in JobIds, n \in Nodes : StepMoves(steps[j][n], steps'[j][n])
         /\ StepsHaveJob'
<1> DEFINE Goal == /\ \A j \in JobIds, n \in Nodes : StepMoves(steps[j][n], steps'[j][n])
                   /\ StepsHaveJob'
<1>0. RepoTypeOK /\ RepoTypeOK'
  BY AttemptsInductive, Zenon DEF AttemptsInv
<1>a. ASSUME steps' = steps, \A k \in JobIds : JobExists(k) => JobExists(k)'
      PROVE  Goal
  BY <1>a, Zenon DEF StepMoves, StepsHaveJob, StepExists
<1>b. ASSUME \A k \in JobIds : Moves(jobs[k], jobs'[k])
      PROVE  \A k \in JobIds : JobExists(k) => JobExists(k)'
  BY <1>0, <1>b, MovesKeepsClosed, Zenon DEF JobExists, RepoTypeOK
<1>c. ASSUME NEW j \in JobIds, NEW n \in Nodes, NEW row,
             steps' = [steps EXCEPT ![j][n] = row],
             JobExists(j),
             StepMoves(steps[j][n], row),
             \A k \in JobIds : JobExists(k) => JobExists(k)'
      PROVE  Goal
  <2>1. \A k \in JobIds, m \in Nodes :
          steps'[k][m] = IF k = j /\ m = n THEN row ELSE steps[k][m]
    BY <1>0, <1>c, Zenon DEF RepoTypeOK
  <2> QED
    BY <1>c, <2>1 DEF StepMoves, StepsHaveJob, StepExists
<1>1. CASE CreateUnit
  <2>1. PICK i \in Instances, df \in Definitions, u \in Upgrades,
             o \in Owners \cup {None}, s \in SUBSET Nodes :
          CreateExecution(i, df, u, o, s)
    BY <1>1, Zenon DEF CreateUnit
  <2>2. NewJob \in JobIds /\ ~JobExists(NewJob)
    BY <1>0, <2>1, RepositoryAssumption
    DEF CreateExecution, MayCreate, NewJob, JobIds, RepoTypeOK, AttemptsInv, IdsInOrder
  <2>3. \A n \in Nodes : ~IsFinished(steps[NewJob][n].status)
    BY <2>2, Zenon DEF StepsHaveJob, StepExists, IsFinished, Absent
  <2>4. \A j \in JobIds \ {NewJob} : steps'[j] = steps[j] /\ jobs'[j] = jobs[j]
    BY <1>0, <2>1, <2>2, Zenon DEF CreateExecution, RepoTypeOK
  <2>5. jobs'[NewJob].status = "STARTING"
    BY <1>0, <2>1, <2>2, Zenon DEF CreateExecution, StartingJob, RepoTypeOK
  <2>6. \A j \in JobIds, n \in Nodes : StepMoves(steps[j][n], steps'[j][n])
    BY <2>3, <2>4, Zenon DEF StepMoves
  <2>7. StepsHaveJob'
    BY <2>4, <2>5, Zenon DEF StepsHaveJob, StepExists, JobExists, Absent
  <2> QED
    BY <2>6, <2>7, Zenon
<1>2. CASE \E j \in JobIds : JobUnit(j)
  <2>1. PICK j \in JobIds : JobUnit(j)
    BY <1>2, Zenon
  <2>2. \A k \in JobIds : JobExists(k) => JobExists(k)'
    BY <1>0, <1>b, <2>1, JobUnitMoves, MovesReflexive, Zenon DEF RepoTypeOK
  <2>3. CASE \E r \in RecoveryDispositions : RecoverJobExecution(j, jobs[j].ver, r)
    <3>1. PICK r \in RecoveryDispositions : RecoverJobExecution(j, jobs[j].ver, r)
      BY <2>3, Zenon
    <3>2. \A n \in Nodes : steps'[j][n] = RecoveredStep(steps[j][n], r)
      BY <1>0, <3>1, Zenon DEF RecoverJobExecution, RepoTypeOK
    <3>3. \A k \in JobIds \ {j} : steps'[k] = steps[k]
      BY <1>0, <3>1, Zenon DEF RecoverJobExecution, RepoTypeOK
    <3>4. \A n \in Nodes : StepMoves(steps[j][n], steps'[j][n])
      BY <3>2, Zenon DEF StepMoves, RecoveredStep, IsRecoverable, IsFinished, IsActive
    <3>5. JobExists(j)
      BY <3>1, Zenon DEF RecoverJobExecution
    <3> QED
      BY <2>2, <3>3, <3>4, <3>5, Zenon DEF StepMoves, StepsHaveJob, StepExists
  <2>4. CASE steps' = steps
    BY <1>a, <2>2, <2>4, Zenon
  <2> QED
    BY <2>1, <2>3, <2>4, Zenon
    DEF JobUnit, TransitionJob, FinishJobRow, RequestExecutionStop,
        ObserveExecutionControl, AbandonExecution
<1>3. CASE \E j \in JobIds, n \in Nodes : StepUnit(j, n)
  <2>1. PICK j \in JobIds, n \in Nodes : StepUnit(j, n)
    BY <1>3, Zenon
  <2>2. \A k \in JobIds : JobExists(k) => JobExists(k)'
    BY <1>0, <1>b, <2>1, StepUnitMoves, Zenon
  <2>3. StepExists(j, n) => JobExists(j)
    BY Zenon DEF StepsHaveJob
  <2>4. CASE CreateStep(j, n, MaxExecutions + 1)
    <3>1. StepMoves(steps[j][n], StartingStep)
      BY <2>4, Zenon DEF CreateStep, StepExists, StepMoves, IsFinished, Absent
    <3> QED
      BY <1>c, <2>2, <2>4, <3>1, Zenon DEF CreateStep
  <2>5. CASE \E o \in Owners \cup {None} : AdoptExecution(j, n, o)
    <3> DEFINE row == IF steps[j][n].status = Absent THEN StartingStep ELSE steps[j][n]
    <3>1. steps' = [steps EXCEPT ![j][n] = row] /\ jobs[j].status = "STARTING"
      BY <2>5, Zenon DEF AdoptExecution, MayAdopt
    <3>2. StepMoves(steps[j][n], row) /\ JobExists(j)
      BY <3>1, Zenon DEF StepMoves, IsFinished, Absent, JobExists
    <3> HIDE DEF row
    <3> QED
      BY <1>c, <2>2, <3>1, <3>2, Zenon
  <2>6. CASE \E to \in RunningTargets : TransitionStep(j, n, steps[j][n].ver, to)
    <3>1. PICK to \in RunningTargets : TransitionStep(j, n, steps[j][n].ver, to)
      BY <2>6, Zenon
    <3>2. StepMoves(steps[j][n], Transitioned(steps[j][n], to))
      BY <3>1, Zenon
      DEF TransitionStep, MayTransitionStep, CanTransition, IsLegalInPlaceTransition,
          RunningTargets, StepMoves, IsFinished
    <3> QED
      BY <1>c, <2>2, <2>3, <3>1, <3>2, Zenon DEF TransitionStep, MayTransitionStep
  <2>7. CASE \E to \in FinalTargets : FinishStepRow(j, n, steps[j][n].ver, to)
    <3>1. PICK to \in FinalTargets : FinishStepRow(j, n, steps[j][n].ver, to)
      BY <2>7, Zenon
    <3>2. Enriched(steps[j][n]).status = steps[j][n].status
      BY <1>0 DEF Enriched, RepoTypeOK, StepRow
    <3>3. StepMoves(steps[j][n], Transitioned(Enriched(steps[j][n]), to))
      BY <3>1, <3>2, Zenon
      DEF FinishStepRow, MayFinishStep, CanTransition, IsLegalInPlaceTransition,
          FinalTargets, StepMoves, IsFinished
    <3> QED
      BY <1>c, <2>2, <2>3, <3>1, <3>3, Zenon DEF FinishStepRow, MayFinishStep
  <2>8. CASE CommitStepProgress(j, n, steps[j][n].ver)
    <3>1. steps' = [steps EXCEPT ![j][n] = [steps[j][n] EXCEPT !.ver = @ + 1]]
      BY <1>0, <2>8, Zenon DEF CommitStepProgress, RepoTypeOK
    <3>2. StepMoves(steps[j][n], [steps[j][n] EXCEPT !.ver = @ + 1])
      BY <2>8, Zenon DEF CommitStepProgress, StepMoves, IsFinished
    <3> QED
      BY <1>c, <2>2, <2>3, <2>8, <3>1, <3>2, Zenon DEF CommitStepProgress
  <2> QED
    BY <2>1, <2>4, <2>5, <2>6, <2>7, <2>8, Zenon DEF StepUnit
<1>4. CASE RegisterUnit
  BY <1>4, <1>a, Zenon DEF RegisterUnit, RegisterDefinitionUpgrade, JobExists
<1> QED
  BY <1>1, <1>2, <1>3, <1>4, Zenon DEF RepoNext

(***************************************************************************)
(* A finished step row is frozen: late progress commits, late transitions  *)
(* and recovery of its execution all leave it as it is.                    *)
(***************************************************************************)
THEOREM FinishedStepsStay == RepoSpec => FinishedStepFrozen
<1>1. RepoInit => StepsHaveJob
  BY DEF RepoInit, StepsHaveJob, StepExists, NoStep
<1>2. AttemptsInv /\ StepsHaveJob /\ [RepoNext]_repoVars => StepsHaveJob'
  <2>1. CASE UNCHANGED repoVars
    BY <2>1, Zenon DEF repoVars, StepsHaveJob, StepExists, JobExists
  <2> QED
    BY <2>1, StepRowsMove, Zenon
<1>3. AttemptsInv /\ StepsHaveJob /\ [RepoNext]_repoVars =>
        [\A j \in JobIds, n \in Nodes :
           IsFinished(steps[j][n].status) => steps'[j][n] = steps[j][n]]_repoVars
  BY StepRowsMove, Zenon DEF StepMoves
<1> QED
  BY <1>1, <1>2, <1>3, AttemptsInvariant, PTL DEF RepoSpec, FinishedStepFrozen
-----------------------------------------------------------------------------
(* Apart from creation and adoption no unit changes a recorded owner.      *)
LEMMA JobUnitKeepsOwner ==
  ASSUME RepoTypeOK, NEW j \in JobIds, JobUnit(j)
  PROVE  jobs'[j].owner = jobs[j].owner
<1> jobs[j] \in JobRow
  BY Zenon DEF RepoTypeOK
<1>1. ASSUME NEW to
      PROVE  /\ Transitioned(jobs[j], to).owner = jobs[j].owner
             /\ Transitioned(Enriched(jobs[j]), to).owner = jobs[j].owner
  BY Zenon DEF Transitioned, Enriched, JobRow
<1>2. [jobs[j] EXCEPT !.stop = TRUE].owner = jobs[j].owner
  BY Zenon DEF JobRow
<1>3. \/ \E to : jobs'[j] \in {Transitioned(jobs[j], to), Transitioned(Enriched(jobs[j]), to)}
      \/ jobs'[j] \in {jobs[j], [jobs[j] EXCEPT !.stop = TRUE]}
  BY SMT DEF JobUnit, TransitionJob, FinishJobRow, RequestExecutionStop,
         ObserveExecutionControl, ObservedControl, RecoverJobExecution, RecoveredJob,
         AbandonExecution, RepoTypeOK
<1> QED
  BY <1>1, <1>2, <1>3, Zenon

(* Owners change only from none, in a unit that leaves the execution       *)
(* STARTING, and executions that do not exist stay blank.                  *)
LEMMA OwnersMove ==
  ASSUME AttemptsInv, AbsentIsBlank, RepoNext
  PROVE  /\ \A j \in JobIds :
              jobs[j].owner # jobs'[j].owner =>
                jobs[j].owner = None /\ jobs'[j].status = "STARTING"
         /\ AbsentIsBlank'
<1>0. RepoTypeOK
  BY Zenon DEF AttemptsInv
<1>1. CASE CreateUnit
  <2>1. PICK i \in Instances, df \in Definitions, u \in Upgrades,
             o \in Owners \cup {None}, s \in SUBSET Nodes :
          CreateExecution(i, df, u, o, s)
    BY <1>1, Zenon DEF CreateUnit
  <2>2. NewJob \in JobIds /\ ~JobExists(NewJob)
    BY <1>0, <2>1, RepositoryAssumption
    DEF CreateExecution, MayCreate, NewJob, JobIds, RepoTypeOK, AttemptsInv, IdsInOrder
  <2>3. jobs[NewJob].owner = None
    BY <2>2 DEF AbsentIsBlank, NoJob
  <2>4. jobs'[NewJob].status = "STARTING"
    BY <1>0, <2>1, <2>2, Zenon DEF CreateExecution, StartingJob, RepoTypeOK
  <2>5. \A j \in JobIds \ {NewJob} : jobs'[j] = jobs[j]
    BY <1>0, <2>1, <2>2, Zenon DEF CreateExecution, RepoTypeOK
  <2> QED
    BY <2>3, <2>4, <2>5, Zenon DEF AbsentIsBlank, JobExists, Absent
<1>2. CASE \E j \in JobIds : JobUnit(j)
  <2>1. PICK j \in JobIds : JobUnit(j)
    BY <1>2, Zenon
  <2>2. /\ jobs'[j].owner = jobs[j].owner
        /\ \A k \in JobIds \ {j} : jobs'[k] = jobs[k]
        /\ JobExists(j) /\ Moves(jobs[j], jobs'[j])
    BY <1>0, <2>1, JobUnitKeepsOwner, JobUnitMoves, Zenon DEF RepoTypeOK
  <2>3. jobs'[j].status # Absent
    BY <1>0, <2>1, <2>2, JobTyped, MovesKeepsClosed, Zenon DEF RepoTypeOK, JobExists
  <2> QED
    BY <2>2, <2>3, Zenon DEF AbsentIsBlank, JobExists
<1>3. CASE \E j \in JobIds, n \in Nodes : StepUnit(j, n)
  <2>1. PICK j \in JobIds, n \in Nodes : StepUnit(j, n)
    BY <1>3, Zenon
  <2>2. CASE \E o \in Owners \cup {None} : AdoptExecution(j, n, o)
    <3>1. PICK o \in Owners \cup {None} : AdoptExecution(j, n, o)
      BY <2>2, Zenon
    <3>2. /\ jobs[j].status = "STARTING"
          /\ o # None => jobs[j].owner \in {None, o}
          /\ jobs'[j] = [jobs[j] EXCEPT !.owner = IF o = None THEN @ ELSE o]
          /\ \A k \in JobIds \ {j} : jobs'[k] = jobs[k]
      BY <1>0, <3>1, Zenon DEF AdoptExecution, MayAdopt, MayClaim, RepoTypeOK
    <3>3. /\ jobs'[j].status = "STARTING"
          /\ jobs'[j].owner = IF o = None THEN jobs[j].owner ELSE o
      BY <1>0, <3>2 DEF RepoTypeOK, JobRow
    <3> QED
      BY <3>2, <3>3, Zenon DEF AbsentIsBlank, JobExists, Absent
  <2>3. CASE jobs' = jobs
    BY <2>3, Zenon DEF AbsentIsBlank, JobExists
  <2> QED
    BY <2>1, <2>2, <2>3, Zenon
    DEF StepUnit, CreateStep, TransitionStep, FinishStepRow, CommitStepProgress
<1>4. CASE RegisterUnit
  BY <1>4, Zenon DEF RegisterUnit, RegisterDefinitionUpgrade, AbsentIsBlank, JobExists
<1> QED
  BY <1>1, <1>2, <1>3, <1>4, Zenon DEF RepoNext

(***************************************************************************)
(* Ownership is first-come and permanent: a second launcher that adopts    *)
(* the same execution is refused, and recovery leaves the token in place.  *)
(***************************************************************************)
THEOREM OwnershipPermanent == RepoSpec => OwnerNeverStolen
<1>1. RepoInit => AbsentIsBlank
  BY Zenon DEF RepoInit, AbsentIsBlank
<1>2. AttemptsInv /\ AbsentIsBlank /\ [RepoNext]_repoVars => AbsentIsBlank'
  <2>1. CASE UNCHANGED repoVars
    BY <2>1, Zenon DEF repoVars, AbsentIsBlank, JobExists
  <2> QED
    BY <2>1, OwnersMove, Zenon
<1>3. AttemptsInv /\ AbsentIsBlank /\ [RepoNext]_repoVars =>
        [\A j \in JobIds :
           jobs[j].owner # jobs'[j].owner =>
             jobs[j].owner = None /\ jobs'[j].status = "STARTING"]_repoVars
  BY OwnersMove, Zenon
<1> QED
  BY <1>1, <1>2, <1>3, AttemptsInvariant, PTL DEF RepoSpec, OwnerNeverStolen
=============================================================================
