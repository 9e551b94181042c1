--------------------------- MODULE MCJobRepository ---------------------------
(***************************************************************************)
(* Model-checking instance of the repository with unrestricted clients.    *)
(* A behaviour is one of two: a history of attempts, their job rows alone  *)
(* and young, under upgrades; or one attempt with its step row, under      *)
(* competing owners and late writers.  Every step is a step of RepoNext.   *)
(***************************************************************************)
EXTENDS JobRepository, TLC

CONSTANT YoungVersion   \* bound: version of a job row in a history

VARIABLE scenario

HistoryStep ==
  /\ steps' = steps
  /\ \A j \in JobIds : jobs'[j].owner = None /\ jobs'[j].ver <= YoungVersion

AttemptStep == nextJob' <= 1 /\ upgrades' = upgrades

ScenarioInit == RepoInit /\ scenario \in {"history", "attempt"}

ScenarioNext ==
  /\ RepoNext
  /\ scenario = "history" => HistoryStep
  /\ scenario = "attempt" => AttemptStep
  /\ UNCHANGED scenario

ScenarioSpec == ScenarioInit /\ [][ScenarioNext]_<<repoVars, scenario>>

Symmetry == Permutations(Owners) \cup Permutations(Definitions)
=============================================================================
