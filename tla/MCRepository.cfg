\* Three attempts of one instance (creation, lifecycle, recovery, upgrades),
\* or one attempt with its step row (owners and late writers against recovery).
SPECIFICATION ScenarioSpec
CONSTANTS
  Instances = {i1}
  Nodes = {n1}
  Definitions = {d1, d2}
  Owners = {o1, o2}
  None = None
  MaxExecutions = 3
  MaxVersion = 5
  YoungVersion = 3
SYMMETRY Symmetry
INVARIANTS
  RepoTypeOK
  SupersededIsClosed
  DefinitionContinuity
  RecoveryIsFinal
PROPERTIES
  OwnerNeverStolen
  FinishedStepFrozen
CHECK_DEADLOCK FALSE
