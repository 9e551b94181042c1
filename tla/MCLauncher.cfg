\* Two launchers, one with execution control, compete for one execution,
\* with crashes, stop requests, abandons and recoveries.
SPECIFICATION LaunchSpec
CONSTANTS
  Instances = {i1}
  Nodes = {s}
  Definitions = {d1}
  Owners = {p}
  None = None
  MaxExecutions = 1
  MaxVersion = 6
  Launchers = {p, q}
  Controlled = {p}
  Step = s
  MaxProgress = 2
INVARIANTS
  LaunchTypeOK
  FinishedJobClosedSteps
  VerdictAgrees
PROPERTIES
  ImplementsRepository
  EventuallyResolved
CHECK_DEADLOCK FALSE
