\* A controlled runner, two attempts, with stop requests, crashes, abandons and
\* recoveries; step b may not be started twice.
SPECIFICATION FlowSpec
CONSTANTS
  a = a
  b = b
  dec = dec
  Instances = {i1}
  Nodes = {a, b}
  Definitions = {d1}
  Owners = {p}
  None = None
  MaxExecutions = 2
  MaxVersion = 5
  Runners = {p}
  Controlled = {p}
  Deciders = {dec}
  Entry = a
  Codes = {"COMPLETED", "FAILED", "PARTIAL"}
  Route <- Diamond
  StartLimit <- TwoStarts
  AllowRerun = {}
  NotRestartable = {b}
  JobRestartable = TRUE
INVARIANTS
  FinishedFlowClosedSteps
  PlanGateSuffices
PROPERTIES
  ImplementsRepository
  FlowEventuallyResolved
CHECK_DEADLOCK FALSE
