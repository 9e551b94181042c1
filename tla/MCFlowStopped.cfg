\* The same, with a plan that completes after a failed step.
SPECIFICATION FlowSpec
CONSTANTS
  a = a
  b = b
  dec = dec
  Instances = {i1}
  Nodes = {a, b}
  Definitions = {d1}
  Owners = {p}
  None = None
  MaxExecutions = 1
  MaxVersion = 5
  Runners = {p}
  Controlled = {p}
  Deciders = {dec}
  Entry = a
  Codes = {"COMPLETED", "FAILED", "PARTIAL"}
  Route <- Forgiving
  StartLimit <- TwoStarts
  AllowRerun = {}
  NotRestartable = {}
  JobRestartable = TRUE
PROPERTIES
  FlowEventuallyResolved
CHECK_DEADLOCK FALSE
