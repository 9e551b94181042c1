\* A lost commit response followed by a failing after-step listener.
SPECIFICATION RestartSpec
CONSTANTS
  a = a
  b = b
  dec = dec
  Instances = {i1}
  Nodes = {a, b}
  Definitions = {d1}
  Owners = {}
  None = None
  MaxExecutions = 1
  MaxVersion = 4
  Runners = {p}
  Controlled = {}
  Deciders = {dec}
  Entry = a
  Codes = {"COMPLETED", "FAILED", "PARTIAL"}
  Route <- Diamond
  StartLimit <- TwoStarts
  AllowRerun = {}
  NotRestartable = {}
  JobRestartable = TRUE
INVARIANTS
  LostStaysUnknown
CHECK_DEADLOCK FALSE
