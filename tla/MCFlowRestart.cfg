\* One runner at a time, three attempts of one instance, crashes and
\* recoveries anywhere.
SPECIFICATION RestartSpec
CONSTANTS
  a = a
  b = b
  dec = dec
  Instances = {i1}
  Nodes = {a, b}
  Definitions = {d1}
  Owners = {}
  None = None
  MaxExecutions = 3
  MaxVersion = 4
  Runners = {p}
  Controlled = {}
  Deciders = {dec}
  Entry = a
  Codes = {"COMPLETED", "FAILED", "PARTIAL"}
  Route <- Diamond
  StartLimit <- TwoStarts
  AllowRerun = {b}
  NotRestartable = {}
  JobRestartable = TRUE
INVARIANTS
  FlowTypeOK
  DecisionsFormPath
  CompletedFollowsPath
  CompletedStepNotRerun
  DecisionsAgree
CHECK_DEADLOCK FALSE
