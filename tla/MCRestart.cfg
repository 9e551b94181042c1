\* Two launchers, one with execution control, two attempts of one instance,
\* with crashes, abandons and recoveries of dead and of slow launches.
SPECIFICATION RestartSpec
CONSTANTS
  Instances = {i1}
  Nodes = {s}
  Definitions = {d1}
  Owners = {p}
  None = None
  MaxExecutions = 2
  MaxVersion = 6
  Launchers = {p, q}
  Controlled = {p}
  Step = s
  MaxProgress = 2
INVARIANTS
  TaskletExclusive
  AmbiguityPreserved
CHECK_DEADLOCK FALSE
