\* Two tasks of any of three kinds; deadlines that are missed, urgent or not,
\* and one capability that comes and goes.
SPECIFICATION Spec
CONSTANTS
  capable = capable
  Kinds <- ThreeKinds
  Capability = {capable}
  MaxTasks = 2
  LowestPriority = 2
  SlackThreshold = 1
  MaxLeft = 1
  MaxPeriod = 2
INVARIANTS
  TypeOK
  BlockHolds
PROPERTIES
  RunsTheBest
