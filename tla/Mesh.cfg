\* Three peers for two places among the neighbours, which the alive callback
\* moves; the module may take the last of the three rows of the heartbeat table
\* itself.  A silence of one heartbeat period is a timeout.
SPECIFICATION Spec
CONSTANTS
  nowhere = nowhere
  nobody = nobody
  Module = {1, 2, 3, 4}
  Self = 2
  Position = {0, 1}
  Metric <- OnALine
  Places <- OneNearer
  K = 2
  MaxKnown = 3
  MinNeighbors = 2
  DiscoveryPeriod = 1
  HeartbeatPeriod = 1
  TimeoutCount = 1
  MaxMissed = 1
  MaxAge = 1
  Origin = 0
  NoPosition = nowhere
  Nobody = nobody
  MaxRx = 1
INVARIANTS
  TypeOK
  TickSettles
  DeadNotElected
  NearestAnnounced
PROPERTIES
  SilentLeaves
