\* One peer, heard of tick after tick.
SPECIFICATION Spec
CONSTANTS
  nowhere = nowhere
  nobody = nobody
  Module = {1, 2}
  Self = 2
  Position = {0, 1}
  Metric <- OnALine
  Places <- OneNearer
  K = 1
  MaxKnown = 2
  MinNeighbors = 1
  DiscoveryPeriod = 1
  HeartbeatPeriod = 1
  TimeoutCount = 1
  MaxMissed = 1
  MaxAge = 1
  Origin = 0
  NoPosition = nowhere
  Nobody = nobody
  MaxRx = 1
PROPERTIES
  NeighborsSampled
