\* One engine whose table and list hold one entry each; every voter says YES;
\* another module proposes, and anybody inhibits any key.
SPECIFICATION Spec
CONSTANTS
  m1 = m1
  m2 = m2
  Module = {m1, m2}
  Engine = {m1}
  Threshold <- SimpleMajority
  Vote = {"YES"}
  Configs <- AllConfigs
  IdSpace = 3
  MaxBallots = 1
  MaxNeighbors = 1
  VoteTimeout = 1
  InhibitDuration = 2
  MaxHandles = 2
  MaxInhibits = 2
  MaxTime = 3
INVARIANTS
  ArraysInBounds
  ReportedOnce
  OpenNotInhibited
PROPERTIES
  EveryBallotDecided
  RoundsImplemented
  RoomReturns
