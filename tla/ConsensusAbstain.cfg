\* One engine and three voters who may abstain, and repeat themselves; two
\* YES of four do not carry a ballot, three do.
SPECIFICATION Spec
CONSTANTS
  m1 = m1
  m2 = m2
  m3 = m3
  m4 = m4
  Module = {m1, m2, m3, m4}
  Engine = {m1}
  Threshold <- Supermajority
  Vote = {"YES", "NO", "ABSTAIN"}
  Configs <- AllConfigs
  IdSpace = 3
  MaxBallots = 1
  MaxNeighbors = 3
  VoteTimeout = 1
  InhibitDuration = 1
  MaxHandles = 1
  MaxInhibits = 0
  MaxTime = 1
INVARIANTS
  EarlyRejectionCorrect
