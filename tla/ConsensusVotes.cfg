\* One engine, a table of two ballots out of three stored; two other modules
\* propose and vote as they like, and one NO of two or three voters rejects
\* early, with votes outstanding; inhibition is left to ConsensusInhibit.cfg.
SPECIFICATION Spec
CONSTANTS
  m1 = m1
  m2 = m2
  m3 = m3
  Module = {m1, m2, m3}
  Engine = {m1}
  Threshold <- Supermajority
  Vote = {"YES", "NO", "ABSTAIN"}
  Configs <- AllConfigs
  IdSpace = 3
  MaxBallots = 2
  MaxNeighbors = 2
  VoteTimeout = 1
  InhibitDuration = 1
  MaxHandles = 3
  MaxInhibits = 0
  MaxTime = 2
SYMMETRY OutsidersAlike
INVARIANTS
  TypeOK
  TalliesMatch
  ResultMatchesVotes
  EarlyRejectionSound
  UniqueKeys
