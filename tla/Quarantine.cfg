\* Module m1 has evidence and wants m2, m3 and even itself out; m2 votes, over
\* messages that are lost, late or repeated.  Ballots follow each other.
SPECIFICATION QuarantineSpec
CONSTANTS
  m1 = m1
  m2 = m2
  m3 = m3
  Module = {m1, m2}
  Engine = {m1, m2}
  Threshold <- Supermajority
  Vote = {"YES", "NO"}
  Configs <- DefaultConfig
  IdSpace = 3
  MaxBallots = 1
  MaxNeighbors = 1
  VoteTimeout = 1
  InhibitDuration = 1
  MaxHandles = 2
  MaxInhibits = 0
  MaxTime = 2
  Suspect = {m1, m2, m3}
  Evidence <- SomeEvidence
INVARIANTS
  QuarantineEarned
  OutcomesAreCaused
