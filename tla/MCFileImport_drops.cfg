SPECIFICATION FileSpec
CONSTANTS
  k1 = k1
  k2 = k2
  k3 = k3
  k4 = k4
  k5 = k5
  Keys = {k1, k2, k3, k4, k5}
  NoKey = NoKey
  NumBatches = 4
  Genesis <- MCGenesis
  Diffs <- MCDiffs
  BadBatches = {4}
  Modulus = 4
  MaxKills = 1
  Gaps = TRUE
  MaxSessions = 2
  ChanCap = 1
INVARIANTS
  LossIsBounded
  OnlySeparatedWritesHurt
PROPERTIES
  ChainIsReplayed
  ImportEnds
CHECK_DEADLOCK FALSE
