SPECIFICATION FileSpec
CONSTANTS
  k1 = k1
  k2 = k2
  k3 = k3
  k4 = k4
  k5 = k5
  Keys = {k1, k2, k3, k4, k5}
  NoKey = NoKey
  NumBatches = 4
  Genesis <- MCGenesis
  Diffs <- MCDiffs
  BadBatches = {}
  Modulus = 4
  MaxKills = 0
  Gaps = FALSE
  MaxSessions = 1
  ChanCap = 1
INVARIANTS
  ImportedMeansImported
CHECK_DEADLOCK FALSE
