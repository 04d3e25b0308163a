SPECIFICATION SnapSpec
CONSTANTS
  k1 = k1
  k2 = k2
  k3 = k3
  k4 = k4
  k5 = k5
  Keys = {k1, k2, k3, k4, k5}
  NoKey = NoKey
  NumBatches = 4
  Genesis <- MCGenesis
  Diffs <- MCDiffs
  BadBatches = {}
  Modulus = 4
  L1Block <- MCL1Block
  MaxKills = 2
  MaxSessions = 4
INVARIANTS
  LogsPointBack
  SnapshotIsTheChain
  LookupsFindTheirKeys
CHECK_DEADLOCK FALSE
