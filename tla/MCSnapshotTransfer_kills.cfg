SPECIFICATION TransferSpec
CONSTANTS
  k1 = k1
  k2 = k2
  k3 = k3
  k4 = k4
  k5 = k5
  k6 = k6
  Keys = {k1, k2, k3, k4, k5, k6}
  NoKey = NoKey
  NumBatches = 3
  Genesis <- MCGenesis
  Diffs <- MCDiffs
  BadBatches = {3}
  Modulus = 4
  MaxKills = 2
  Gaps = TRUE
  MaxSessions = 3
  Snapshots = {1}
  ChunkSize = 2
INVARIANTS
  IndexPointsBack
  NoKeyIsLost
  TransferTypeOK
  ImportRestoresTheSnapshot
  OnlyKnownHarmHurts
  RejectionKeepsTheState
PROPERTY IndexIsForEver
CHECK_DEADLOCK FALSE
