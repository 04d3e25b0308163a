SPECIFICATION PipeSpec
CONSTANTS
  NumBatches = 6
  NumTxs = 5
  BatchTx <- MCBatchTxMore
  TxBlock <- MCTxBlockMore
  BlockStep = 2
  Options <- MCShort
  ChanCap = 1
  MaxTip = 3
  None = None
  ConfigStart = 1
  BadBatches = {3}
  BadTxs = {4}
  BlobTxs = {}
  Unmined = {4}
  MaxSessions = 2
  MaxCrashes = 0
PROPERTIES
  RunEnds
  EveryBatchIsApplied
  GracefulShutdown
  RejectionStopsTheRun
  PanicEndsTheRun
CHECK_DEADLOCK FALSE
