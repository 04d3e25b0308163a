SPECIFICATION ScanSpec
CONSTANTS
  NumBatches = 5
  NumTxs = 3
  BatchTx <- MCBatchTx
  TxBlock <- MCTxBlock
  BlockStep = 2
  Options <- MCOptions
  ChanCap = 1
  MaxTip = 4
  None = None
INVARIANTS
  ScanTypeOK
  AssertBlamesCaller
  FinishedScanIsComplete
PROPERTIES
  FeedImplemented
CHECK_DEADLOCK FALSE
