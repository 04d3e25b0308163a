SPECIFICATION PipeSpec
CONSTANTS
  NumBatches = 6
  NumTxs = 5
  BatchTx <- MCBatchTxMore
  TxBlock <- MCTxBlockMore
  BlockStep = 2
  Options <- MCAll
  ChanCap = 1
  MaxTip = 3
  None = None
  ConfigStart = 0
  BadBatches = {}
  BadTxs = {5}
  BlobTxs = {4}
  Unmined = {}
  MaxSessions = 3
  MaxCrashes = 1
INVARIANTS
  PipeTypeOK
  GapOnlyAfterLostTail
  ExitIsResumable
  CompleteAtExit
PROPERTIES
  ParseTaskInPipeline
CHECK_DEADLOCK FALSE
