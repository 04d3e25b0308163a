SPECIFICATION SearchSpec
CONSTANTS
  NumBatches = 7
  NumTxs = 6
  BatchTx <- MCBatchTx
  TxBlock <- MCTxBlock
  Genesis = 2
  Step = 2
  MaxHead = 18
INVARIANTS
  SearchTypeOK
  MissingIsHonest
PROPERTY SearchEnds
CHECK_DEADLOCK FALSE
