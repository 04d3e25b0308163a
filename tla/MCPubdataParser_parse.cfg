SPECIFICATION ParserSpec
CONSTANTS
  WordLen = 3
  LogSize = 3
  TailSize = 2
  BlobSize = 7
  Committed <- MCCommitted
INVARIANTS
  BlockIsTheBatch
  FailuresAreJustified
CHECK_DEADLOCK FALSE
