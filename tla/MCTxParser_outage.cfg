SPECIFICATION TxSpec
CONSTANTS
  Feed <- MCFeed
  Boojum = 2
  BlobBlock = 4
  MaxRetries = 2
  MaxChanges = 3
  None = None
  Wrong = Wrong
INVARIANTS
  TxTypeOK
  BlocksHaveTheirBlobs
PROPERTIES
  ParseTaskImplemented
  OutagesAreOvercome
  StopsWhenCancelled
CHECK_DEADLOCK FALSE
