SPECIFICATION FilesSpec
CONSTANTS
  first = first
  between = between
  second = second
  Snapshots = {first, between, second}
  Number <- MCNumber
  Chunks <- MCChunks
  Paths = {"abs", "short", "long"}
  Absolute = {"abs"}
  Width <- MCWidth
  MaxExports = 3
INVARIANTS
  ReadsOneExport
  FinishedExportIsReadable
CHECK_DEADLOCK FALSE
