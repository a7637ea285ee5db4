SPECIFICATION FairDownload
CONSTANTS
  BufSize = 5
  NoFile = NoFile
  MaxSize = 16
INVARIANTS
  WholeFile
  OneContinuation
PROPERTY EveryDownloadEnds
CHECK_DEADLOCK FALSE
