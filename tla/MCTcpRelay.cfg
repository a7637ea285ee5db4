SPECIFICATION FairSpec
CONSTANTS
  HighWater = 2
  MaxChunks = 4
  MaxRead = 2
INVARIANTS
  StreamsIntact
  EndsTogether
PROPERTY
  OverflowEndsTunnel
CHECK_DEADLOCK FALSE
