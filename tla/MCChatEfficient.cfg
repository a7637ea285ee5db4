SPECIFICATION FairSpec
CONSTANTS
  c1 = c1  c2 = c2  c3 = c3  l1 = l1  l2 = l2
  Conn <- MCConn3
  Loop <- MCLoop2
  LoopOf <- TwoLoops
  MaxSays <- OneMore
INVARIANTS
  SenderOrder
  SnapshotStable
PROPERTY
  SnapshotHears
CHECK_DEADLOCK FALSE
