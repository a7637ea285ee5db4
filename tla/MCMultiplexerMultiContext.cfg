SPECIFICATION Spec
CONSTANTS
  c1 = c1  c2 = c2  c3 = c3  l1 = l1  l2 = l2
  Conn <- MCConn
  Loop <- MCLoop
  LoopOf <- MCLoopOf
  NoConn = NoConn
  MaxClientConns = 1
  MaxBurst = 1
  MaxTaken <- MCNoPackets
  MaxReplies = 0
INVARIANT
  EveryClosedClientHasId
CHECK_DEADLOCK FALSE
