SPECIFICATION Spec
CONSTANTS
  c1 = c1  c2 = c2  c3 = c3  c4 = c4  l1 = l1  l2 = l2  l3 = l3
  Conn <- MCConn
  Loop <- MCLoop
  LoopOf <- MCLoopOf
  MaxSays <- OneEach
SYMMETRY Listeners
INVARIANTS
  OtherLoopsInOneOrder
CHECK_DEADLOCK FALSE
