SPECIFICATION FairSpec
CONSTANTS
  c1 = c1  c2 = c2  c3 = c3  l1 = l1  l2 = l2
  Conn <- MCConn
  Loop <- MCLoop
  LoopOf <- MCLoopOf
  NoConn = NoConn
  MaxClientConns = 2
  MaxBurst = 2
  MaxTaken <- MCMaxTaken
  MaxReplies = 1
INVARIANTS
  IInv
  IdPool
  NoClientOutlivesBackend
  AssertsHoldUntilLoss
  OnlyOwnId
  SessionsDisjoint
PROPERTIES
  BackendLossReleasesClients
  ClosedClientReturnsId
  ImplementsLease
CHECK_DEADLOCK FALSE
