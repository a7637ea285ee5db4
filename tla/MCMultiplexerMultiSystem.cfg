SPECIFICATION SystemSpec
CONSTANTS
  c1 = c1  c2 = c2  c3 = c3  l1 = l1  l2 = l2
  Conn <- MCConn
  Loop <- MCLoop
  LoopOf <- MCLoopOf
  NoConn = NoConn
  MaxClientConns = 2
  MaxBurst = 1
  MaxTaken <- MCMaxTaken
  MaxReplies = 3
  ByteValues = 4
  MaxWire = 2
  MaxCommands = 1
INVARIANTS
  AnswersInOrder
  PredecessorsFirst
  ConsoleHasALink
CHECK_DEADLOCK FALSE
