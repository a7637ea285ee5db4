SPECIFICATION SystemSpec
CONSTANTS
  c1 = c1  c2 = c2  c3 = c3
  Conn <- MCConn
  NoConn = NoConn
  MaxClientConns = 2
  MaxBurst = 2
  MaxTaken = 3
  MaxReplies = 4
  ByteValues = 4
  MaxWire = 3
  MaxCommands = 1
SYMMETRY Clients
INVARIANTS
  IInv
PROPERTY
  ImplementsBackend
CHECK_DEADLOCK FALSE
