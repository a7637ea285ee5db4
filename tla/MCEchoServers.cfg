SPECIFICATION Spec
CONSTANTS
  c1 = c1
  c2 = c2
  Client = {c1, c2}
  NoClient = NoClient
  Window = 2
  Mixes <- MCMixes
  Size <- MCSize
  MaxLines = 2
INVARIANTS
  StreamsIntact
  HandOver
  LinesNeverKill
  StraysBounded
  StuckOnlyWhenTooLong
PROPERTY LineAnswered
CHECK_DEADLOCK FALSE
