SPECIFICATION Spec
CONSTANTS
  c1 = c1  c2 = c2  news = news  utc = utc
  Conn <- MCConn
  NoConn = NoConn
  Topic <- MCTopic
  UtcTime = utc
  MaxLines = 3
  MaxTicks = 2
SYMMETRY Clients
INVARIANTS
  AudiencesMatchContexts
  AudienceUpToDate
  NeverOlder
PROPERTY
  OnlyAudienceIsSent
CHECK_DEADLOCK FALSE
