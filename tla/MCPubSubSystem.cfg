SPECIFICATION SysFairSpec
CONSTANTS
  c1 = c1  c2 = c2  news = news  utc = utc
  Conn <- MCConn
  NoConn = NoConn
  Topic = {news, utc}
  UtcTime = utc
  MaxLines = 2
  MaxTicks = 1
INVARIANTS
  OnlyWhatWasAskedFor
  HubFollowsClients
PROPERTY
  SubscriberCatchesUp
CHECK_DEADLOCK FALSE
