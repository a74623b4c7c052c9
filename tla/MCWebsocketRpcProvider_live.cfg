\* Progress: timers fire, and the schema may be cleared at any moment.
SPECIFICATION FairSpec
CONSTANTS
  f1 = f1
  f2 = f2
  blocks = blocks
  epochs = epochs
  Flow <- TwoFlows
  SubType <- OneType
  MaxPending = 1
  MaxReconnectAttempts = 1
  AutoReconnect = TRUE
  MaxSockets = 2
  MaxRequests = 2
  MaxDropped = 1
  SocketsMayFail = TRUE
  NetworkMayStall = TRUE
  Refusable <- EveryKind
  UserMayDisconnect = FALSE
  UserConnects = "settled"
  UserMayClearCache = TRUE
PROPERTIES
  RequestsSettle
  ConnectReturns
  ReconnectEnds
\* The sockets, requests and flows of the bounds run out.
CHECK_DEADLOCK FALSE
