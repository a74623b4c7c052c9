\* disconnect() during the backoff of a reconnect().
SPECIFICATION FairSpec
CONSTANTS
  f1 = f1
  f2 = f2
  blocks = blocks
  epochs = epochs
  Flow <- OneFlow
  SubType <- OneType
  MaxPending = 1
  MaxReconnectAttempts = 1
  AutoReconnect = TRUE
  MaxSockets = 2
  MaxRequests = 2
  MaxDropped = 1
  SocketsMayFail = TRUE
  NetworkMayStall = FALSE
  Refusable <- NoKind
  UserMayDisconnect = TRUE
  UserConnects = "settled"
  UserMayClearCache = FALSE
PROPERTIES
  DisconnectStopsReconnect
\* The sockets, requests and flows of the bounds run out.
CHECK_DEADLOCK FALSE
