\* Connections drop and the server refuses; timers are long enough, and the user stays connected.
SPECIFICATION Spec
CONSTANTS
  f1 = f1
  f2 = f2
  blocks = blocks
  epochs = epochs
  Flow <- TwoFlows
  SubType <- TwoTypes
  MaxPending = 4
  MaxReconnectAttempts = 1
  AutoReconnect = TRUE
  MaxSockets = 3
  MaxRequests = 4
  MaxDropped = 2
  SocketsMayFail = FALSE
  NetworkMayStall = FALSE
  Refusable <- Requests
  UserMayDisconnect = FALSE
  UserConnects = "fresh"
  UserMayClearCache = FALSE
SYMMETRY Symmetry
INVARIANTS
  OneConnection
  ReadyServed
  HonestSubscriptions
\* The sockets, requests and flows of the bounds run out.
CHECK_DEADLOCK FALSE
