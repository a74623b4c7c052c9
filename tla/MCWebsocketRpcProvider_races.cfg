\* Everything may happen, but for clearCache() called by the user.
SPECIFICATION Spec
CONSTANTS
  f1 = f1
  f2 = f2
  blocks = blocks
  epochs = epochs
  Flow <- TwoFlows
  SubType <- OneType
  MaxPending = 1
  MaxReconnectAttempts = 1
  AutoReconnect = TRUE
  MaxSockets = 2
  MaxRequests = 3
  MaxDropped = 1
  SocketsMayFail = TRUE
  NetworkMayStall = TRUE
  Refusable <- EveryKind
  UserMayDisconnect = TRUE
  UserConnects = "anytime"
  UserMayClearCache = FALSE
SYMMETRY Symmetry
INVARIANTS
  TypeOK
  UnsettledIsGuarded
  PendingBounded
  RightAnswer
PROPERTIES
  ImplementsLedger
\* The sockets, requests and flows of the bounds run out.
CHECK_DEADLOCK FALSE
