\* What applications do with the library, one at a time: each method and each ABI by itself,
\* and small instances of what overlaps.
SPECIFICATION Spec
CONSTANTS
  MaxCalls = 2
  MaxAsks = 3
  Slot <- MCSlot
  Fresh = 1
  MaxTime = 2
  Uses <- MCUses
  Scale = 10
  GasPerSat <- MCGasPerSat
  Fees <- MCFees
  Challenge <- MCChallenge
  Workers = 2
  Refusals <- MCRefusals
INVARIANTS
  TypeOK
  CachedAnswersFresh
  ErrorsSurface
  QuestionsArrive
  UndisturbedCall
  UsedOnce
  CalldataUnderstood
  ResultsUnderstood
  GasAge
  EstimateCovers
  FundsCover
  BroadcastOnce
  OfflineSignsSame
PROPERTIES
  Settles
  CallsEnd
\* An application does what its use says and stops.
CHECK_DEADLOCK FALSE
