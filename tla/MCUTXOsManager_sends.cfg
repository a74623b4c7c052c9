\* One send at a time next to batch reads; purges, and an indexer that lags.
SPECIFICATION Spec
CONSTANTS
  s1 = s1
  s2 = s2
  r1 = r1
  Sender <- OneSender
  Reader <- OneReader
  MaxCoins = 4
  InitMain <- TwoCoins
  CsvCoin <- NoCoin
  MaxWant = 2
  Limit = 3
  FetchCooldown = 1
  AutoPurgeAfter = 1
  MaxTime = 3
  NodeLags = TRUE
  ReadersBatch = TRUE
  NetworkMayFail = FALSE
INVARIANTS
  ConflictNeedsBoth
  DepthKept
\* Coins and time run out.
CHECK_DEADLOCK FALSE
