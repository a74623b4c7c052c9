\* Two sends at a time, CSV coins, purges and failures.
SPECIFICATION Spec
CONSTANTS
  s1 = s1
  s2 = s2
  r1 = r1
  Sender <- TwoSenders
  Reader <- OneReader
  MaxCoins = 4
  InitMain <- OneCoin
  CsvCoin <- ThirdCoin
  MaxWant = 1
  Limit = 1
  FetchCooldown = 1
  AutoPurgeAfter = 0
  MaxTime = 2
  NodeLags = FALSE
  ReadersBatch = FALSE
  NetworkMayFail = TRUE
INVARIANTS
  TypeOK
  CacheNotOlderThanStamp
  DepthOfEachPending
\* Coins and time run out.
CHECK_DEADLOCK FALSE
