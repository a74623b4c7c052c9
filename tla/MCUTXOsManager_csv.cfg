\* CSV coins are reported under one key and read under another.
SPECIFICATION Spec
CONSTANTS
  s1 = s1
  s2 = s2
  r1 = r1
  Sender <- OneSender
  Reader <- NoReader
  MaxCoins = 5
  InitMain <- OneCoin
  CsvCoin <- ThirdCoin
  MaxWant = 2
  Limit = 3
  FetchCooldown = 2
  AutoPurgeAfter = 4
  MaxTime = 3
  NodeLags = FALSE
  ReadersBatch = FALSE
  NetworkMayFail = FALSE
INVARIANTS
  NoDoubleSpend
\* Coins and time run out.
CHECK_DEADLOCK FALSE
