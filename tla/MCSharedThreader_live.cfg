\* Progress: no crash, no failed creation, one closing call, one task that may stall.
SPECIFICATION FairSpec
CONSTANTS
  t1 = t1
  t2 = t2
  t3 = t3
  c1 = c1
  c2 = c2
  Task <- ThreeTasks
  Closer <- OneCloser
  Stalling <- OneTask
  PoolSize = 2
  MaxInits = 2
  InitMayFail = FALSE
  WorkerMayCrash = FALSE
PROPERTIES
  EveryTaskSettles
  CloseReturns
\* Once every task has been submitted and answered there is nothing to do.
CHECK_DEADLOCK FALSE
