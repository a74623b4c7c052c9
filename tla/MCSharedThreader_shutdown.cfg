\* terminate() while the pool is being created.
SPECIFICATION Spec
CONSTANTS
  t1 = t1
  t2 = t2
  t3 = t3
  c1 = c1
  c2 = c2
  Task <- TwoTasks
  Closer <- OneCloser
  Stalling <- NoTask
  PoolSize = 1
  MaxInits = 1
  InitMayFail = FALSE
  WorkerMayCrash = FALSE
INVARIANTS
  TerminateShutsDown
CHECK_DEADLOCK FALSE
