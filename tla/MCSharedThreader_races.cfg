\* run(), terminate() and drain() at any moment, crashes and failed creations.
SPECIFICATION Spec
CONSTANTS
  t1 = t1
  t2 = t2
  t3 = t3
  c1 = c1
  c2 = c2
  Task <- ThreeTasks
  Closer <- TwoClosers
  Stalling <- NoTask
  PoolSize = 2
  MaxInits = 2
  InitMayFail = TRUE
  WorkerMayCrash = TRUE
SYMMETRY Symmetry
INVARIANTS
  TypeOK
  OneTaskPerWorker
  OwnResult
  NoIdleWorkerWhileQueued
  NothingSwallowed
  PoolBounded
PROPERTIES
  StartsOnce
\* Once every task has been submitted and answered there is nothing to do.
CHECK_DEADLOCK FALSE
