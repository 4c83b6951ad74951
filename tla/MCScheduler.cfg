CONSTANTS
  t1 = t1
  t2 = t2
  t3 = t3
  t4 = t4
  Tasks = {t1, t2, t3, t4}
  Ids = {t1, t2, t3, t4}
  IdOf <- DistinctIds
  Concurrency = 2
  FailFastTasks = {t1, t2, t3}
  Deferred = {t2}
  Timed = {t1, t3}
  Waiters = {w1}
SPECIFICATION FairSpec
INVARIANTS
  TypeOK
  AbortReachesEveryTask
  SettledCleanly
PROPERTIES
  DrainReturnsIdle
  PromisesSettle
  ImplementsTaskPool
CHECK_DEADLOCK FALSE
