CONSTANTS
  Providers = {"process", "mock"}
  Callers = {"scheduler", "direct"}
  MemoryLimit = 2
  MaxChunks = 3
SPECIFICATION FairSpec
INVARIANTS
  ResultMatchesCause
PROPERTY EveryAttemptReturns
CHECK_DEADLOCK FALSE
