CONSTANTS
  Agents = {a, b}
  MaxAttempts = 2
  DisableDelay = FALSE
  MaxAgentCalls = 2
  Concurrency = 1
  FailFast = TRUE
  Budgets = {1, 2}
  Results <- ResultKinds
SPECIFICATION FrontSpec
INVARIANTS
  SharedLimitsExact
  CallsTellTheTruth
PROPERTIES
  AttemptsAreJustified
  EveryCallReturns
CHECK_DEADLOCK FALSE
