CONSTANTS
  Agents = {a, b}
  MaxAttempts = 2
  DisableDelay = FALSE
  MaxAgentCalls = 4
  Concurrency = 2
  FailFast = FALSE
  Results <- ResultKinds
SPECIFICATION Spec
INVARIANT CancelReachesAttempt
CHECK_DEADLOCK FALSE
