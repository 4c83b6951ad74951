CONSTANTS
  MaxChildren = 2
  MaxAgents = 2
  Settled = {1}
  Timed = {1}
  Bound <- Bounds
  Concurrency = 2
  MaxDepth = 2
SPECIFICATION FairSpec
INVARIANTS
  BudgetExact
  ReportsAgree
PROPERTIES
  AbortedReturns
CHECK_DEADLOCK FALSE
