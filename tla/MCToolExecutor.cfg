CONSTANTS
  Calls = {c1, c2, c3}
  Limit = 1
  Timed = {c1}
  Reasons = {"user"}
  StoreFails = {c1}
SPECIFICATION FairSpec
INVARIANTS
  LimiterExact
  CloseLeavesNothing
PROPERTIES
  VerdictIsFinal
  CallsReturn
CHECK_DEADLOCK FALSE
