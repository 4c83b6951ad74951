SPECIFICATION Spec
CONSTANTS
  Scenarios <- MCScenarios
  AliasOrder <- MCAliasOrder
  BuiltIns <- MCBuiltIns
INVARIANT ProfileEffortIsHeard
CHECK_DEADLOCK FALSE
