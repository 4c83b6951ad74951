SPECIFICATION CommandSpec
CONSTANTS
  Scenarios <- MCScenarios
  Configurations <- MCConfigurations
  AliasOrder <- MCAliasOrder
  BuiltIns <- MCBuiltIns
  RoundCeiling = 3
  IdTexts = {"e", "f"}
  Indices = {1, 2}
INVARIANTS
  InheritanceIsSound
  PrecedenceHolds
  RetryIsExplained
  ResumeReplays
  RegistryIsClosed
  NothingStrayIsLoaded
  PlacementsAgree
  RefusalsAreJustified
  IdsAreExplained
CHECK_DEADLOCK FALSE
