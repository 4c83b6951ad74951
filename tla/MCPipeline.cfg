CONSTANTS
  ItemCount = 3
  StageCount = 2
  Strategies = {"item-streaming", "stage-barrier"}
  Concurrency = 2
  StageConcurrency <- OwnLimits
  StageOption <- OptionLimits
  TimedStages = {2}
  FailFast = TRUE
  PreserveOrder = TRUE
  WritesFail = TRUE
SPECIFICATION FairSpec
INVARIANTS
  LimitsHold
  ItemsFlow
PROPERTY AbortEndsPipeline
CHECK_DEADLOCK FALSE
