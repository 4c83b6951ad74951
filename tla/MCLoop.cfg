CONSTANTS
  MaxRounds = 2
  MaxCalls = 2
  FailureMode = "throw"
SPECIFICATION FairSpec
INVARIANTS
  LoopTellsItsStory
PROPERTIES
  AbortEndsLoop
CHECK_DEADLOCK FALSE
