CONSTANTS
  Tasks = {t1, t2}
  Concurrency = 1
  FailFast = TRUE
  HasSeed = TRUE
SPECIFICATION FairSpec
INVARIANTS
  RunTellsOneStory
  QuietEnd
PROPERTIES
  StoppedNeverSucceeds
  CancelEndsTheRun
CHECK_DEADLOCK FALSE
