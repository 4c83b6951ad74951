CONSTANTS
  Programs <- Workflows
  Width = 2
  MaxRuns = 3
SPECIFICATION Spec
INVARIANTS
  ReplayIsSound
  CrashLeavesLoadableEntries
  SerialPrefixReused
CHECK_DEADLOCK FALSE
