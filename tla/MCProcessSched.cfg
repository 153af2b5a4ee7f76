SPECIFICATION FairSpec
CONSTANTS
  TASK_NR = 4
  Calls = {"fork", "exit", "sleep", "read", "yield", "beep"}
  Shells = {2}
  Durations = {1, 2}
  BeepLast = 1
  MaxTimers = 2
  ExitBlocks = FALSE
INVARIANTS
  DeviceWaitsAreExact
  SleepersHaveTimers
PROPERTIES
  SleepEnds
  ReadyRuns
CHECK_DEADLOCK FALSE
