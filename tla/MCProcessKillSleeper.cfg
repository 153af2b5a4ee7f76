SPECIFICATION Spec
CONSTANTS
  TASK_NR = 3
  Calls = {"fork", "exit", "sleep", "kill", "signal"}
  Shells = {2}
  Durations = {1, 2}
  BeepLast = 1
  MaxTimers = 2
  ExitBlocks = FALSE
INVARIANT
  NoExitPanic
CHECK_DEADLOCK FALSE
