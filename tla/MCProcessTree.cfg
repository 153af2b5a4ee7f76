SPECIFICATION Spec
CONSTANTS
  TASK_NR = 4
  Calls = {"fork", "exit", "waitpid", "kill", "signal", "setsid"}
  Shells = {2}
  Durations = {1}
  BeepLast = 1
  MaxTimers = 0
  ExitBlocks = TRUE
INVARIANTS
  OneRunning
  FamilyTree
  NoExitPanic
  WaitedFirstIsReaped
PROPERTY
  ZombieUntilReaped
CHECK_DEADLOCK FALSE
