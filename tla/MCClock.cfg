SPECIFICATION ClockSpec
CONSTANTS
  TASK_NR = 4
  W = 4
  Priority <- Slices
  Delays = {0, 1, 3}
  Boot = 0
  Uptime = 5
INVARIANTS
  SlicesNeverEmpty
PROPERTIES
  NoLateTimer
  NoEarlyWakeup
CHECK_DEADLOCK FALSE
