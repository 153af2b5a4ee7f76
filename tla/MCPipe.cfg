SPECIFICATION FairSpec
CONSTANTS
  TASK_NR = 4
  Data = {x, y}
  BufSize = 3
  Readers = {1}
  Writers = {2, 3}
  MaxCount = 3
  None = None
CHECK_DEADLOCK FALSE
INVARIANTS
  SleepersAreKnown
PROPERTIES
  IsFifo
  CallsReturn
