SPECIFICATION Spec
CONSTANTS
  TASK_NR = 4
  Blocks = {k1, k2}
  NBuf = 2
  MaxWrites = 1
  None = None
INVARIANTS
  FreeIsUnused
  HoldersSeeLatest
  NoBufferWasted
CHECK_DEADLOCK FALSE
