SPECIFICATION FairSpec
CONSTANTS
  TASK_NR = 5
  Preemptible = FALSE
INVARIANTS
  MutualExclusion
  WaitersAreAsleep
  NoLostWakeup
PROPERTIES
  WaitersMakeProgress
