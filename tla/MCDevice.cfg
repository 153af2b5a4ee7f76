SPECIFICATION FairSpec
CONSTANTS
  TASK_NR = 4
  Disks = {sda, sdb}
  Idx = {1, 2}
  Secs = 2
  RawIO = TRUE
  None = None
INVARIANTS
  OneTransfer
  OneServed
PROPERTIES
  DisksMakeProgress
