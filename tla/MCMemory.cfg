SPECIFICATION Spec
CONSTANTS
  NTask = 2
  NFrame = 10
  NKpage = 12
  NMmap = 1
  Values = {0, 1}
  Fresh = {0}
  Modes = {"user"}
  Calls = {"fork", "exit", "execve", "brk", "mmap"}
  MmapKinds = {"rw-shared", "ro-private"}
  FixedMmap = FALSE
  Unmapped = Unmapped
INVARIANTS
  MapCounts
  WritableIsPrivate
  KernelPagesOwned
PROPERTY
  Isolated
CHECK_DEADLOCK FALSE
VIEW Shape
