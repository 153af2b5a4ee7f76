SPECIFICATION Spec
CONSTANTS
  NTask = 3
  NFrame = 10
  NKpage = 12
  NMmap = 1
  Values = {0, 1}
  Fresh = {0}
  Modes = {"user"}
  Calls = {"fork"}
  MmapKinds = {}
  FixedMmap = FALSE
  Unmapped = Unmapped
INVARIANT
  CowAssertHolds
CHECK_DEADLOCK FALSE
