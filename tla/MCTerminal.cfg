SPECIFICATION Spec
CONSTANTS
  TASK_NR = 4
  BufSize = 3
  Line <- MCLine
  Keys = {"c", "enter", "ctrl"}
  Extended = {"enter"}
  Counts = {1}
  Sources = {"kbd", "com"}
  None = None
INVARIANTS
  ReadersAreKnown
  ReadLocks
PROPERTIES
  KeysAreRead
  CtrlCEndsJob
