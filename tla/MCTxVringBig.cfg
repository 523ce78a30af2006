SPECIFICATION Spec
CONSTANTS
  Size = 8
  StopBelow = 4
  WakeAbove = 5
  SkbShapes <- Plain
  DmaErrors = TRUE
  NULL = NULL
INVARIANTS TypeOK HwInWindow RefsBalanced MappedInWindow
CHECK_DEADLOCK FALSE
