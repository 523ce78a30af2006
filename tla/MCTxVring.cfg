SPECIFICATION FairSpec
CONSTANTS
  Size = 6
  StopBelow = 2
  WakeAbove = 3
  SkbShapes <- Plain
  DmaErrors = TRUE
  NULL = NULL
INVARIANTS HwInWindow RefsBalanced MappedInWindow
PROPERTIES EarlierReleased ImplementsQueue
CHECK_DEADLOCK FALSE
