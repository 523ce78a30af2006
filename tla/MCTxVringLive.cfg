SPECIFICATION FairSpec
CONSTANTS
  Size = 6
  StopBelow = 2
  WakeAbove = 3
  SkbShapes <- Plain
  DmaErrors = TRUE
  NULL = NULL
INVARIANTS TypeOK
PROPERTIES StoppedWithWorkWoken
CHECK_DEADLOCK FALSE
