SPECIFICATION FairSpec
CONSTANTS
  Size = 8
  StopBelow = 4
  WakeAbove = 5
  SkbShapes <- Gso
  DmaErrors = FALSE
  NULL = NULL
PROPERTIES EarlierReleased
CHECK_DEADLOCK FALSE
