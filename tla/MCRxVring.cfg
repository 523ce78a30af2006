SPECIFICATION FairSpec
CONSTANTS
  Size = 4
  Budget = 2
  FrameKinds = {"data", "other"}
  AllocFails = TRUE
  Restart = FALSE
  MaxFrames = 7
  MaxInits = 2
  NULL = NULL
INVARIANTS BuffersInWindow HwOwnsItsSlots
PROPERTIES ReapedInOrder CompletedReaped
CHECK_DEADLOCK FALSE
