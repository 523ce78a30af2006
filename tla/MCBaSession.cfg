SPECIFICATION SessionSpec
CONSTANTS
  SeqModulo = 16
  WSizes = {2, 4}
  Ssns = {0, 7}
  MaxFrame = 20
  Frames <- MCFrames
  VringMax = 2
  NULL = NULL
PROPERTIES DeliversInOrder
CHECK_DEADLOCK FALSE
