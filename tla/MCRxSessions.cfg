SPECIFICATION SessionsSpec
CONSTANTS
  SeqModulo = 6
  WSizes = {2}
  Ssns = {4}
  Frames <- MCFrames
  Asked = {5}
  AggMax = 2
  MaxPending = 2
  MaxResets = 1
  NULL = NULL
INVARIANTS BufferConsistent NoStaleRequest
PROPERTIES InOrder LostOnlyOverwritten NoFalseDrop RequestsTaken
CHECK_DEADLOCK FALSE
