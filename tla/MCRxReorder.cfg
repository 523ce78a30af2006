SPECIFICATION Spec
CONSTANTS
  SeqModulo = 16
  WSizes = {2, 4}
  Ssns = {0, 13}
  Frames <- MCFrames
  NULL = NULL
INVARIANTS TypeOK StoredCount InWindow HeadSlotEmpty
PROPERTIES InOrder NoHeldFrameLost NoFalseDrop
CHECK_DEADLOCK FALSE
