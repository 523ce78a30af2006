SPECIFICATION Spec
CONSTANTS
  Callers = {"c1", "c2"}
  Kinds <- MCKinds
  RingSize = 2
  Exclusive = TRUE
  MaxCalls = 2
  MaxNews = 1
  MaxResets = 1
  NULL = NULL
INVARIANTS TypeOK ReplySlotOwned
PROPERTIES OwnReply
CHECK_DEADLOCK FALSE
