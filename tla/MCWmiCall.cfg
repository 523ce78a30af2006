SPECIFICATION FairSpec
CONSTANTS
  Callers = {"c1"}
  Kinds <- OneKind
  RingSize = 2
  Exclusive = TRUE
  MaxCalls = 2
  MaxNews = 1
  MaxResets = 1
  NULL = NULL
INVARIANTS TypeOK ReplySlotOwned
PROPERTIES OwnReply CallsReturn EventsHandled
CHECK_DEADLOCK FALSE
