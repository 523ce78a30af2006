SPECIFICATION FairSpec
CONSTANTS
  MaxScans = 2
  MaxRocs = 2
  MaxConnects = 2
  MaxDowns = 1
  MaxAsked = 3
  NULL = NULL
INVARIANTS OneAnswer ScanPossibleAgain
PROPERTIES ReadyThenExpired AllAnswered
CHECK_DEADLOCK FALSE
