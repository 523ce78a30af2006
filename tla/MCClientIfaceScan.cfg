SPECIFICATION Spec
CONSTANTS
  MaxScans = 1
  MaxRocs = 1
  MaxConnects = 1
  MaxDowns = 0
  MaxAsked = 3
  NULL = NULL
PROPERTIES NoScanAfterConnect
CHECK_DEADLOCK FALSE
