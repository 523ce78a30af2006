SPECIFICATION FairSpec
CONSTANTS
  MaxRings = 2
  Size = 4
  StopBelow = 1
  WakeAbove = 1
  Needs = {1, 2}
  s1 = s1
  s2 = s2
  Stations <- TwoStations
  Dest <- AllDest
  DmaErrors = TRUE
  Churn = TRUE
  Overlap = FALSE
  ALL = ALL
  EAPOL = EAPOL
  NULL = NULL
PROPERTIES StoppedWithWorkWoken BroadcastOnce
CHECK_DEADLOCK FALSE
