SPECIFICATION TsoSpec
CONSTANTS
  Mss = {2, 3}
  LinearLens = {0, 1, 2}
  Frags <- SmallFrags
  Avail = {6, 12, 20}
  MapFails = TRUE
INVARIANTS CutExactly PacketsOfMss CountsTrue
CHECK_DEADLOCK FALSE
