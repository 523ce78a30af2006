SPECIFICATION FairSpec
CONSTANTS
  NMsi = {1, 3}
  Budget = 2
  MaxResets = 1
  Loads <- MCLoads
  NULL = NULL
INVARIANTS MaskedWhileServed MaskHasOwner
PROPERTIES WorkHandled
CHECK_DEADLOCK FALSE
