SPECIFICATION Spec
CONSTANTS
  MaxCid = 2
  MaxRings = 2
  Addr = {a1, a2}
  OwnAddr = own
  EvMax = 2
  NULL = NULL
INVARIANTS TypeOK LookupFindsRing PendingAwaited
SYMMETRY Symmetry
CHECK_DEADLOCK FALSE
