\* A split, a few requests and a roll-back.
SPECIFICATION Spec
CONSTANTS
  k1 = k1
  k2 = k2
  Keys = {k1, k2}
  MaxRequests = 2
SYMMETRY SameKey
CHECK_DEADLOCK FALSE
INVARIANTS
  LogsMergedBack
