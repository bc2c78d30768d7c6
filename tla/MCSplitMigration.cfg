\* Three requests of two keys, before, between and after any commands.
SPECIFICATION Spec
CONSTANTS
  k1 = k1
  k2 = k2
  Keys = {k1, k2}
  MaxRequests = 3
SYMMETRY SameKey
CHECK_DEADLOCK FALSE
INVARIANTS
  TypeOK
  CarriedOver
  BackedUpFirst
