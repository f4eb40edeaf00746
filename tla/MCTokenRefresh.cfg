CONSTANTS
  k1 = k1
  k2 = k2
  Call <- Calls
  Called <- Methods
  refreshDuration = 2
  tokenDuration = 11
  LoginTimeout = 1
  CallTimeout = 1
  Lateness = 1
  Second = 2
  MaxTime = 20
CHECK_DEADLOCK FALSE
SPECIFICATION Spec
SYMMETRY Symmetry
INVARIANTS TypeOK TokenOutlivesCall
PROPERTY AccessSpec
