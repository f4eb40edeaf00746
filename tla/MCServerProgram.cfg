CONSTANTS
  k1 = k1
  Call <- OneCall
  Called <- AllMethods
  refreshDuration = 2
  tokenDuration = 6
  LoginTimeout = 1
  CallTimeout = 1
  Lateness = 1
  Second = 2
  MaxTime = 20
CHECK_DEADLOCK FALSE
SPECIFICATION ServerSpec
INVARIANTS ServerTypeOK RolesRespected
PROPERTY TokenSpec
