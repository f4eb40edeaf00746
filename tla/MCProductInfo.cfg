CONSTANTS
  c1 = c1
  c2 = c2
  c3 = c3
  NoMap = NoMap
  Client <- Clients
  Bucket = 2
  PortHasColon = FALSE
  MaxStarts = 1
CHECK_DEADLOCK FALSE
SPECIFICATION Spec
INVARIANTS TypeOK Kept
PROPERTY ClientsEnd
