CONSTANTS
  c1 = c1
  c2 = c2
  o1 = o1
  o2 = o2
  b1 = b1
  b2 = b2
  NoOrder = NoOrder
  Client <- Clients
  Order <- Orders
  Body <- Bodies
  Query <- Queries
  Updates <- ClientUpdates
  Sample <- SampleData
  MaxUpdates = 2
  MaxRestarts = 1
CHECK_DEADLOCK FALSE
SPECIFICATION FairSpec
INVARIANTS TypeOK SearchFair UpdatesKept
PROPERTY OrderBookSpec
PROPERTY ClientsMoveOn
