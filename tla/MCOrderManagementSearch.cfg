CONSTANTS
  c1 = c1
  c2 = c2
  o1 = o1
  o2 = o2
  b1 = b1
  b2 = b2
  NoOrder = NoOrder
  Client <- Clients
  Order <- OneOrder
  Body <- OneBody
  Query <- Queries
  Updates <- OneUpdate
  Sample <- SampleData
  MaxUpdates = 1
  MaxRestarts = 1
CHECK_DEADLOCK FALSE
SPECIFICATION FairSpec
PROPERTY SearchLoopEnds
