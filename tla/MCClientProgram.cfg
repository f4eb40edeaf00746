CONSTANTS
  laptopIDs <- TwoLaptops
  Window = 1
  Weight <- Powers
  Word = 32768
  Copies = 2
  Sample <- Samples
  Foreign <- Others
  MaxRestarts = 1
CHECK_DEADLOCK FALSE
SPECIFICATION FairSpec
INVARIANTS TypeOK OutcomeTrue SearchTells NeverPanics
PROPERTY CallsEnd
