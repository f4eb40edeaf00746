CONSTANTS
  Proc = {p1, p2}
  NoProc = NoProc
  Laptop = {l1}
  NoLaptop = NoLaptop
  Score <- Scores
  CountLimit = 3
  NoRating = NoRating
  MaxRatings = 3
SPECIFICATION FairSpec
INVARIANTS
  TypeOK
  ReplyWithinWindow
PROPERTIES LedgerSpec RatingAnswered
