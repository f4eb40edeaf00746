CONSTANTS
  Proc = {p1, p2}
  NoProc = NoProc
  Laptop = {l1}
  NoLaptop = NoLaptop
  Score <- EqualScores
  CountLimit = 8
  NoRating = NoRating
  MaxRatings = 3
SPECIFICATION Spec
INVARIANT AverageInRange
