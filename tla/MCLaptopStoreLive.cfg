CONSTANTS
  Proc = {p1, p2, p3}
  NoProc = NoProc
  Id = {i1}
  NoId = NoId
  BadId = BadId
  cheap = cheap
  dear = dear
  Body <- MCOneBody
  NoBody = NoBody
  Filter <- MCOneFilter
SPECIFICATION FairSpec
PROPERTY Answered
