CONSTANTS
  Proc = {p1, p2}
  NoProc = NoProc
  Id = {i1, i2}
  NoId = NoId
  BadId = BadId
  cheap = cheap
  dear = dear
  Body <- MCBody
  NoBody = NoBody
  Filter <- MCFilter
SPECIFICATION Spec
PROPERTY NoOverwrite
