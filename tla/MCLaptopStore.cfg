CONSTANTS
  Proc = {p1, p2, p3}
  NoProc = NoProc
  Id = {i1, i2}
  NoId = NoId
  BadId = BadId
  cheap = cheap
  dear = dear
  Body <- MCBody
  NoBody = NoBody
  Filter <- MCFilter
SPECIFICATION Spec
SYMMETRY Perms
INVARIANTS
  TypeOK
  MutexInv
  SearchExact
PROPERTY CatalogSpec
