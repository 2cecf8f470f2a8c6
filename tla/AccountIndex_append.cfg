SPECIFICATION FairSpec
CONSTANTS
  ArrSize = 4
  Codes = {0, 1, 2}
  NONEMPTY = 9
  OffMod = 3
  NeMod = 2
  MaxLimit = 2
  Repost = FALSE
INVARIANTS
  TypeOK
  ValueWalkExact
PROPERTIES
  CursorDescends
  ImplementsWalk
  QueryAnswered
