SPECIFICATION Spec
CONSTANTS
  ArrSize = 3
  Codes = {0, 1, 2}
  NONEMPTY = 9
  OffMod = 8
  NeMod = 8
  MaxLimit = 1
  Repost = TRUE
INVARIANTS
  ValueWalkComplete
  NonemptyWalkComplete
