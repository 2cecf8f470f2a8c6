SPECIFICATION FairSpec
CONSTANTS
  ArrSize = 4
  num_chunks = 2
  Sources = {a, b}
  MaxLimit = 2
INVARIANT
  TypeOK
PROPERTIES
  ImplementsWalk
  QueryAnswered
