SPECIFICATION FairSpec
CONSTANTS
  Workers = {w1, w2}
  ArrSize = 2
  LOW = 2
  HIGH = 4
  MaxPosts = 6
INVARIANTS
  HighRunsOnce
  RatingIndexesAlone
  LowRunsPerWorker
PROPERTIES
  RequestHandled
