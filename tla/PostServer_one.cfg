SPECIFICATION FairSpec
CONSTANTS
  Workers = {w1}
  ArrSize = 4
  LOW = 2
  HIGH = 4
  MaxPosts = 6
INVARIANTS
  TypeOK
  AckedIsKnown
  IndexCoversAcked
  LowRunsOnce
