SPECIFICATION FairSpec
CONSTANTS
  Conns = {c1, c2}
  RECV_SZ = 5
  Requests <- SampleRequests
INVARIANTS
  TypeOK
  PostWhole
  AnsweredWhole
PROPERTIES
  NeverCutOff
  RequestAnswered
  LeftIsClosed
CHECK_DEADLOCK FALSE
