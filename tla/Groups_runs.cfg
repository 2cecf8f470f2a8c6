SPECIFICATION Spec
CONSTANTS
  VMod = 4
  ArrSize = 3
  Years = 2
  Accounts <- SampleAccounts
  NoFilter = none
  MaxLimit = 2
  MaxRuns = 2
INVARIANTS
  TypeOK
  CountersAddUp
  AnswerIsOrdered
  AnswerIsTop
PROPERTIES
  UsesMap
