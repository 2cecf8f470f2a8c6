SPECIFICATION Spec
CONSTANTS
  ArrSize = 3
  StartMax = 2
  Accounts <- SampleAccounts
  Queries <- SampleQueries
INVARIANTS
  TypeOK
  AnswerExact
PROPERTY
  AnswersKept
