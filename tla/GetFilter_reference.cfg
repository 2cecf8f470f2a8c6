SPECIFICATION Spec
CONSTANTS
  ArrSize = 3
  StartMax = 1
  Accounts <- SampleAccounts
  Queries <- SampleQueries
INVARIANT
  AnswersPassReference
