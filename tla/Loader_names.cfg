SPECIFICATION Spec
CONSTANTS
  ArrSize = 4
  x = x
  y = y
  z = z
  Names = {x, y, z}
  NoName = none
  Accounts <- SampleAccounts
INVARIANTS
  TypeOK
  NamesPrinted
  NamesFind
  SuggestExact
  EmailsTaken
