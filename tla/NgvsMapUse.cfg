SPECIFICATION MapSpec
CONSTANTS
  VMod = 3
  Keys = {0, 2, 3}
  MaxSorts = 2
INVARIANTS
  KeysFind
  CountsKept
  ListsCounted
