SPECIFICATION FairSpec
CONSTANTS
  NoContext = NoContext
  N = 2
  Users = {u1, u2}
  MaxUsed = 1
  MaxRetry = 1
  Restartable = FALSE
  FreesTwice = TRUE
  MaxTracers = 1
INVARIANTS
  TypeOK
PROPERTIES
  StopTerminates
  AllocReturns
