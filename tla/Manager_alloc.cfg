SPECIFICATION Spec
CONSTANTS
  NoContext = NoContext
  N = 2
  Users = {u1, u2, u3}
  MaxUsed = 2
  MaxRetry = 2
  Restartable = FALSE
  FreesTwice = FALSE
  MaxTracers = 2
SYMMETRY UserSymmetry
INVARIANTS
  OneStarter
  UpServerNotOverused
  UsedHasUser
  UpServerIsUsed
