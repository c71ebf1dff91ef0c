CONSTANTS
  Names = {n1, n2}
  Savers = {s1}
  Recoverers = {r1}
  IOErrors = FALSE
  MaxVer = 2
  MaxCrash = 0
  NoThread = NoThread
  NoFile = NoFile
SPECIFICATION Spec
INVARIANT RecoverKeepsAcked
CHECK_DEADLOCK FALSE
