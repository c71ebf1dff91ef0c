CONSTANTS
  Names = {n1, n2}
  Savers = {s1, s2}
  Recoverers = {}
  IOErrors = FALSE
  MaxVer = 3
  MaxCrash = 3
  NoThread = NoThread
  NoFile = NoFile
SPECIFICATION CrashSpec
SYMMETRY Symmetry
INVARIANT AckedDurable
PROPERTY RefinesDurableMap
CHECK_DEADLOCK FALSE
