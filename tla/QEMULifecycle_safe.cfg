CONSTANTS
  VMs = {a, b}
  Tasks = {t1, t2}
  NoVM = NoVM
  Slow = TRUE
  BasePort = 1
  MaxPort = 2
  MaxProc = 2
  MaxRestart = 1
SPECIFICATION FairSpec
INVARIANTS TypeOK NoOrphan OwnClient
PROPERTIES DestroyStopped StartEnds
CHECK_DEADLOCK FALSE
