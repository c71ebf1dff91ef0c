CONSTANTS
  VMs = {a}
  Tasks = {t1}
  NoVM = NoVM
  Slow = TRUE
  BasePort = 1
  MaxPort = 1
  MaxProc = 2
  MaxRestart = 0
SPECIFICATION Spec
INVARIANT OneProcess
CHECK_DEADLOCK FALSE
