CONSTANTS
  VMs = {a}
  Tasks = {t1}
  NoVM = NoVM
  Slow = FALSE
  BasePort = 1
  MaxPort = 1
  MaxProc = 2
  MaxRestart = 0
SPECIFICATION Spec
PROPERTY GracefulFirst
CHECK_DEADLOCK FALSE
