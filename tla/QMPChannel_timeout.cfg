CONSTANTS
  Tasks = {t1}
  Connector = t1
  NoTask = NoTask
  Timeouts = TRUE
  MaxCmd = 3
  MaxEvents = 0
SPECIFICATION Spec
INVARIANT ReplyMatches
CHECK_DEADLOCK FALSE
