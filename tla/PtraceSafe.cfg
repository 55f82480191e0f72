SPECIFICATION Spec
CONSTANTS
  Pids = {1, 2, 3}
  Initial = {1, 2}
  MainOnly = FALSE
  MaxTids = 3
  MAXTID = 4
  Interruptible = TRUE
  MaxSignals = 1
INVARIANTS TypeOK AllTraced LoggedBefore Forwarded
PROPERTIES Released
CHECK_DEADLOCK FALSE
