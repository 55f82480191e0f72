SPECIFICATION Spec
CONSTANTS
  Pids = {1, 2, 3}
  Initial = {1, 2}
  MainOnly = FALSE
  MaxTids = 3
  MAXTID = 2
  Interruptible = TRUE
  MaxSignals = 1
INVARIANTS LoggedBefore
CHECK_DEADLOCK FALSE
