SPECIFICATION Spec
CONSTANTS
  SettleTimes = {4}
  UpdateTime = 3
  CommitTime = 1
  OpenMayFail = TRUE
  MaxDraws = 1
  LastDraw = 8
  MaxTime = 14
INVARIANT StillIsClean
CHECK_DEADLOCK FALSE
