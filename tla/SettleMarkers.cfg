SPECIFICATION Spec
CONSTANTS
  SettleTimes = {8}
  UpdateTime = 9
  CommitTime = 1
  OpenMayFail = FALSE
  MaxDraws = 3
  LastDraw = 20
  MaxTime = 40
INVARIANT MarkersUnique
CHECK_DEADLOCK FALSE
