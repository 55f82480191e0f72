SPECIFICATION FairSpec
CONSTANTS
  SettleTimes = {0, 4}
  UpdateTime = 3
  CommitTime = 1
  OpenMayFail = TRUE
  MaxDraws = 3
  LastDraw = 7
  MaxTime = 12
INVARIANTS TypeOK SettlesAnswerDraws MarkersUnique
PROPERTY Settles
CHECK_DEADLOCK FALSE
