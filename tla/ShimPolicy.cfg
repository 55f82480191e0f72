SPECIFICATION Spec
CONSTANTS
  PanelW = 2
  PanelH = 1
  MaxRects = 2
  Regions <- FewRegions
  IdleFrames = TRUE
  Objects = {1, 2}
  Plane = 2
  MaxObj = 2
  HashMod = 65536
  Recheck = 1
  Settings <- FourSettings
  MayFail = TRUE
  LookupMayFail = FALSE
  MaxFrames = 2
  MaxTime = 2
  MaxDrives = 3
VIEW LiveState
INVARIANTS TypeOK BufferIsFrame
PROPERTIES TouchesOnlyRequested CleanInTime
CHECK_DEADLOCK FALSE
