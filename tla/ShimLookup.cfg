SPECIFICATION Spec
CONSTANTS
  PanelW = 2
  PanelH = 1
  MaxRects = 2
  Regions <- FewRegions
  IdleFrames = FALSE
  Objects = {1, 2}
  Plane = 2
  MaxObj = 2
  HashMod = 65536
  Recheck = 1
  Settings <- OneSetting
  MayFail = FALSE
  LookupMayFail = TRUE
  MaxFrames = 3
  MaxTime = 1
  MaxDrives = 5
INVARIANT BufferIsFrame
CHECK_DEADLOCK FALSE
