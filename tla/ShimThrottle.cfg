SPECIFICATION Spec
CONSTANTS
  PanelW = 2
  PanelH = 1
  MaxRects = 2
  Regions <- FewRegions
  IdleFrames = FALSE
  Objects = {1, 2}
  Plane = 2
  MaxObj = 2
  HashMod = 65536
  Recheck = 1
  Settings <- OneThrottled
  MayFail = FALSE
  LookupMayFail = FALSE
  MaxFrames = 2
  MaxTime = 3
  MaxDrives = 5
INVARIANT SeenIsInBuffer
CHECK_DEADLOCK FALSE
