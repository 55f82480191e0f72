SPECIFICATION Spec
CONSTANTS
  PanelW = 2
  PanelH = 1
  MaxRects = 2
  Regions <- FewRegions
  IdleFrames = TRUE
  Objects = {1, 2}
  Plane = 2
  MaxObj = 2
  HashMod = 65536
  Recheck = 1
  Settings <- OneSetting
  MayFail = FALSE
  LookupMayFail = FALSE
  MaxFrames = 2
  MaxTime = 1
  MaxDrives = 5
PROPERTY IdleIsQuiet
CHECK_DEADLOCK FALSE
