SPECIFICATION Spec
CONSTANTS
  PerSector = 2
  DevUnits = 12
  Layouts <- MCLayouts
  Growth <- MCGrowth
  Images <- MCImages
  MaxPct = 100
  MayCross = FALSE
  MaxFlashes = 3
INVARIANTS OnlyOwnSectors DeviceIsBase OldOrNew
CHECK_DEADLOCK FALSE
