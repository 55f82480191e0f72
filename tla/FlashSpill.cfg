SPECIFICATION Spec
CONSTANTS
  PerSector = 2
  DevUnits = 12
  Layouts <- GapLayout
  Growth <- NoGrowth
  Images <- MCImages
  MaxPct = 100
  MayCross = TRUE
  MaxFlashes = 2
INVARIANT OnlyOwnSectors
CHECK_DEADLOCK FALSE
