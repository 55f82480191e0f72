SPECIFICATION RegionSpec
CONSTANTS
  PanelW = 2
  PanelH = 1
  MaxRects = 2
  MaxRegion = 3
  InputRects <- MCInputRects
INVARIANTS DamageIsRefreshed KernelAccepts NoOverRefresh
CHECK_DEADLOCK FALSE
