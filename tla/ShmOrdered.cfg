SPECIFICATION FairSpec
CONSTANTS
  PanelW = 2
  PanelH = 1
  MaxRects = 2
  Regions <- MCRegions
  Attempts = 2
  Recheck = 2
  Ordered = TRUE
  MaxFrames = 3
  MaxSfRestarts = 0
  MaxComposerRestarts = 1
INVARIANTS TypeOK NoTornRead AttachedToHeader
PROPERTIES IsMailbox ReadEnds
