SPECIFICATION CommitSpec
CONSTANTS
  PanelW = 2
  PanelH = 1
  MaxRects = 2
  Regions <- FewRegions
  Attempts = 2
  Recheck = 1
  Ordered = FALSE
  MaxFrames = 2
  MaxSfRestarts = 1
  MaxComposerRestarts = 0
PROPERTY LastFrameIsSeen
