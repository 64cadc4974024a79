SPECIFICATION FairSpec
CONSTANTS
  Base      = 2
  MaxFrames = 3
  Body     <- MCBody
INVARIANTS
  EndLosesNoFrame
PROPERTIES
  RefinesFrameChannel
  FramesArrive
