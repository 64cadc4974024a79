SPECIFICATION FairSpec
CONSTANTS
  Base      = 2
  MaxFrames = 2
  Body     <- MCBody
INVARIANTS
  BufferAccounted
  EndLosesNoFrame
PROPERTIES
  RefinesFrameChannel
  FramesArrive
