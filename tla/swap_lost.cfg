\* Frames of four pixels and the smallest thresholds DMAAssumption allows.
CONSTANTS
  A = A
  B = B
  C = C
  PIXELS = 2
  LINES = 2
  Depth = 5
  AlmostEmpty = 1
  AlmostFull = 3
  StallAt = 1
  ResumeAt = 0
  PendingMod = 4
  Buffers <- MCBuffers
  DefaultBuffer = A
  DefaultBackBuffer = B
SPECIFICATION MCSpec
INVARIANT
  ZeroMeansComplete
