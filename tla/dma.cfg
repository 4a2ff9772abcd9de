\* A frame of six pixels, one more than the pipeline can hold, three by two so
\* that lines have a first, an inner and a last pixel; the smallest thresholds
\* DMAAssumption allows, with no slack in Depth.
CONSTANTS
  A = A
  B = B
  C = C
  PIXELS = 3
  LINES = 2
  Depth = 5
  AlmostEmpty = 1
  AlmostFull = 3
  StallAt = 1
  ResumeAt = 0
  PendingMod = 4
  Buffers <- MCBuffers
  DefaultBuffer = A
  DefaultBackBuffer = B
SPECIFICATION MCSpec
INVARIANTS
  RoomForEveryRead
  PipelineInRasterOrder
  PacketsAreFrames
  DMAInv
  DriverMirrorsHardware
  DrawsOffScreen
PROPERTIES
  StreamsFrames
  PollingEnds
