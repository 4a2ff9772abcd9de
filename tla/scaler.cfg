\* Frames of three pixels by two lines: a line has a first, an inner and a last
\* pixel, a frame a first and a last line.  Four copies of a line make
\* Multiply_Height loop more than once.
CONSTANTS
  PIXELS = 3
  LINES = 2
  HeightCopies = 4
  WidthCopies = 2
  Buffers = {A, B}
SPECIFICATION FairScalerSpec
INVARIANTS
  ScalerInv
  Enlarged
PROPERTY
  StreamsScaledFrames
