\* Four bits for the column and four for the line, two
\* buffers one after the other, and a word of eleven bits.
CONSTANTS
  x_resolution = 16
  y_resolution = 12
  WW = 3
  HW = 3
  buffer_start_address = 512
  back_buffer_start_address = 1024
  WordMod = 2048
  CharWidth = 3
  CharHeight = 2
  LineHeight = 4
  Newline = Newline
  Xs <- MCXs
  Ys <- MCYs
  Ends <- MCEnds
  Corners <- MCCorners
  Radii <- MCRadii
  Strings <- MCStrings
SPECIFICATION CallsSpec
INVARIANT
  ClippedToScreen
