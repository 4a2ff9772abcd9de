\* Four bits for the column and four for the line, two buffers one after the
\* other, and a word of eleven bits.  Glyphs have three by two pixels in cells
\* of three by three; the text travels through columns 1 to 9 and lines 1 to 9.
CONSTANTS
  x_resolution = 16
  y_resolution = 12
  WW = 3
  HW = 3
  buffer_start_address = 512
  back_buffer_start_address = 1024
  WordMod = 2048
  CharWidth = 3
  CharHeight = 3
  LineHeight = 4
  Newline = Newline
  Xs <- MCXs
  Ys <- MCYs
  Ends <- MCEnds
  Corners <- MCCorners
  Radii <- MCRadii
  Strings <- MCStrings
  XTurn = 8
  YTurn = 8
  BoxWidth = 6
  BoxHeight = 2
  Text <- MCText
  Circles <- MCCircles
  FirstCircle <- MCFirstCircle
  FirstPlace = 2
  Registers <- MCRegisters
  Addresses = {256, 1024}
  VideoXs = {0, 2, 5, 9}
  VideoYs = {0, 3, 5}
  Lengths = {0, 3, 8}
  Colours = {0, 2016, 65535}
  Colours24 <- MCColours24
SPECIFICATION MCSpec
INVARIANTS
  FiguresExact
  VideoFiguresExact
  AnimationClean
  ColoursTrue
