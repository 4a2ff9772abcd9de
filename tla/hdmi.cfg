\* Frames of two pixels by two lines, of two buffers, on a scan of three by three,
\* scanned as instantiated: the picture comes first and the sync pulses are as long
\* as the rest of the scan.  The counters of the transmitter are one value too wide
\* for it; the dual clock buffer is the smallest BufferAssumption allows; three
\* numbers tell the next word from the same and from the one after it.
CONSTANTS
  A = A
  B = B
  NoFrame = NoFrame
  PIXELS = 2
  LINES = 2
  Buffers <- MCBuffers
  Numwords = 3
  Threshold = 1
  WrLatency = 1
  H_BLANK_PIXELS = 0
  H_SYNC_PULSE_PIXELS = 1
  TOTAL_HSCAN_PIXELS = 3
  V_BLANK_LINES = 0
  V_SYNC_PULSE_LINES = 1
  TOTAL_VSCAN_LINES = 3
  hActivePixels = 2
  hFrontPorch = 0
  hSyncWidth = 1
  hTotalPixels = 3
  vActiveLines = 2
  vFrontPorch = 0
  vSyncWidth = 1
  vTotalLines = 3
  CounterMod = 4
  Bytes <- MCBytes
  Words = 3
SPECIFICATION MCSpec
INVARIANTS
  PictureInPlace
  EncodingTrue
  BitsInOrder
  NeverOverflows
  Recovers
PROPERTIES
  OffsetSettles
  KeepsShowing
  NoWordSkippedOrRepeated
