\* Refreshes come often, and at every distance from a request; the chip's times
\* are the real ones at 120 MHz.
CONSTANTS
  Banks = {0, 1}
  Rows = {0, 1}
  Columns = {0, 1}
  Values = {0, 1}
  Requests <- MCRequests
  NoRequest = NoRequest
  NoData = NoData
  NoRow = NoRow
  PowerUp = 3
  Period = 24
  InitRefs = 2
  TRCD = 3
  TRP = 3
  TRFC = 9
  TWR = 2
  TMRD = 3
  NUM_INPUTS = 3
  MaxBeats = 2
SPECIFICATION MCSpec
INVARIANTS
  ChipObeyed
  TurnsTaken
PROPERTY
  MemoryInOrder

