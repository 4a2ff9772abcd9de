CONSTANTS
  Colours = {0, 65535}
  Colours24 <- MCColours24
SPECIFICATION SoftwareColoursSpec
INVARIANT
  WidenedColoursShown
