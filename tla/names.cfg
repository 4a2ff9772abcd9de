\* The names need no colours beside them.
CONSTANTS
  Colours = {}
  Colours24 = {}
SPECIFICATION SoftwareColoursSpec
INVARIANT
  NamedColoursShown
