CONSTANT
  Colours <- MCColours
SPECIFICATION ColourSpec
INVARIANT
  EveryChannelShown
