SPECIFICATION Spec
CONSTANTS
  NumLeds = 150
  Cols = 5
INVARIANTS
  TypeOK
  PlacesAreDistinct
PROPERTIES
  DotMovesByOne
  EveryLedIsSwept
  PaletteScrolls
  OnePointPerLed
