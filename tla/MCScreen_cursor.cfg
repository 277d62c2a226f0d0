SPECIFICATION ScreenSpec
CONSTANTS
  MinW = 3
  MinH = 2
  TabWidth = 4
  Sizes <- Asked
  Params <- Numbers
INVARIANTS CursorOK
PROPERTIES TabStops
