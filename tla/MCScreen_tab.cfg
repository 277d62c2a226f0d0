SPECIFICATION FairScreenSpec
CONSTANTS
  MinW = 3
  MinH = 2
  TabWidth = 4
  Sizes <- Asked
  Params <- Numbers
PROPERTIES TabReturns
