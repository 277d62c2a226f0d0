SPECIFICATION FairSpec
CONSTANTS
  MaxPartial = 1
  MaxSize = 4
  Inodes <- TwoInodes
  LastN = 2
  MaxMtime = 1
  MaxGen = 1
  Faults <- Replacements
  Racing = FALSE
INVARIANTS TypeOK OnlyWholeLines NoLineLost OffsetAtLineStart
PROPERTIES InOrderOnce EveryLineArrives IsLineFeed
