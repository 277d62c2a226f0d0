SPECIFICATION SessionsSpec
CONSTANTS
  c = c
  x = x
  m = m
  p1 = p1
  p2 = p2
  NoSession = NoSession
  Paths <- ThreeKinds
  KindOf <- MCKindOf
  Pids <- TwoPids
  Window = 2
  Inodes = {1}
  Faults <- Mishaps
  StartSizes = {3}
  MaxSize = 5
  MaxPartial = 1
  MaxChanges = 3
INVARIANTS FoldedOnce TotalsExact
PROPERTIES GoneIsDone LiveIsShown StatusDecays TurnsArrive
