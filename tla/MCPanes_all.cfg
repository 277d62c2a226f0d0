SPECIFICATION Spec
CONSTANTS
  MaxPanes = 2
  MaxRuns = 3
  Lingering = {1}
INVARIANTS TypeOK OneReader NoOrphan
PROPERTIES RunningPaneStays
CHECK_DEADLOCK FALSE
