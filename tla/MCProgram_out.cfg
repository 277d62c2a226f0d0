SPECIFICATION FairSpec
CONSTANTS
  MaxPanes = 1
  MaxRuns = 1
  Lingering = {1}
INVARIANTS OnlyWithConsent
PROPERTIES StopClosesPane AlwaysAWayOut RefreshShown
CHECK_DEADLOCK FALSE
