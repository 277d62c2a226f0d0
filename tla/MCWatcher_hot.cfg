SPECIFICATION Spec
CONSTANTS
  f1 = f1
  f2 = f2
  f3 = f3
  claude = claude
  codex = codex
  Files <- MCFiles
  Providers <- MCProviders
  ProviderOf <- MCProviderOf
  InWatchedDir <- F1F3
  DirReports <- OnlyF1
  MaxHot = 2
  OutCap = 1
  Debounce = 1
  MaxEvents = 3
  Overflow = FALSE
INVARIANTS TypeOK HotBudget HotIsWatched PendingIsTimed
CHECK_DEADLOCK FALSE
