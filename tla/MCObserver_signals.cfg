SPECIFICATION FairSpec
CONSTANTS
  f1 = f1
  g1 = g1
  claude = claude
  codex = codex
  Files <- OneFile
  Providers <- OneProvider
  ProviderOf <- MCProviderOf
  Adapters <- OneAdapter
  InWatchedDir <- OneFile
  DirReports <- OnlyF1
  MaxHot = 1
  OutCap = 1
  Debounce = 1
  MaxEvents = 1
  Overflow = TRUE
  MaxVersion = 2
PROPERTIES SignalServed RefreshServed CancelStops PollCatchesUp
