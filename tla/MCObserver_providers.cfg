SPECIFICATION Spec
CONSTANTS
  f1 = f1
  g1 = g1
  claude = claude
  codex = codex
  Files <- OneEach
  Providers <- MCProviders
  ProviderOf <- MCProviderOf
  Adapters <- MCAdapters
  InWatchedDir <- OneEach
  DirReports <- OnlyF1
  MaxHot = 1
  OutCap = 1
  Debounce = 1
  MaxEvents = 2
  Overflow = FALSE
  MaxVersion = 1
INVARIANTS NoLostSignal StoreMatchesCache
PROPERTIES IsMirror
