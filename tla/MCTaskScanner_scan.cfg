SPECIFICATION FairSpec
CONSTANTS
  task = task
  lock = lock
  b1 = b1
  b2 = b2
  Torn = Torn
  early = early
  late = late
  TasksDir = TasksDir
  NotCached = NotCached
  Paths <- MCPaths
  Batches <- MCBatches
  BatchOf <- MCBatchOf
  Payloads <- MCPayloads
  MaxStamp = 2
INVARIANTS CacheIsTrue RecordsAreOfThisScan
PROPERTIES CatchesUp
