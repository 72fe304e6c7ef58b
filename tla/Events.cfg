SPECIFICATION MCSpec
CONSTANTS
  e1 = e1
  e2 = e2
  e3 = e3
  d1 = d1
  Writers = {w1, w2}
  Events = {e1, e2, e3}
  Batches <- MCBatches
  Hooked = {e2}
  Blocking = {e2}
  Oversized = {e3}
  MaxArchives = 2
  MaxBytes = 1
  Limit = 8
  TailLimit = 1
  MaxClock = 7
  MaxDispatches = 2
  MaxFaults = 2
  Nobody = Nobody
  FlushRecord = {e1, e2, d1}
  FlushEvents = {e1, e2}
  KeepNewest = TRUE
  Flushers = {f1, f2}
  Retries = 1
  MaxRecords = 2
  MaxFlushFaults = 1
  MaxOutside = 1
  Operations = {1, 2}
  Asks <- MCAsks
  Settings <- MCSettings
  Deadlines <- MCDeadlines
  RequestLimit = 3
  CommandTimeout = 2
  MinimumBudget = 1
  ProbeAttempts = 2
  Backoff = 1
  Margin = 2
  TokenLife = 4
  Accounts = 1
  MaxRequests <- MCMaxRequests
  MaxTrouble = 2
SYMMETRY Alike
CHECK_DEADLOCK FALSE
INVARIANTS
  
  BranchSound
  RunnerSound
PROPERTIES
  ImplementsView
  PublishedKept
