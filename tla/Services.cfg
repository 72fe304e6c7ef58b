SPECIFICATION MCSpec
CONSTANTS
  Hosts = {h1, h2}
  MaxAttempts = 2
  InitialBackoff = 2
  MaxBackoff = 3
  Retained = 1
  MaxTicks = 2
  MaxReceipts = 3
  MaxWorld = 3
  Errors <- MCErrors
  Reported <- MCReported
  Works <- MCWorks
  Requests = {"r1", "r2"}
  Jobs = {"j1", "j2", "j3"}
  MaxFacts = 2
  Starts <- MCStarts
  MaxHistory = 1
  MaxLogged = 1
  Deliveries = {"d1", "d2"}
  Workers = {w1, w2}
  Repos = {"a", "b"}
  MaxJobs = 2
  MaxEntries = 1
  MaxBytes = 4
  Callers = {1}
  LastGen = 1
  StatusBudget = 1
  PostReserve = 0
  CompatBudget = 1
  Watchdog = 2
  LastGoodAge = 1
  CacheAge = 1
  LabelAge = 1
  MaxCalls = 2
  Horizon = 2
  Rows = 3
  Slots <- MCSlots
  Sources <- MCSources
  MaxComparisons = 2
  MaxInspected = 2
  MaxEdits = 1
SYMMETRY Alike
CHECK_DEADLOCK FALSE
INVARIANTS
  
  
  ClonesSound
  
