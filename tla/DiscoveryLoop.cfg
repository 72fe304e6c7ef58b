SPECIFICATION DiscoverySpec
CONSTANTS
  PullRequests = {1, 2, 3}
  Worlds <- MCLoopWorlds
  Passes <- MCLoopPasses
  PageSize = 2
  OpenLimit = 3
  HistoryLimit = 3
  SnapshotAttempts = 2
  MaxMoves = 2
  MaxReadFaults = 0
CHECK_DEADLOCK FALSE
PROPERTY WalkEnds
