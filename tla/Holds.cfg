SPECIFICATION MCSpec
CONSTANTS
    Actors = {"cara", "github"}
    MaxGen = 1
    Budgets <- MCBudgets
    PullRequests = {1, 2, 3}
    Worlds <- MCWorlds
    Passes <- MCPasses
    PageSize = 2
    OpenLimit = 3
    HistoryLimit = 3
    SnapshotAttempts = 2
    MaxMoves = 2
    MaxReadFaults = 1
CHECK_DEADLOCK FALSE
INVARIANTS
    HoldHonoured
    RecoverySound
    SnapshotSound

    
