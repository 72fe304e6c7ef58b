SPECIFICATION FairSpec
CONSTANTS
    N = 3
    MaxVersion = 2
    MaxOutside = 2
    MaxFaults = 1
    MaxDisturbances = 2
    MaxRootMerges = 2
INVARIANTS
    AuthorWorkKept
    

    
CHECK_DEADLOCK FALSE
