SPECIFICATION MCSpec
CONSTANTS
  Hosts = {a, b}
  Ttl = 3
  Heartbeat = 1
  MaxTime = 6
  MaxFence = 3
  MaxFaults = 2
  NoGrant = NoGrant
  Caravans = {1, 2}
  Configs <- MCConfigs
  MaxLeft = 2
  MaxEvents = 1
CHECK_DEADLOCK FALSE
INVARIANTS
  OneLiveGuard
  LiveGuardRecorded
  
PROPERTIES
  
  Woken
