SPECIFICATION MCSpec
CONSTANTS
  Pids = {p1, p2, p3}
  MaxOps = 3
  MaxCkpt = 1
  NoOwner = NoOwner
  N = 2
  MaxLandings = 2
  MaxFaults = 2
  MaxOutside = 1
  NoCursor = NoCursor
SYMMETRY PidSymmetry
INVARIANTS
  ExclusiveUnlessBlind
  ReceiptIsExact
  RequestsSound
  LockSound
PROPERTIES
  LockReleased
  
