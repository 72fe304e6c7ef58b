SPECIFICATION Spec
CONSTANTS
  Pids = {p1, p2, p3}
  MaxOps = 3
  MaxCkpt = 0
  NoOwner = NoOwner
SYMMETRY PidSymmetry
INVARIANT MutualExclusion
