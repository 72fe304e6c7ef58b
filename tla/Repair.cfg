SPECIFICATION MCSpec
CONSTANTS
  Budgets <- MCBudgets
  Contexts = {"gate", "test"}
  Gate = "gate"
  MaxHeads = 2
  MaxRuns = 2
  MaxRunAttempts = 2
  MaxFaults = 1
CHECK_DEADLOCK FALSE
INVARIANTS
  
  VerdictSound
  DispatchOnce
PROPERTIES
  MCSessionFinishes
  GateEvaluated
  SkipReconsidered
