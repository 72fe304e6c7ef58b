SPECIFICATION MCSpec
CONSTANTS
  N = 3
  Budgets <- MCBudgets
  Plans <- MCPlans
  MaxChanges = 2
  MaxBreaks = 1
CHECK_DEADLOCK FALSE
INVARIANTS
  
  MutationSound

  
