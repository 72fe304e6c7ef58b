SPECIFICATION Spec
CONSTANTS
    Actors = {"cara"}
    MaxGen = 1
    Budgets <- MCBudgets
CHECK_DEADLOCK FALSE
INVARIANT HeldUntilResumed
