SPECIFICATION Spec
CONSTANTS
  NoWindow = NoWindow
  None = None
  ReservationWait = 60
  Calls = {c1, c2, c3}
  Budgets <- MCBudgets
  Estimates <- MCEstimates
  Usages <- MCUsages
  Texts = {1}
  Histories <- MCHistories
  Boot = 4
  LookbackMax = 4
  FirstTime = 2
  LastTime = 7
SYMMETRY CallSymmetry
INVARIANTS TypeOK ReservedExact NoOverspend RestoreExact WindowSpend BudgetClockNotFrozen HonestRetry
CHECK_DEADLOCK FALSE
