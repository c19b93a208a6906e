SPECIFICATION FairSpec
CONSTANTS
  StallAfter = 2
  MaxBytes = 2
  Budgets <- MCBudgets
INVARIANT TypeOK
PROPERTIES AcceptedStays Settles
