SPECIFICATION FairSpec
CONSTANTS
  B1 = B1
  B2 = B2
  Boot = {B1, B2}
  NoBoot = NoBoot
  Mode <- MCMode
  Budgets <- MCBudgets
INVARIANTS TypeOK OwnersServed UiHolds NoneLeftBehind PlanFollowed
PROPERTY ClaimsEnd
CHECK_DEADLOCK FALSE
