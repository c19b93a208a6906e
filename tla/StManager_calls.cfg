SPECIFICATION Spec
CONSTANTS
  Thread = {t1, t2}
  Proc = {p1, p2, p3}
  NoProc = NoProc
  MaxPolls = 1
  Budget <- MCBudget
INVARIANTS
  TypeOK
  StopMeansGone
  
  
PROPERTIES
  LatchReleased
  ImplementsLifecycle
CHECK_DEADLOCK FALSE
