SPECIFICATION FairSpec
CONSTANTS
  A = A
  B = B
  C = C
  Node = {A, B, C}
  NoNode = NoNode
  Starts <- MCGroup
INVARIANTS TypeOK  
PROPERTY ComesToRest
CHECK_DEADLOCK FALSE
