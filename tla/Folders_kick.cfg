SPECIFICATION Spec
CONSTANTS
  A = A
  B = B
  C = C
  Node = {A, B, C}
  NoNode = NoNode
  Starts <- MCKick
INVARIANT RemainingPeersSync
CHECK_DEADLOCK FALSE
