SPECIFICATION Spec
CONSTANTS
  a = a
  b = b
  Node = {a, b}
  Introduced <- IntroducedToA
  MaxFrames = 1
  MaxNotices = 1
  Budget <- Failures
INVARIANTS TypeOK RemovedNotTrusted 
PROPERTIES UnpairNeedsRequest
CHECK_DEADLOCK FALSE
