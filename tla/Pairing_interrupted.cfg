SPECIFICATION FairSpec
CONSTANTS
  a = a
  b = b
  Node = {a, b}
  Introduced <- Nobody
  MaxFrames = 1
  MaxNotices = 1
  Budget <- Interrupted
PROPERTIES  RemovalReachesPeer
CHECK_DEADLOCK FALSE
