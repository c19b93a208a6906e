SPECIFICATION Spec
CONSTANTS
  Client = {ui1, ui2}
  Request = {}
  Timer = {t1, t2}
  NoTimer = NoTimer
  MaxSignals = 4
SYMMETRY Symmetric
INVARIANT ConnectedUiIsForeground
CHECK_DEADLOCK FALSE
