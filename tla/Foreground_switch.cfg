SPECIFICATION FairSpec
CONSTANTS
  Client = {ui}
  Request = {window}
  Timer = {t1, t2}
  NoTimer = NoTimer
  MaxSignals = 3
INVARIANTS TypeOK OverlappingSignalsAgree
PROPERTIES OnlyTheUiWakes AnnouncesAgain
CHECK_DEADLOCK FALSE
