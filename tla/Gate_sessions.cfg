SPECIFICATION FairSpec
CONSTANTS
  Home = Home
  Ssid = {Home}
  NoSsid = NoSsid
  Net <- MCNet
  Settings <- MCSettings
  Boot = {b1, b2}
  NoBoot = NoBoot
  ConnectGrace = 3
  ActiveSyncExtend = 4
  ForegroundGrace = 1
  MaxLag = 1
  Budgets <- MCBudgets
INVARIANTS TypeOK DecisionObeyed DeadlinesAreWatched HostFollows
PROPERTIES NeverInterrupted SessionEnds
CHECK_DEADLOCK FALSE
