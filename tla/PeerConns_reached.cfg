SPECIFICATION FairSpec
CONSTANTS
  Old = Old
  New = New
  Dev = Dev
  A = A
  B = B
  Process = {Old, New}
  Device = {Dev}
  Addr = {A, B}
  DeviceOf <- MCDeviceOf
  Home <- MCHome
  Paired = {Dev}
  Nobody = Nobody
  Slots = {1, 2, 3}
  Grace = 1
  PeersCap = 1
  GoneCap = 1
  Starts <- MCStarts
INVARIANTS TypeOK 
PROPERTIES LiveStays AnnouncedIsReached SilentIsForgotten
