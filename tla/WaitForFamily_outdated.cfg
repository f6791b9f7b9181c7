SPECIFICATION Spec
CONSTANTS
  DeviceList <- VolumeList
  ConnectionList <- PeerList
  OtherDevices <- OtherVolumes
  Timeouts <- ImplicitTimeouts
  Begins <- WaitBegins
  UnitsPerMs = 2
  MsPerSecond = 1
  MaxWait = 4
  MaxChanges = 2
  RcvBuf = 2
INVARIANTS
  OutdatedShortest
CHECK_DEADLOCK FALSE
