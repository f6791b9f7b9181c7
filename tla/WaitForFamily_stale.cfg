SPECIFICATION Spec
CONSTANTS
  DeviceList <- VolumeList
  ConnectionList <- PeerList
  OtherDevices <- OtherVolumes
  Timeouts <- WaitTimeouts
  Begins <- WaitBegins
  UnitsPerMs = 2
  MsPerSecond = 1
  MaxWait = 4
  MaxChanges = 2
  RcvBuf = 2
PROPERTIES
  AlwaysReachedEnds
CHECK_DEADLOCK FALSE
