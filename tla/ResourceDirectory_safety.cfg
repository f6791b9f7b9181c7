SPECIFICATION Spec
CONSTANTS
  Names = {"a", "b"}
  Volumes = {0, 1}
  Connections = {1, 2}
  DeviceProps <- LocalStates
  PeerDeviceProps <- PeerStates
  ConnectionProps <- LinkStates
  Roles = {"Primary"}
  MaxObjects = 6
INVARIANTS
  FlagsPropagated
  ProblemsListed
