SPECIFICATION Spec
CONSTANTS
  Nodes = {"a", "b", "c"}
  Handlers <- TwoUnfence
  Disks = {"UpToDate"}
  Masks <- AllMasks
  Constraints <- Leftover
  stonith_enabled = TRUE
  unreachable_peer_is_outdated = FALSE
  unfence_only_if_owner_match = FALSE
  suicide_on_failure_if_primary = TRUE
  MaxFaults = 0
  MaxUpdates = 2
PROPERTY
  UnfenceNeverBans
CHECK_DEADLOCK FALSE
