SPECIFICATION Spec
CONSTANTS
  Nodes = {"a", "b", "c"}
  Handlers <- FenceAndUnfence
  Disks = {"UpToDate", "Consistent"}
  Masks <- AllMasks
  Constraints <- OnEntry
  stonith_enabled = TRUE
  unreachable_peer_is_outdated = FALSE
  unfence_only_if_owner_match = FALSE
  suicide_on_failure_if_primary = TRUE
  MaxFaults = 1
  MaxUpdates = 1
INVARIANTS
  FencedStayBanned
  OneWinner
  SomeoneWins
CHECK_DEADLOCK FALSE
