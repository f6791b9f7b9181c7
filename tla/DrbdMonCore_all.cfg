SPECIFICATION FairSpec
CONSTANTS
  MAX_EVENT_BUNDLE = 1
  EventsFiles = {FALSE, TRUE}
  Intervals = {FALSE, TRUE}
  MaxExists = 1
  PipeSize = 2
  MaxInputs = 2
  MaxFaults = 1
INVARIANTS
  WakeupPending
  UpdateScheduled
  ExitSignalsRouted
PROPERTIES
  ChangeReported
  ExitHonored
  FailureRecovered
