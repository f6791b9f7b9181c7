SPECIFICATION Spec
CONSTANTS
  Cases <- PathCases
  FlagSets = {{"disk", "net"}}
  Progress = {FALSE, TRUE}
  MaxFailures = 1
  MaxLosses = 0
INVARIANT
  EveryCommandAccepted
CHECK_DEADLOCK FALSE
