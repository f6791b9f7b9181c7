SPECIFICATION Spec
CONSTANTS
  Cases <- MinorCases
  FlagSets = {{"disk", "net"}}
  Progress = {FALSE, TRUE}
  MaxFailures = 1
  MaxLosses = 0
INVARIANT
  EveryCommandAccepted
CHECK_DEADLOCK FALSE
