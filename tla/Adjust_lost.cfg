SPECIFICATION Spec
CONSTANTS
  Cases <- LostOptions
  FlagSets = {{"disk", "net"}}
  Progress = {FALSE, TRUE}
  MaxFailures = 1
  MaxLosses = 0
INVARIANT
  SuccessMeansAdjusted
CHECK_DEADLOCK FALSE
