SPECIFICATION Spec
CONSTANTS
  Cases <- SecondResource
  FlagSets = {{"disk", "net"}}
  Progress = {FALSE, TRUE}
  MaxFailures = 1
  MaxLosses = 0
INVARIANT
  OtherResourcesFinished
CHECK_DEADLOCK FALSE
