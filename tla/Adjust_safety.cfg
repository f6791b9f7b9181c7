SPECIFICATION Spec
CONSTANTS
  Cases <- AllCases
  FlagSets = {{"disk", "net"}, {"disk"}, {"net"}}
  Progress = {FALSE, TRUE}
  MaxFailures = 1
  MaxLosses = 1
INVARIANTS
  SuccessMeansAdjusted
  NoCommandRefused
  StaysConnected
  OthersExecuted
PROPERTY
  AdjustEnds
CHECK_DEADLOCK FALSE
