SPECIFICATION Spec
CONSTANTS
  r1 = r1
  r2 = r2
  Resources = {r1, r2}
  Volumes = {0}
  Conns = {"c"}
  Filter = "all"
  HalfRange = 8
  FirstSeq = 14
  SignedWraps = TRUE
  ReorderFirst = FALSE
  Infos <- MCInfos
  ReuseNames = FALSE
  InitialKernels <- MCKernels
  NewResources = {r1}
  Modes = {{"poll"}, {"now"}, {"now", "poll"}}
  MaxMessages = 3
  MaxBundle = 1
  MaxRequests = 1
  RcvBuf = 1
  Overruns = 1
INVARIANTS
  ShownMatchesCopy
  CopyIsAKernelState
  Converged
PROPERTIES
  FeedSpec
  EveryNotificationApplied
CHECK_DEADLOCK FALSE
