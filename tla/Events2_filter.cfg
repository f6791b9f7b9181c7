SPECIFICATION Spec
CONSTANTS
  r1 = r1
  r2 = r2
  Resources = {r1, r2}
  Volumes = {0}
  Conns = {"c"}
  Filter = r1
  HalfRange = 8
  FirstSeq = 6
  SignedWraps = TRUE
  ReorderFirst = FALSE
  Infos <- MCInfos
  ReuseNames = FALSE
  InitialKernels <- TwoKernels
  NewResources = {r1}
  Modes = {{}}
  MaxMessages = 3
  MaxBundle = 1
  MaxRequests = 0
  RcvBuf = 1
  Overruns = 0
INVARIANT
  Converged
CHECK_DEADLOCK FALSE
