SPECIFICATION Spec
CONSTANTS
  al_stripes = 2
  al_stripe_size_4k = 2
  AL_EXTENTS_MAX = 4
  AL_CONTEXT_PER_TRANSACTION = 1
  AL_UPDATES_PER_TRANSACTION = 1
  NrElements = 3
  TrModulus = 8
  Builds = {"wrapping"}
  WordBits = 2
  PageWords = 8
  BufferWords = 16
  Geometries <- RoomyGeometries
  Written = {0, 2, 3, 4}
  FirstTrNumbers = {2, 6}
  MaxTransactions = 5
  MaxCrashes = 2
INVARIANTS
  ReplayReconstructs
  CleanMeansMarked
  RefusalLosesNothing
  OnlyActiveMarked
