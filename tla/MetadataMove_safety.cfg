SPECIFICATION Spec
CONSTANTS
  InitialSize = 40
  Sizes = {40, 42, 46, 50, 52, 64}
  BlockSectors = 2
  AlBlocks = 1
  max_peers = 2
  WordSectors = 16
  WordsPerBlock = 2
  buffer_size = 2
  Modes = {"skip", "set"}
  MaxGrowths = 2
  MaxCrashes = 2
INVARIANTS
  MetadataIntact
  SuperblockSurvives
CHECK_DEADLOCK FALSE
