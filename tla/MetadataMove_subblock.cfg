SPECIFICATION Spec
CONSTANTS
  InitialSize = 48
  Sizes = {48, 49}
  BlockSectors = 2
  AlBlocks = 1
  max_peers = 2
  WordSectors = 16
  WordsPerBlock = 2
  buffer_size = 2
  Modes = {"skip", "set"}
  MaxGrowths = 2
  MaxCrashes = 0
INVARIANTS
  MetadataIntact
CHECK_DEADLOCK FALSE
