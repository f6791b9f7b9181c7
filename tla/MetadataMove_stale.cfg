SPECIFICATION Spec
CONSTANTS
  InitialSize = 40
  Sizes = {40, 52}
  BlockSectors = 2
  AlBlocks = 1
  max_peers = 2
  WordSectors = 16
  WordsPerBlock = 2
  buffer_size = 2
  Modes = {"skip", "set"}
  MaxGrowths = 2
  MaxCrashes = 1
INVARIANTS
  OneSuperblock
CHECK_DEADLOCK FALSE
