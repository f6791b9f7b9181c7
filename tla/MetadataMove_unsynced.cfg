SPECIFICATION Spec
CONSTANTS
  InitialSize = 40
  Sizes = {40, 64}
  BlockSectors = 2
  AlBlocks = 1
  max_peers = 2
  WordSectors = 16
  WordsPerBlock = 2
  buffer_size = 2
  Modes = {"skip", "set"}
  MaxGrowths = 1
  MaxCrashes = 2
INVARIANTS
  AlwaysFound
CHECK_DEADLOCK FALSE
