SPECIFICATION FairSpec
CONSTANTS
  MAX_ACTIVE_COUNT = 2
  MAX_ENTRY_COUNT = 2
  MaxTasks = 2
  CursorQueues = {"ready", "ended"}
  DiscardModes = {{"finished"}}
  ExitCodes = {"zero"}
INVARIANTS
  CursorInQueue
PROPERTIES
  ShutdownCompletes
