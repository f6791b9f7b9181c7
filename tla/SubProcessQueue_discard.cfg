SPECIFICATION Spec
CONSTANTS
  MAX_ACTIVE_COUNT = 1
  MAX_ENTRY_COUNT = 1
  MaxTasks = 1
  CursorQueues = {}
  DiscardModes = {{}, {"succeeded"}}
  ExitCodes = {"zero", "nonzero"}
PROPERTY
  DiscardedTasksSucceeded
