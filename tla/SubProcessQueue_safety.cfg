SPECIFICATION Spec
CONSTANTS
  MAX_ACTIVE_COUNT = 2
  MAX_ENTRY_COUNT = 2
  MaxTasks = 3
  CursorQueues = {}
  DiscardModes = {{}}
  ExitCodes = {"zero"}
INVARIANTS
  TypeOK
  SlotStack
  LockDiscipline
  TasksFiled
  ActiveTasksExecuting
  ReadyHasWorkers
  ShutdownKills
