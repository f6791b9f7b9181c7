SPECIFICATION Spec
CONSTANTS
  MAX_EVENT_BUNDLE = 1
  EventsFiles = {FALSE}
  Intervals = {TRUE}
  MaxExists = 1
  PipeSize = 2
  MaxInputs = 1
  MaxFaults = 1
PROPERTY
  OutOfSyncAfterSeparator
