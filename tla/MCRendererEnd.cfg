SPECIFICATION Spec
CONSTANTS
  QueueSize = 1
  MaxExternal = 1
  MaxWaits = 1
INVARIANT
  NoCallPastEnd
CHECK_DEADLOCK FALSE
