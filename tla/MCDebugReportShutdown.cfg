SPECIFICATION FairSpec
CONSTANTS
  Game = {g1, g2}
  Main = main
  Pump = pump
  None = none
  Faulters = {g1, pump}
  Refaulters = {g1}
  MayTimeOut = TRUE
  MaxBody = 1
  MaxCalls = 0
  MaxPrint = 1
  PipeCap = 1
PROPERTY
  SessionEnds
\* A thread that faulted again inside its block and a pump that faulted too
\* leave nobody able to move: the exception SessionEnds names.
CHECK_DEADLOCK FALSE
