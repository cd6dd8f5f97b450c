SPECIFICATION Spec
CONSTANTS
  Game = {g1}
  Main = main
  Pump = pump
  None = none
  Faulters = {g1}
  Refaulters = {}
  MayTimeOut = FALSE
  MaxBody = 1
  MaxCalls = 0
  MaxPrint = 1
  PipeCap = 1
INVARIANT
  PumpOutsideBlocks
