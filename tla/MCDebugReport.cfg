SPECIFICATION Spec
CONSTANTS
  Game = {g1}
  Main = main
  Pump = pump
  None = none
  Faulters = {g1, pump}
  Refaulters = {}
  MayTimeOut = TRUE
  MaxBody = 1
  MaxCalls = 1
  MaxPrint = 1
  PipeCap = 1
INVARIANTS
  TypeOK
  BlocksDisjoint
  SummaryIsLast
  SummaryNeverUndercounts
  HeaderFirst
  MirrorComplete
PROPERTY
  ImplementsLog
