SPECIFICATION Spec
CONSTANTS
  Words = {w, flag}
  Values <- MCValues
  Window = 4
  Settle = 8
  PerSlice <- MCPerSlice
  Unready <- MCUnready
  SelftestAt <- MCSelftestAt
  Period = 3
  ViStates <- MCVi
  Rates = {22050, 32000}
  Volumes <- MCVolumes
  Chunks = {2, 4}
  MaxQueued = 6
  Arms <- MCArms
  Flag = flag
  FlagValue <- MCFlagValue
  MaxSamples = 3
  MaxNarrowings = 2
  MaxTaken = 2
INVARIANTS
  TypeOK
  SuspectsSeparate
  FramesKept
  DeviceAsAsked
PROPERTIES
  LabelSeen
  NarrowIsFair
  HeldKeyActsOnce
