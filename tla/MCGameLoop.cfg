SPECIFICATION FairSpec
CONSTANTS
  QueueSize = 2
  MaxExternal = 3
  MaxWaits = 2
INVARIANTS
  TypeOK
  StartIsReady
  OneSlot
PROPERTIES
  SpinEnds
  FramesContinue
\* A session that has failed or has quit is over.
CHECK_DEADLOCK FALSE
