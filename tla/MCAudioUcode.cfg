SPECIFICATION Spec
CONSTANTS
  Lists <- MCLists
  Places <- MCPlaces
  Block = 4
  MaxTasks = 3
INVARIANTS
  TypeOK
  NothingOverwritten
  NoStaleSound
PROPERTIES
  ImplementsList
  TaskEnds
\* A session ends after MaxTasks tasks.
CHECK_DEADLOCK FALSE
