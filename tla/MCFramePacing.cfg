SPECIFICATION Spec
CONSTANTS
  Asks = {0, 20, 30, 60, 100}
  Field = 3
  Margin = 1
  MaxTime = 30
INVARIANTS
  TypeOK
  NeverFasterThanAsked
  NeverHeldLong
\* The clock stops at MaxTime.
CHECK_DEADLOCK FALSE
