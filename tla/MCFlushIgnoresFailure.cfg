SPECIFICATION Spec
CONSTANTS
  NPorts = 1
  zero = zero
  fmt = fmt
  v1 = v1
  b1 = b1
  b2 = b2
  Blocks <- MCBlocks
  Values <- MCValues
  Formatted <- MCFormatted
  Zero = zero
  Detect = detect
  Nowhere = nowhere
  Absent = absent
  Short = short
  IoFails = TRUE
PROPERTY
  FlushPersists
