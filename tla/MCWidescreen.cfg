SPECIFICATION Spec
CONSTANTS
  Cameras = {c1}
  Matrices = {m1, m2, m3}
  Bases = {b1, b2}
  Odd = {u1}
  Wide = 3
  Slots = 2
  Narrowing = TRUE
  NoAngle = NoAngle
INVARIANTS
  TypeOK
  NeverCompounds
  DrawnAsAsked
  CullsWide
