CONSTANTS
  p1 = p1
  p2 = p2
  i1 = i1
  i2 = i2
  Procs = {p1, p2}
  Ids = {i1, i2}
  Free = Free
  KindAt <- MCKindAt
  MaxLines = 3
  MaxFaults = 3
SPECIFICATION Spec
CHECK_DEADLOCK FALSE
SYMMETRY Symmetry
INVARIANTS DeletedIsErased
