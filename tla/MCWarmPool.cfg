SPECIFICATION Spec
CONSTANTS
  Procs = {p1, p2}
  Claims = {c1, c2}
  Pool = pool
  Size = 1
  MaxBoxes = 3
  Policy = "never"
SYMMETRY Symmetry
INVARIANTS TypeOK HeldIsOwn PoolIsBounded
PROPERTIES ClaimedIsSpared
CHECK_DEADLOCK FALSE
