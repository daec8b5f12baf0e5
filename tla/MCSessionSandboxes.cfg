SPECIFICATION Spec
CONSTANTS
  Procs = {p1}
  Callers = {c1, c2}
  Sessions = {s1, s2}
  User = user
  Pool = pool
  Scope = "session"
  Retentions = {"stop", "delete"}
  Size = 1
  MaxBoxes = 2
  MaxBoots = 2
  MaxCalls = 3
SYMMETRY Symmetry
INVARIANTS TypeOK OnePerKey
PROPERTIES BoundIsKept SweepSparesSessions
CHECK_DEADLOCK FALSE
