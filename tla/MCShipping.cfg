CONSTANTS
  Procs = {p1}
  Sessions = {s1, s2}
  Free = Free
  Withheld = {3}
  BatchLines = 1
  MaxEvents = 1
  MaxMoves = 2
  MaxLines = 3
  MaxFaults = 2
SPECIFICATION FairSpec
CHECK_DEADLOCK FALSE
INVARIANTS TypeOK DivergedIsTrue
PROPERTIES AllIsShipped GapIsTold
