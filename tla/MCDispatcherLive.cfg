CONSTANTS
  i1 = i1
  i2 = i2
  c1 = c1
  c2 = c2
  Ids = {i1, i2}
  Callers = {c1}
  NoId = NoId
  Slots = 1
  QueueCap = 1
  MaxAsks = 2
SPECIFICATION FairSpec
CHECK_DEADLOCK FALSE
PROPERTIES EveryChangeSeen RunEnds
