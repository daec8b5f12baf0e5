CONSTANTS
  p1 = p1
  d1 = d1
  v1 = v1
  v2 = v2
  r1 = r1
  Writers = {p1, d1, v1, v2}
  Removers = {r1}
  Values <- MCValues
  Removable <- MCRemovable
  First = {}
  NoValue = NoValue
  Refused <- MCRefused
  Fn <- MCFn
  mutateRetries = 1
  MaxOther = 1
SPECIFICATION Spec
CHECK_DEADLOCK FALSE
INVARIANTS TypeOK LosesOnlyToWinners
PROPERTIES MatchIsHonoured ImplementsAtomicUpdate
