CONSTANTS
  r1 = r1
  r2 = r2
  r3 = r3
  b1 = b1
  b2 = b2
  Requests = {r1, r2, r3}
  Bodies = {b1, b2}
  BodyOf <- MCBodyOf
  PendingLease = 3
  RenewEvery = 1
  TTL = 4
  MaxMissed = 3
  MaxTime = 6
  MaxLosses = 1
  NoReq = NoReq
SPECIFICATION FairSpec
CHECK_DEADLOCK FALSE
INVARIANTS TypeOK NeverTwoRunning RunsAtMostOnce ReplayIsFaithful
PROPERTIES LiveRecordIsFenced EveryRequestAnswered
