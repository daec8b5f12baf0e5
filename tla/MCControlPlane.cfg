CONSTANTS
  c1 = c1
  c2 = c2
  Clients = {c1, c2}
  NoClient = NoClient
  Verbs = {"start", "stop", "delete", "update", "restore", "exec"}
  Policy = "on-failure"
  MaxRestarts = 1
  Endings = {}
  Failing = {"driver", "store"}
  MaxOps = 3
  MaxFaults = 1
  MaxCrashes = 1
SPECIFICATION Spec
CHECK_DEADLOCK FALSE
SYMMETRY Symmetry
INVARIANTS TypeOK RestoreIsExclusive AtRestIsQuiet GoneIsGone RestartBudget
PROPERTIES LifecycleMoves
