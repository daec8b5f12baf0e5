CONSTANTS
  c1 = c1
  c2 = c2
  Clients = {c1}
  NoClient = NoClient
  Verbs = {"start", "stop", "delete", "update", "restore", "exec", "snapshot"}
  Policy = "on-failure"
  MaxRestarts = 1
  Endings = {"exited", "failed"}
  Failing = {"driver", "store", "spec"}
  MaxOps = 2
  MaxFaults = 1
  MaxCrashes = 1
SPECIFICATION FairSpec
CHECK_DEADLOCK FALSE
PROPERTIES IncarnationsDoNotOverlap Settles FailureIsRestarted
