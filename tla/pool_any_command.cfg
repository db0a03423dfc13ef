\* Three executors on two hosts, host_random; commands at any time, for executors in any status.
CONSTANTS
  e1 = e1
  e2 = e2
  e3 = e3
  Exec <- ThreeExecs
  HostOf <- ThreeHosts
  execNum = 2
  Rules = {"host_random"}
  Switches = {"on"}
  UpStatuses <- AnyStatus
  EarlyCommands = TRUE
  Reloads = FALSE
  DbMayFail = FALSE
  MaxDrift = 1
  MaxCleaners = 2
SPECIFICATION Spec
INVARIANTS
  WithinBudget
  TableFollowsPool
PROPERTY
  NeverEmptied
