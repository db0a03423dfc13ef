\* Three executors on two hosts, fair threads and timers; the operator acts after the
\* first start and raises ready executors only.
CONSTANTS
  e1 = e1
  e2 = e2
  e3 = e3
  Exec <- ThreeExecs
  HostOf <- ThreeHosts
  execNum = 2
  Rules = {"scweight"}
  Switches = {"on"}
  UpStatuses = {0}
  EarlyCommands = FALSE
  Reloads = FALSE
  DbMayFail = FALSE
  MaxDrift = 1
  MaxCleaners = 2
SPECIFICATION FairSpec
INVARIANTS
  ActiveIffMarked
  OneCleanerWhileCleaning
  PublishedIsPool
PROPERTIES
  FirstStartEnds
  CleaningEnds
  OfflineHandled
  SparesServe
