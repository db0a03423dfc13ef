\* Two executors, a switch; update_scweight reloads the pool from the table, statements fail.
CONSTANTS
  e1 = e1
  e2 = e2
  e3 = e3
  Exec <- TwoExecs
  HostOf <- TwoHosts
  execNum = 2
  Rules = {"random"}
  Switches = {"on", "off"}
  UpStatuses = {0}
  EarlyCommands = TRUE
  Reloads = TRUE
  DbMayFail = TRUE
  MaxDrift = 1
  MaxCleaners = 2
SPECIFICATION Spec
INVARIANTS
  TypeOK
  CleaningHasCleaner
  NoInitingAfterStart
