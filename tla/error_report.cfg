CONSTANTS
  a1 = a1
  a2 = a2
  x1 = x1
  x2 = x2
  Thread = {t1, t2}
  Addr = {a1, a2}
  Exec = {x1, x2}
  NovaOf <- MCNovaOf
  Limit = 1
  Absent = Absent
  None = None
SPECIFICATION FairSpec
INVARIANT ReportsEarned
PROPERTY LoserGoes
