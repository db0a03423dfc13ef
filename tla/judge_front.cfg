\* Four connections on two HTTP threads, one judge thread, pipes of one place, so
\* that all pipes are full at once; numbers that come round. The circle of full
\* pipes stops everything.
CONSTANTS
  c1 = c1
  c2 = c2
  c3 = c3
  c4 = c4
  h1 = h1
  h2 = h2
  Conn = {c1, c2, c3, c4}
  MaxRequests = 4
  Http = {h1, h2}
  Judge = {j1}
  ThreadOf <- MCThreadOf
  Capacity = 1
  MaxSn = 3
  NoConn = NoConn
  Nobody = Nobody
SPECIFICATION FairSpec
INVARIANTS
  TypeOK
  RequestsTracked
  MutexFreed
PROPERTIES
  OwnReply
  Answered
CHECK_DEADLOCK FALSE
