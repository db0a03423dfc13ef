\* Four executors (halves can tie), controller, malformed backends, four data that all differ (three and a timeout).
CONSTANTS
  a = a
  b = b
  c = c
  N = 4
  Value <- ThreeValues
  NoData = NoData
  Timeout = Timeout
  None = None
  Horizon = FALSE
  JudgeRules <- BothRules
  FailCounts <- SomeFails
  Uptimes <- SomeUptimes
  Requests = 1
  Late = FALSE
  Malformed = TRUE
SPECIFICATION Spec
INVARIANTS OnlyRefusedStays MajorityWins ReportedAreDissenters
PROPERTY BallotSpec
CHECK_DEADLOCK FALSE
