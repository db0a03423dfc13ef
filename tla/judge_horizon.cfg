\* Four executors (halves can tie), horizon, two requests each, also after the vote.
CONSTANTS
  a = a
  b = b
  c = c
  N = 4
  Value <- TwoValues
  NoData = NoData
  Timeout = Timeout
  None = None
  Horizon = TRUE
  JudgeRules <- TimeRule
  FailCounts <- EqualFails
  Uptimes <- EqualFails
  Requests = 2
  Late = TRUE
  Malformed = FALSE
SPECIFICATION FairSpec
INVARIANTS OwedExact CallbackHasTask
PROPERTY TaskEnds
CHECK_DEADLOCK FALSE
