\* Four executors (halves can tie), two successes, an error, the stand-in and another 504.
CONSTANTS
  a = a
  b = b
  err = err
  lost = lost
  late = late
  N = 4
  Value <- Responses
  StatusOf <- Statuses
  StandIn = lost
  NoData = NoData
  None = None
  JudgeRules <- BothRules
  FailCounts <- SomeFails
  Uptimes <- SomeUptimes
  Keystone = TRUE
SPECIFICATION FairSpec
INVARIANTS RepliedOnce No504WithoutNeed MajorityWins ReportedAreDissenters TaskOutlivesRequests
PROPERTIES AnswerSpec ClientAnswered TaskDeleted
CHECK_DEADLOCK FALSE
