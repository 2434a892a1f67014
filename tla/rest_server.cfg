SPECIFICATION FairSpec
CONSTANTS
  r1 = r1
  r2 = r2
  Reqs <- TwoReqs
  Handled <- SomeResponses
  Statuses <- SomeStatuses
CHECK_DEADLOCK FALSE
INVARIANTS NilIsDrained PanicNotCompleted
PROPERTIES RunReturns
