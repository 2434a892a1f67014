SPECIFICATION Spec
CONSTANTS
  Timeout = 6
  AttemptTimeout = 2
  MaxAttempts = 5
  BackoffBase = 1
  BackoffMax = 2
  MaxRetryAfter = 3
  Width = 4
  CallerTimeouts <- SomeTimeouts
  CtxDeadlines <- SomeDeadlines
  Requests <- SomeRequests
  RetryAfters <- Headers
INVARIANTS DeadlineHolds CallerSettingsKept NoUnsafeResend BackoffExact OwnResponse
PROPERTIES RetryAfterHonoured
