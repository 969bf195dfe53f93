SPECIFICATION Spec
CONSTANTS
  MaxRetryRounds = 2
  MaxRuns = 2
  MaxRetries = 1
INVARIANT FailureIsNotAMiss
CHECK_DEADLOCK FALSE
