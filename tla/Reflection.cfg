SPECIFICATION AdaptSpec
CONSTANTS
  MaxRetryRounds = 2
  MaxRuns = 2
  MaxRetries = 1
  Windows = {10, 60}
  MaxDuration = 15
  MaxConcurrency = 8
  Required = {0, 9}
  Fresh <- APlanOfEach
INVARIANT AdaptTypeOK RecordsPrecedeRetry ReturnedIsRecorded
PROPERTY DirectoriesAreKept RunEnds AdviceMakesProgress
CHECK_DEADLOCK FALSE
