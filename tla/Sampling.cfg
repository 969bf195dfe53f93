SPECIFICATION SamplingSpec
CONSTANTS
  MaxRuns = 2
  MaxRounds = 2
INVARIANT SamplingTypeOK BaselineIsClean
CHECK_DEADLOCK FALSE
