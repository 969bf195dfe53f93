SPECIFICATION RatesSpec
CONSTANTS
  Work <- FewKinds
  MaxClock = 3
INVARIANT AnyDropIsFound
CHECK_DEADLOCK FALSE
