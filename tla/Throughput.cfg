SPECIFICATION RatesSpec
CONSTANTS
  Work <- FewKinds
  MaxClock = 3
INVARIANT RatesTile DropIsADrop DropIsFound PressureIsMisses
CHECK_DEADLOCK FALSE
