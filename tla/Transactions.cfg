SPECIFICATION FairSpec
CONSTANTS
  Actors = {"holder", "waiter"}
  Rows = {"r1", "r2"}
  MaxSteps = 2
INVARIANT TypeOK AllOrNothing NothingHeld
PROPERTY Terminates
CHECK_DEADLOCK FALSE
