SPECIFICATION Spec
CONSTANTS
  Nodes = {1, 2, 3}
  Strangers = {4}
  Times = {0, 1}
  Windows <- LagWindows
INVARIANT TypeOK OrderIsTopological RejectsExactlyCycles DiagnosisIsSound
CHECK_DEADLOCK FALSE
