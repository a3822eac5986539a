SPECIFICATION Spec
CONSTANTS
  o1 = o1
  none = none
  Object = {o1}
  NoObject = none
  Fsync = TRUE
  MaxRevisions = 4
  MaxFailures = 2
  MaxStops = 2
INVARIANT
  AckedSurvive
CHECK_DEADLOCK FALSE
