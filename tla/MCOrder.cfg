CONSTANTS
  e1 = e1
  e2 = e2
  e3 = e3
  Event = {e1, e2, e3}
  MayRelate <- RelateThree
  MaxChanged = 1
SPECIFICATION Spec
INVARIANTS
  TypeOK
  RelationsAreExact
  ConflictsAreReal
  SameAsRebuilt
  LabelsExtendOrder
PROPERTIES
  AcceptedFirst
CHECK_DEADLOCK FALSE
