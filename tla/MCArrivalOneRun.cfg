SPECIFICATION Spec
CONSTANTS
  Event <- OneRunBodies
  MaxRecords = 4
  Horizon = 0
  DayLength = 2
  AllowedLateness = 2
INVARIANTS
  TypeOK
  VerdictIgnoresArrival
PROPERTIES
  ContradictionIsPermanent
CHECK_DEADLOCK FALSE
