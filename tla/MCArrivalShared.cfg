SPECIFICATION Spec
CONSTANTS
  Event <- SharedBodies
  MaxRecords = 4
  Horizon = 2
  DayLength = 2
  AllowedLateness = 1
INVARIANTS
  AcceptedRunStoresWhatWasValidated
  SharedIdentityInvalidatesEveryRun
PROPERTIES
  ContradictionIsPermanent
  RetryIsInvisible
  OwningDateMovesBackOnly
CHECK_DEADLOCK FALSE
