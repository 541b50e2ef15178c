SPECIFICATION Spec
CONSTANTS
  Event <- OneRun
  Rebuilder <- DagOnly
  DayLength = 1
  AllowedLateness = 1
  BronzeRetention = 1
  MaxDelay = 1
  ProjectionDays = 1
  MaxAbandoned = 1
  MaxRecords = 1
  Horizon = 0
INVARIANTS
  ADateIsInsertedOnce
