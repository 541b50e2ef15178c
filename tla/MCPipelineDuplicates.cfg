SPECIFICATION Spec
CONSTANTS
  Event <- OneRun
  Rebuilder <- DagOnly
  DayLength = 1
  AllowedLateness = 1
  BronzeRetention = 1
  MaxDelay = 1
  ProjectionDays = 1
  MaxAbandoned = 0
  MaxRecords = 2
  Horizon = 1
INVARIANTS
  DuplicatesAreNotTrustedTwice
