SPECIFICATION Spec
CONSTANTS
  Event <- OneRun
  Rebuilder <- DagAndCommandLine
  DayLength = 1
  AllowedLateness = 1
  BronzeRetention = 1
  MaxDelay = 1
  ProjectionDays = 0
  MaxAbandoned = 0
  MaxRecords = 2
  Horizon = 1
INVARIANTS
  TypeOK
  ADateIsInsertedOnce
  FreshDateIsExact
  PublishedRunsRevalidate
