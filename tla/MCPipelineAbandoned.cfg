SPECIFICATION Spec
CONSTANTS
  Event <- ConflictingEnds
  Rebuilder <- DagOnly
  DayLength = 1
  AllowedLateness = 1
  BronzeRetention = 1
  MaxDelay = 1
  ProjectionDays = 1
  MaxAbandoned = 1
  MaxRecords = 2
  Horizon = 1
INVARIANTS
  PublishedRunsRevalidate
  FreshDateIsExact
  EveryDateFreshMeansNoDuplicate
  PublishedTableIsTrusted
PROPERTIES
  ImplementsTrustedStore
