SPECIFICATION Spec
CONSTANTS
  Event <- Bodies
  ItemCatalog <- Catalog
  HalfHundredth = 5
  SilverTable <- AllTables
  ReportDate = {1}
  RowLimit <- Limits
  MaxRuns = 1
  MaxReports = 0
INVARIANTS
  EndedRunsAreValid
CHECK_DEADLOCK FALSE
