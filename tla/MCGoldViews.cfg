SPECIFICATION Spec
CONSTANTS
  Event <- Bodies
  ItemCatalog <- Catalog
  HalfHundredth = 5
  SilverTable <- AllTables
  ReportDate = {1}
  RowLimit <- Limits
  MaxRuns = 1
  MaxReports = 0
INVARIANTS
  ControlledRunsAreInvisible
  ViewsAgree
  GateRaisesNoFalseAlarm
CHECK_DEADLOCK FALSE
