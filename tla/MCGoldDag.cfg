SPECIFICATION Spec
CONSTANTS
  Event <- Bodies
  ItemCatalog <- Catalog
  HalfHundredth = 5
  SilverTable <- PipelineTables
  ReportDate = {1}
  RowLimit <- Limits
  MaxRuns = 2
  MaxReports = 1
INVARIANTS
  TypeOK
  LoadedGoldIsOfOneSnapshot
  EnginesAgree
  NoNullReachesTheDagReport
PROPERTIES
  GoldIsLoadedFromGatedViews
  StoredReportIsOfItsRun
CHECK_DEADLOCK FALSE
