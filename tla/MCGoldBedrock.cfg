SPECIFICATION Spec
CONSTANTS
  Event <- Bodies
  ItemCatalog <- Catalog
  HalfHundredth = 5
  SilverTable <- PipelineTables
  ReportDate = {1}
  RowLimit <- Limits
  MaxRuns = 2
  MaxReports = 1
PROPERTIES
  BedrockIsGated
CHECK_DEADLOCK FALSE
