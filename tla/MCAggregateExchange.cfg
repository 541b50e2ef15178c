SPECIFICATION Spec
CONSTANTS
  d1 = d1
  Date = {d1, d2}
  Revision = {1}
  DataClass = {"SYNTHETIC_TEST"}
  Sample <- Samples
  Importer = {m1, m2}
  Optional = {"upgrade_selected_counts", "run_end_counts"}
  Counted = {"run_ended"}
  MaxCount = 1
  MaxBuilds = 1
  MaxImports = 3
SYMMETRY Symmetry
INVARIANTS
  TypeOK
  ExportIsBracketed
  AnswersAreTrue
PROPERTIES
  ImplementsLedger
CHECK_DEADLOCK FALSE
