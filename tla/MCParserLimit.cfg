SPECIFICATION MCSpec
CONSTANTS
  Inputs <- FamilyInputs
  Families <- ArrayFamilies
  Reference = {}
  MaxExpressions = 3
  MaxStatements = 30
  MaxDiagnostics = 30
  CountModulus = 4
INVARIANTS
  ReportsExpressionLimit
CHECK_DEADLOCK FALSE
