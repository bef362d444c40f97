SPECIFICATION MCSpec
CONSTANTS
  Inputs <- FamilyInputs
  Families <- ErrorFamilies
  Reference = {}
  MaxExpressions = 30
  MaxStatements = 30
  MaxDiagnostics = 30
  CountModulus = 30
INVARIANTS
  ResilientToErrors
CHECK_DEADLOCK FALSE
