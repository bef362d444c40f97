SPECIFICATION FairMCSpec
CONSTANTS
  Inputs <- MCInputs
  Families <- AllFamilies
  Reference <- MCReference
  MaxExpressions = 30
  MaxStatements = 30
  MaxDiagnostics = 14
  CountModulus = 30
INVARIANTS
  TypeOK
  EveryFunctionSurvives
  DiagnosticsMarkText
  BuildersNested
  NodesFormTrees
  AstIsComplete
  AgreesWithGrammar
PROPERTY
  ParsesToTheEnd
CHECK_DEADLOCK FALSE
