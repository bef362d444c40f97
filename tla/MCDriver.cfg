SPECIFICATION FairDriverSpec
CONSTANTS
  Inputs = {}
  MaxExpressions = 200
  MaxStatements = 100
  MaxDiagnostics = 14
  CountModulus = 65536
  Projects <- MCProjects
  MaxTextLength = 4
  FileModulus = 4
  Texts <- MCTexts
  Letters <- MCLetters
  Digits <- MCDigits
  Whitespace <- MCWhitespace
  Newline <- MCNewline
  Tab <- MCTab
  Space = " "
  DigitValue <- MCDigitValue
  MaxInteger = 1000
  Paddings = {0}
  MaxNodes = 200
  MaxLocals = 20
  MaxTypes = 200
  MessageBytes = 128
  SizeModulus = 65536
  Tests <- MCTests
  Outputs = {p, q}
  Abort = Abort
  Missing = Missing
INVARIANTS
  DriverTypeOK
  TokensAreLongestLexemes
  DiagnosticsAreShown
  EqualFilesFareAlike
  ExitTellsTheTruth
PROPERTIES
  TestsAreJudged
  Exits
