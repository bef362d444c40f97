SPECIFICATION ExecutionSpec
CONSTANTS
  Asts <- EmptyArrays
  NoName = NoName
  nameA = nameA
  nameB = nameB
  nameC = nameC
  Paddings = {0}
  MaxNodes = 100
  MaxLocals = 10
  MaxTypes = 100
  MaxDiagnostics = 30
  MessageBytes = 128
  SizeModulus = 65536
  Junk = Junk
  Caller = Caller
  Stack = 1024
  MaxIterations = 6
INVARIANT
  EnoughSpaceForLocals
