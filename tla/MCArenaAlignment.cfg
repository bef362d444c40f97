SPECIFICATION Spec
CONSTANTS
  Tops = {16}
  MaxSize = 16
  Char <- MCChar
  Types <- FunctionTypes
  SubBumpAlignment = 16
  MaxCount = 1
  MaxHeld = 2
  MaxMarks = 0
  Values = {x}
  Terminator = nul
  Undefined = undefined
INVARIANT
  BuildersAreAligned
CHECK_DEADLOCK FALSE
