SPECIFICATION Spec
CONSTANTS
  Tops = {16}
  MaxSize = 6
  Char <- MCChar
  Types <- MCTypes
  SubBumpAlignment = 4
  MaxCount = 2
  MaxHeld = 3
  MaxMarks = 2
  Values = {x}
  Terminator = nul
  Undefined = undefined
INVARIANTS
  TypeOK
  ObjectsAreApart
  NestingCountsBuilders
  ArraysAreAligned
PROPERTY
  ImplementsObjects
CHECK_DEADLOCK FALSE
