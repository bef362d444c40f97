SPECIFICATION Spec
CONSTANTS
  a = a
  b = b
  c = c
  d = d
  Empty = Empty
  NotIdentifier = NotIdentifier
  MaxTokens = 2
  Texts <- MCTexts
  Projects <- MCProjects
  Hash <- MCHash
INVARIANTS
  LoadFactorIsThreeQuarters
CHECK_DEADLOCK FALSE
