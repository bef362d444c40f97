SPECIFICATION FairSpec
CONSTANTS
  a = a
  b = b
  c = c
  d = d
  Empty = Empty
  NotIdentifier = NotIdentifier
  MaxTokens = 4
  Texts <- MCTexts
  Projects <- MCProjects
  Hash <- MCHash
INVARIANTS
  TypeOK
  SameIdIffSameText
  LookupIsInverse
  ProbeCanStop
  ProbeChains
PROPERTIES
  Termination
  ImplementsTable
CHECK_DEADLOCK FALSE
