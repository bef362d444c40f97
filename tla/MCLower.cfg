SPECIFICATION FairSpec
CONSTANTS
  Asts <- MCAsts
  NoName = NoName
  nameA = nameA
  nameB = nameB
  nameC = nameC
  Paddings = {0, 1}
  MaxNodes = 100
  MaxLocals = 10
  MaxTypes = 100
  MaxDiagnostics = 30
  MessageBytes = 56
INVARIANTS
  TypeOK
  NodesFormTrees
  BuildersNested
  WellTyped
  CleanMeansFaithful
  ScopesFollowTheText
  UnusedAreNeverRead
PROPERTY
  LowersToTheEnd
CHECK_DEADLOCK FALSE
