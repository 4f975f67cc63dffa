CONSTANTS
  Slots = {0, 1, 2}
  Groups = {0, 1, 2}
  InitialGroup <- MCInitialGroup
  InitialState <- MCInitialState
  Name <- MCName
  CreatedAt <- MCCreatedAt
  Type <- MCType
  HasTotp = {0}
  Texts = {"", "a"}
  NoText = ""
  Matches <- MCMatches
  SortModes = {0, 1}
  MaxSettings = 1
  MaxChange = 1
  NULL = NULL
SPECIFICATION Spec
INVARIANT FilterLabelHonest
CHECK_DEADLOCK FALSE
