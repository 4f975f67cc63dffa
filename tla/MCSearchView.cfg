CONSTANTS
  MAX_VISIBLE_ENTRIES = 2
  LABEL_CHARS_LEN = 3
  Slots = {0, 1, 2, 3}
  Groups = {0, 1, 2}
  Colored = {0, 2}
  InitialGroup <- MCInitialGroup
  InitialGroups = {0, 1}
  Texts = {"", "a"}
  NoText = ""
  Matches <- MCMatches
  MaxChange = 2
  NULL = NULL
SPECIFICATION Spec
INVARIANTS TypeOK WindowSound KeysOpenWhatTheyShow SearchHonest HiddenBarFiltersNothing TabGoesRound
PROPERTIES TypedTextIsSearched
