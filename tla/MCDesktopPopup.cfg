CONSTANTS
  NULL = NULL
  Entries = {"login"}
  FieldCount <- MCFieldCount
  HasTotp = {"login"}
  MaxSessions = 2
  MaxUnlocks = 2
  MaxCopies = 2
SPECIFICATION Spec
INVARIANTS TypeOK DetailOfThisSession DetailHasItsTimers ClearingIsArmed TrayCanLock
PROPERTIES ShownAfresh HiddenDetailGoes
CHECK_DEADLOCK FALSE
