CONSTANTS
  U32Max = 3
  FREE_SLOTS_CAPACITY = 2
  TimeMax = 2
  blob = blob
  longBlob = longBlob
  EmptyData = EmptyData
  NoAccount = NoAccount
  Data <- MCData
  TooLarge <- MCTooLarge
SPECIFICATION Spec
INVARIANTS
  TypeOK
  FreeListSound
  SlotsBelowNext
  EntryCountSound
  GroupsAccounted
  VaultFits
PROPERTIES
  EntriesNeverReplaced
  DeletedGroupsFrozen
  SlotsOnlyReclaimed
CHECK_DEADLOCK FALSE
