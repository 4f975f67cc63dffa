CONSTANTS
  p1 = p1
  p2 = p2
  d1 = d1
  d2 = d2
  i1 = i1
  i2 = i2
  Procs = {p1, p2}
  Devices = {d1, d2}
  DeviceOf <- OwnDevice
  UseCases <- WriterAndSyncer
  Terminals = {}
  Ids = {i1, i2}
  MaxVer = 0
  MaxLate = 0
  BatchSize = 1
  SameSecondWrites = FALSE
  WithReset = FALSE
  NoRow = NoRow
  U32Max = 3
  FREE_SLOTS_CAPACITY = 1
  TimeMax = 3
  Data <- MCData
  EmptyData = EmptyData
  TooLarge = {}
  NoAccount = NoAccount
SPECIFICATION ClientsSpec
PROPERTIES SyncDeletesMissing
SYMMETRY EntrySymmetry
CHECK_DEADLOCK FALSE
