CONSTANTS
  p1 = p1
  p2 = p2
  d1 = d1
  d2 = d2
  i1 = i1
  i2 = i2
  Procs = {p1, p2}
  Devices = {d1, d2}
  DeviceOf <- OwnDevice
  UseCases <- AddersAndDeleters
  Terminals = {p1, p2}
  Ids = {i1, i2}
  MaxVer = 0
  MaxLate = 1
  BatchSize = 1
  SameSecondWrites = TRUE
  WithReset = FALSE
  NoRow = NoRow
  U32Max = 3
  FREE_SLOTS_CAPACITY = 1
  TimeMax = 1
  Data <- MCData
  EmptyData = EmptyData
  TooLarge = {}
  NoAccount = NoAccount
SPECIFICATION ClientsSpec
INVARIANTS ClientsTypeOK NoSlotLeak DuplicatesOnlyFromLostSends
SYMMETRY WritersSymmetry
CHECK_DEADLOCK FALSE
