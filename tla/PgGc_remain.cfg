CONSTANTS
  DataWords = 10
  MaxPage = 3
  AllocCount = 1
  TxnIds = {0, 1, 2}
  Xmins = {1, 2}
  MaxAlloc = 2
  CrashAt <- AllPoints
  MaxCrashes = 0
  MapFails = FALSE
SPECIFICATION Spec
CHECK_DEADLOCK FALSE
INVARIANTS RoomNotNegative
