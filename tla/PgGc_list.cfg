CONSTANTS
  DataWords = 8
  MaxPage = 4
  AllocCount = 1
  TxnIds = {0, 1, 2}
  Xmins = {1, 2}
  MaxAlloc = 2
  CrashAt <- AllPoints
  MaxCrashes = 1
  MapFails = FALSE
SPECIFICATION Spec
CHECK_DEADLOCK FALSE
INVARIANTS OnePlace
