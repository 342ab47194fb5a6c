CONSTANTS
  DataWords = 10
  MaxPage = 3
  AllocCount = 1
  TxnIds = {0, 1, 2}
  Xmins = {1, 2, 3}
  MaxAlloc = 2
  CrashAt <- Harmless
  MaxCrashes = 2
  MapFails = TRUE
SPECIFICATION Spec
CHECK_DEADLOCK FALSE
INVARIANTS TypeOK OnePlace NoPageLost ListsInPage
PROPERTIES ImplementsPageStore
