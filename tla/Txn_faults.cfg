CONSTANTS
  P = P
  Q = Q
  a = a
  b = b
  Page = {p1}
  Proc = {P, Q}
  NoProc = NoProc
  Conn = {1, 2}
  NoConn = 0
  Txns = {a, b}
  Owner <- OwnerPQ
  Writers = {a, b}
  ActiveMax = 2
  PendingMax = 1
  XLag = 1
  GcFills = FALSE
  AllocSizes = {1}
  MaxXid = 2
  MaxUsed = 1
  CrashAt <- AllPoints
  MaxCrashes = 1
  Fails = {"free", "map", "lock"}
  Repairers = {Q}
SPECIFICATION FairSpec
CHECK_DEADLOCK FALSE
INVARIANTS TypeOK OneOwner NoLostUpdate
PROPERTIES LockNotKept WriteLockReleased
