CONSTANTS
  P = P
  Q = Q
  a = a
  b = b
  Page = {p1, p2, p3, p4}
  Proc = {P, Q}
  NoProc = NoProc
  Conn = {1, 2}
  NoConn = 0
  Txns = {a, b}
  Owner <- OwnerPQ
  Writers = {a}
  ActiveMax = 2
  PendingMax = 1
  XLag = 1
  GcFills = FALSE
  AllocSizes = {2}
  MaxXid = 3
  MaxUsed = 2
  CrashAt <- AllPoints
  MaxCrashes = 0
  Fails = {}
  Repairers = {}
SYMMETRY PageSymmetry
SPECIFICATION HistorySpec
CHECK_DEADLOCK FALSE
INVARIANTS SingleChange
