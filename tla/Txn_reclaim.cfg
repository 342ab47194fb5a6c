CONSTANTS
  P = P
  Q = Q
  a = a
  b = b
  Page = {p1, p2, p3}
  Proc = {P, Q}
  NoProc = NoProc
  Conn = {1, 2}
  NoConn = 0
  Txns = {a, b}
  Owner <- OwnerPQ
  Writers = {a}
  ActiveMax = 1
  PendingMax = 1
  XLag = 1
  GcFills = TRUE
  AllocSizes = {1, 2}
  MaxXid = 5
  MaxUsed = 1
  CrashAt <- AllButXid
  MaxCrashes = 1
  Fails = {}
  Repairers = {}
SYMMETRY PageSymmetry
SPECIFICATION Spec
CHECK_DEADLOCK FALSE
INVARIANTS OneOwner SnapshotPagesKept CopyOnWrite NoLeak
CONSTRAINT EarlyCrash
