CONSTANTS
  p = p
  q = q
  r = r
  k1 = k1
  k2 = k2
  Proc = {p, q, r}
  NoProc = NoProc
  Handle = {p, q, r}
  Owner <- Mine
  Key = {k1, k2}
  NoKey = NoKey
  BlockCount = 3
  Epoch = 2
  TimeInf = 7
  Checksum = TRUE
  Loads <- KindLoads
  MaxXid = 20
  MaxVno = 12
  MaxCrashes = 1
SPECIFICATION Spec
CHECK_DEADLOCK FALSE
INVARIANTS ActiveNotEvicted IndexMatchesSlab ReservedApart ExpiryAgrees ListOnce
PROPERTIES ImplementsMap
CONSTRAINT InStep
SYMMETRY Symmetry
