---------------------------- MODULE TxnSnapshots ----------------------------
(***************************************************************************)
(* Proof that the pages of a snapshot are kept for its reader, whoever     *)
(* writes, scans the slots, fails or is killed meanwhile.                  *)
(***************************************************************************)
EXTENDS TxnProofs

(* A read transaction whose slot holds its id. *)
Reading(t) == ro[t] /\ pc[t] \in {"load0", "load1", "open"}

(* A writer in ed_idx_xmin. *)
Scanning(t) == pc[t] = "alloc" \/ gcpage[t] = "scan"

(* The points at which a transaction scans for a gc page. *)
ScanPoints == \A t \in Txns : gcpage[t] = "scan" => pc[t] \in FreePoints

(* The ids in the header, in the slots and in the transactions. *)
XidInv ==
  /\ hxid >= 1 /\ \A c \in Conn : cxid[c] <= hxid
  /\ \A t \in Txns : lx[t] <= hxid /\ (pc[t] = "setxid" => lx[t] >= 1)
  /\ \A t \in Txns : Reading(t) => cxid[Slot(t)] >= 1
  /\ \A t \in Txns : pc[t] \in Numbered => xid[t] = hxid + 1
  /\ ScanPoints
  /\ \A q \in Proc : conn[q] # NoConn => cpid[conn[q]]

(* No writer can get page p while slot s holds the id x: it is in no list that
   is freed or used without a gate, its gate is newer than x, or will be, and a
   scan under way either comes to the slot or stays below the gate. *)
Kept(s, x, p) ==
  /\ p \notin active /\ \A c \in Conn : p \notin pend[c]
  /\ \A u \in Txns : p \notin pg[u] /\ p \notin hand[u]
  /\ p \in free => gate[p] > x
  /\ \A u \in Txns : p \in gc[u] => xid[u] > x
  /\ \A u \in Txns : p \in free /\ Scanning(u) => s \in todo[u] \/ gate[p] >= xmin[u]

ReadInv ==
  \A t \in Txns : Reading(t) =>
    \A p \in Pages(view[t]) : Kept(Slot(t), cxid[Slot(t)], p)

(* What is assumed of the processes: each uses one transaction object at a time
   for its slot, and none runs ed_stat_new or ed_idx_repair_leaks. *)
Solo == (\A t, u \in Txns : Owner[t] = Owner[u] => t = u) /\ Repairers = {}

-----------------------------------------------------------------------------
(* What a step of t does to the ids. *)
Counts(t) ==
  /\ conn' = conn /\ clock' = clock
  /\ \A c \in Conn : cxid'[c] = cxid[c] \/ cxid'[c] = 0 \/ cxid'[c] = lx[t]
  /\ \A c \in Conn \ {Slot(t)} : ~Unlocked(c) => cxid'[c] = cxid[c]
  /\ \A c \in Conn : ~Unlocked(c) => cpid'[c] = cpid[c]
  /\ lx'[t] = lx[t] \/ lx'[t] = 0 \/ lx'[t] = hxid
  /\ pc'[t] = "setxid" => lx'[t] = hxid
  /\ gcpage'[t] = "scan" => pc'[t] \in FreePoints
  /\ hxid' = hxid \/ (pc[t] = "xid" /\ hxid' = xid[t] /\ pc'[t] \notin Numbered)
  /\ pc'[t] \in Numbered => (pc[t] \in Numbered /\ xid'[t] = xid[t]) \/ xid'[t] = hxid + 1

(* What a step of t adds to its snapshot. *)
Loading(t) ==
  Reading(t)' =>
    \/ /\ Reading(t) /\ cxid'[Slot(t)] = cxid[Slot(t)]
       /\ Pages(view'[t]) \subseteq Pages(view[t]) \cup Pages(tree)
    \/ pc[t] = "setxid" /\ cxid'[Slot(t)] = lx[t] /\ view'[t] = view[t]

LEMMA StepCounts ==
  ASSUME TypeOK, LockInv, ScanPoints, NEW t \in Txns, TxnStep(t)
  PROVE  Counts(t)
<1>0. pc[t] # "none" => Slot(t) \in Conn
  BY SlotInConn, Zenon
<1>1. CASE TxnNew(t)
  BY <1>1, <1>0, Zenon DEF TxnNew, Counts, Goto, Runs, Numbered, FreePoints,
     ScanPoints, Unlocked, TypeOK, hdrVars, connVars, procVars, wrVars,
     runVars
<1>2. CASE OpenRead(t)
  BY <1>2, <1>0, Zenon DEF OpenRead, Counts, Goto, Runs, Numbered,
     FreePoints, ScanPoints, Unlocked, TypeOK, hdrVars, connVars, procVars,
     wrVars, runVars
<1>3. CASE OpenWrite(t)
  BY <1>3, <1>0, Zenon DEF OpenWrite, Counts, Goto, Runs, Numbered,
     FreePoints, ScanPoints, Unlocked, TypeOK, hdrVars, connVars, procVars,
     wrVars, runVars
<1>4. CASE CommitBegin(t)
  BY <1>4, <1>0, Zenon DEF CommitBegin, Counts, Goto, Runs, Numbered,
     FreePoints, ScanPoints, Unlocked, TypeOK, hdrVars, connVars, procVars,
     wrVars, runVars
<1>5. CASE GetXid(t)
  BY <1>5, <1>0, Zenon DEF GetXid, Counts, Goto, Runs, Numbered, FreePoints,
     ScanPoints, Unlocked, TypeOK, hdrVars, connVars, procVars, wrVars,
     runVars
<1>6. CASE SetXid(t)
  BY <1>6, <1>0, Zenon DEF SetXid, Counts, Goto, Runs, Numbered, FreePoints,
     ScanPoints, Unlocked, TypeOK, hdrVars, connVars, procVars, wrVars,
     runVars
<1>7. CASE LoadRoot0(t)
  BY <1>7, <1>0, Zenon DEF LoadRoot0, Counts, Goto, Runs, Numbered,
     FreePoints, ScanPoints, Unlocked, TypeOK, hdrVars, connVars, procVars,
     wrVars, runVars
<1>8. CASE LoadRoot1(t)
  BY <1>8, <1>0, Zenon DEF LoadRoot1, Counts, Goto, Runs, Numbered,
     FreePoints, ScanPoints, Unlocked, TypeOK, hdrVars, connVars, procVars,
     wrVars, runVars
<1>9. CASE LoadFails(t)
  BY <1>9, <1>0, Zenon DEF LoadFails, Counts, Goto, Runs, Numbered,
     FreePoints, ScanPoints, Unlocked, TypeOK, hdrVars, connVars, procVars,
     wrVars, runVars
<1>10. CASE RecoverActive(t)
  BY <1>10, <1>0, Zenon DEF RecoverActive, Counts, Goto, Runs, Numbered,
     FreePoints, ScanPoints, Unlocked, TypeOK, hdrVars, connVars, procVars,
     wrVars, runVars
<1>11. CASE FreeActive(t)
  BY <1>11, <1>0, Zenon DEF FreeActive, GcReady, Counts, Goto, Runs,
     Numbered, FreePoints, ScanPoints, Unlocked, TypeOK, hdrVars, connVars,
     procVars, wrVars, runVars
<1>12. CASE FreeActiveFails(t)
  BY <1>12, <1>0, Zenon DEF FreeActiveFails, GcReady, Counts, Goto, Runs,
     Numbered, FreePoints, ScanPoints, Unlocked, TypeOK, hdrVars, connVars,
     procVars, wrVars, runVars
<1>13. CASE TakePending(t)
  BY <1>13, <1>0, Zenon DEF TakePending, Counts, Goto, Runs, Numbered,
     FreePoints, ScanPoints, Unlocked, TypeOK, hdrVars, connVars, procVars,
     wrVars, runVars
<1>14. CASE SetActive(t)
  BY <1>14, <1>0, Zenon DEF SetActive, GcReady, Counts, Goto, Runs,
     Numbered, FreePoints, ScanPoints, Unlocked, TypeOK, hdrVars, connVars,
     procVars, wrVars, runVars
<1>15. CASE Take(t)
  BY <1>15, <1>0, Zenon DEF Take, Counts, Goto, Runs, Numbered, FreePoints,
     ScanPoints, Unlocked, TypeOK, hdrVars, connVars, procVars, wrVars,
     runVars
<1>16. CASE AllocFails(t)
  BY <1>16, <1>0, Zenon DEF AllocFails, Counts, Goto, Runs, Numbered,
     FreePoints, ScanPoints, Unlocked, TypeOK, hdrVars, connVars, procVars,
     wrVars, runVars
<1>17. CASE Record(t)
  BY <1>17, <1>0, Zenon DEF Record, Counts, Goto, Runs, Numbered,
     FreePoints, ScanPoints, Unlocked, TypeOK, hdrVars, connVars, procVars,
     wrVars, runVars
<1>18. CASE GcBegin(t)
  BY <1>18, <1>0, Zenon DEF GcBegin, Counts, Goto, Runs, Numbered,
     FreePoints, ScanPoints, Unlocked, TypeOK, hdrVars, connVars, procVars,
     wrVars, runVars
<1>19. CASE GcTake(t)
  BY <1>19, <1>0, Zenon DEF GcTake, Scans, Counts, Goto, Runs, Numbered,
     FreePoints, ScanPoints, Unlocked, TypeOK, hdrVars, connVars, procVars,
     wrVars, runVars
<1>20. CASE StoreTree(t)
  BY <1>20, <1>0, Zenon DEF StoreTree, Counts, Goto, Runs, Numbered,
     FreePoints, ScanPoints, Unlocked, TypeOK, hdrVars, connVars, procVars,
     wrVars, runVars
<1>21. CASE StoreXid(t)
  BY <1>21, <1>0, Zenon DEF StoreXid, Counts, Goto, Runs, Numbered,
     FreePoints, ScanPoints, Unlocked, TypeOK, hdrVars, connVars, procVars,
     wrVars, runVars
<1>22. CASE Discard(t)
  BY <1>22, <1>0, Zenon DEF Discard, GcReady, Counts, Goto, Runs, Numbered,
     FreePoints, ScanPoints, Unlocked, TypeOK, hdrVars, connVars, procVars,
     wrVars, runVars
<1>23. CASE FlushActive(t)
  BY <1>23, <1>0, Zenon DEF FlushActive, Counts, Goto, Runs, Numbered,
     FreePoints, ScanPoints, Unlocked, TypeOK, hdrVars, connVars, procVars,
     wrVars, runVars
<1>24. CASE StorePending(t)
  BY <1>24, <1>0, Zenon DEF StorePending, Counts, Goto, Runs, Numbered,
     FreePoints, ScanPoints, Unlocked, TypeOK, hdrVars, connVars, procVars,
     wrVars, runVars
<1>25. CASE Unlock(t)
  BY <1>25, <1>0, Zenon DEF Unlock, GcReady, Counts, Goto, Runs, Numbered,
     FreePoints, ScanPoints, Unlocked, TypeOK, hdrVars, connVars, procVars,
     wrVars, runVars
<1>26. CASE XminBegin(t)
  BY <1>26, <1>0, Zenon DEF XminBegin, Counts, Goto, Runs, Numbered,
     FreePoints, ScanPoints, Unlocked, TypeOK, hdrVars, connVars, procVars,
     wrVars, runVars
<1>27. ASSUME NEW c \in Conn, XminSlot(t, c) PROVE Counts(t)
  BY <1>27, <1>0, Zenon DEF XminSlot, Scans, Counts, Goto, Runs, Numbered,
     FreePoints, ScanPoints, Unlocked, TypeOK, hdrVars, connVars, procVars,
     wrVars, runVars
<1>28. ASSUME NEW d \in DB, NEW n \in Page, NEW p \in Page, Clone(t, d, n, p)
      PROVE  Counts(t)
  BY <1>28, <1>0, Zenon DEF Clone, Counts, Goto, Runs, Numbered, FreePoints,
     ScanPoints, Unlocked, TypeOK, hdrVars, connVars, procVars, wrVars,
     runVars
<1>29. ASSUME NEW d \in DB, NEW p \in Page, NewNode(t, d, p) PROVE Counts(t)
  BY <1>29, <1>0, Zenon DEF NewNode, Counts, Goto, Runs, Numbered,
     FreePoints, ScanPoints, Unlocked, TypeOK, hdrVars, connVars, procVars,
     wrVars, runVars
<1>30. ASSUME NEW d \in DB, NEW n \in Page, WriteInPlace(t, d, n) PROVE Counts(t)
  BY <1>30, <1>0, Zenon DEF WriteInPlace, Counts, Goto, Runs, Numbered,
     FreePoints, ScanPoints, Unlocked, TypeOK, hdrVars, connVars, procVars,
     wrVars, runVars
<1>31. ASSUME NEW r \in BOOLEAN, CloseLocked(t, r) PROVE Counts(t)
  BY <1>31, <1>0, Zenon DEF CloseLocked, ReleaseXid, Forget, Closable,
     Counts, Goto, Runs, Numbered, FreePoints, ScanPoints, Unlocked, TypeOK,
     hdrVars, connVars, procVars, wrVars, runVars
<1>32. ASSUME NEW r \in BOOLEAN, CloseUnlocked(t, r) PROVE Counts(t)
  BY <1>32, <1>0, Zenon DEF CloseUnlocked, ReleaseXid, Forget, Counts, Goto,
     Runs, Numbered, FreePoints, ScanPoints, Unlocked, TypeOK, hdrVars,
     connVars, procVars, wrVars, runVars
<1> QED
  BY <1>1, <1>2, <1>3, <1>4, <1>5, <1>6, <1>7, <1>8, <1>9, <1>10, <1>11,
     <1>12, <1>13, <1>14, <1>15, <1>16, <1>17, <1>18, <1>19, <1>20, <1>21,
     <1>22, <1>23, <1>24, <1>25, <1>26, <1>27, <1>28, <1>29, <1>30, <1>31,
     <1>32, Zenon DEF TxnStep, Progress, Work, Close

(* Only the steps of ed_idx_acquire_snapshot give a reader pages. *)
LEMMA StepLoading ==
  ASSUME TypeOK, LockInv, NEW t \in Txns, TxnStep(t)
  PROVE  Loading(t)
<1>0. pc[t] \in Locked => ~ro[t]
  BY Zenon DEF LockInv, ModeInv
<1>1. ASSUME pc'[t] \notin {"load0", "load1", "open"} PROVE Loading(t)
  BY <1>1, Zenon DEF Loading, Reading
<1>2. CASE SetXid(t)
  BY <1>2, SlotInConn, Zenon DEF SetXid, Runs, Loading, TypeOK
<1>3. CASE LoadRoot0(t)
  <2>1. /\ view'[t][0] = tree[0] /\ view'[t][1] = view[t][1] /\ cxid' = cxid
        /\ pc[t] = "load0" /\ ro' = ro
    BY <1>3 DEF LoadRoot0, Runs, connVars, runVars, TypeOK, DB
  <2> QED
    BY <2>1, Zenon DEF Loading, Reading, Pages
<1>4. CASE LoadRoot1(t)
  <2>1. /\ view'[t][1] = tree[1] /\ view'[t][0] = view[t][0] /\ cxid' = cxid
        /\ pc[t] = "load1" /\ ro' = ro
    BY <1>4 DEF LoadRoot1, Runs, connVars, runVars, TypeOK, DB
  <2> QED
    BY <2>1, Zenon DEF Loading, Reading, Pages
<1>5. CASE TxnNew(t)
  BY <1>5, <1>1, Zenon DEF TxnNew, Goto, Runs, TypeOK
<1>6. CASE OpenRead(t)
  BY <1>6, <1>1, Zenon DEF OpenRead, Goto, Runs, TypeOK
<1>7. CASE OpenWrite(t)
  BY <1>7, <1>1, Zenon DEF OpenWrite, Goto, Runs, TypeOK
<1>8. CASE CommitBegin(t)
  BY <1>8, <1>1, Zenon DEF CommitBegin, Goto, Runs, TypeOK
<1>9. CASE GetXid(t)
  BY <1>9, <1>1, Zenon DEF GetXid, Goto, Runs, TypeOK
<1>10. CASE LoadFails(t)
  BY <1>10, <1>1, Zenon DEF LoadFails, Goto, Runs, TypeOK
<1>11. CASE RecoverActive(t)
  BY <1>11, <1>1, Zenon DEF RecoverActive, Goto, Runs, TypeOK
<1>12. CASE FreeActive(t)
  BY <1>12, <1>1, Zenon DEF FreeActive, Goto, Runs, TypeOK
<1>13. CASE FreeActiveFails(t)
  BY <1>13, <1>1, Zenon DEF FreeActiveFails, Goto, Runs, TypeOK
<1>14. CASE TakePending(t)
  BY <1>14, <1>1, Zenon DEF TakePending, Goto, Runs, TypeOK
<1>15. CASE SetActive(t)
  BY <1>15, <1>1, Zenon DEF SetActive, Goto, Runs, TypeOK
<1>16. CASE Take(t)
  BY <1>16, <1>1, Zenon DEF Take, Goto, Runs, TypeOK
<1>17. CASE AllocFails(t)
  BY <1>17, <1>1, Zenon DEF AllocFails, Goto, Runs, TypeOK
<1>18. CASE Record(t)
  BY <1>18, <1>1, Zenon DEF Record, Goto, Runs, TypeOK
<1>19. CASE GcBegin(t)
  BY <1>19, <1>1, Zenon DEF GcBegin, FreePoints, Goto, Runs, TypeOK
<1>20. CASE GcTake(t)
  BY <1>20, <1>1, Zenon DEF GcTake, Scans, FreePoints, Goto, Runs, TypeOK
<1>21. CASE StoreTree(t)
  BY <1>21, <1>1, Zenon DEF StoreTree, Goto, Runs, TypeOK
<1>22. CASE StoreXid(t)
  BY <1>22, <1>1, Zenon DEF StoreXid, Goto, Runs, TypeOK
<1>23. CASE Discard(t)
  BY <1>23, <1>1, Zenon DEF Discard, Goto, Runs, TypeOK
<1>24. CASE FlushActive(t)
  BY <1>24, <1>1, Zenon DEF FlushActive, Goto, Runs, TypeOK
<1>25. CASE StorePending(t)
  BY <1>25, <1>1, Zenon DEF StorePending, Goto, Runs, TypeOK
<1>26. CASE Unlock(t)
  BY <1>26, <1>1, Zenon DEF Unlock, Goto, Runs, TypeOK
<1>27. CASE XminBegin(t)
  BY <1>27, <1>1, Zenon DEF XminBegin, Goto, Runs, TypeOK
<1>28. ASSUME NEW c \in Conn, XminSlot(t, c) PROVE Loading(t)
  BY <1>28, <1>1, Zenon DEF XminSlot, Scans, FreePoints, Goto, Runs, TypeOK
<1>29. ASSUME NEW d \in DB, NEW n \in Page, NEW p \in Page, Clone(t, d, n, p)
      PROVE  Loading(t)
  BY <1>29, <1>1, Zenon DEF Clone, Goto, Runs, TypeOK
<1>30. ASSUME NEW d \in DB, NEW p \in Page, NewNode(t, d, p) PROVE Loading(t)
  BY <1>30, <1>1, Zenon DEF NewNode, Goto, Runs, TypeOK
<1>31. ASSUME NEW d \in DB, NEW n \in Page, WriteInPlace(t, d, n) PROVE Loading(t)
  BY <1>31, <1>1, Zenon DEF WriteInPlace, Goto, Runs, TypeOK
<1>32. ASSUME NEW r \in BOOLEAN, CloseLocked(t, r) PROVE Loading(t)
  BY <1>32, <1>1, Zenon DEF CloseLocked, Goto, Runs, TypeOK
<1>33. ASSUME NEW r \in BOOLEAN, CloseUnlocked(t, r) PROVE Loading(t)
  BY <1>33, <1>1, Zenon DEF CloseUnlocked, Goto, Runs, TypeOK
<1> QED
  BY <1>2, <1>3, <1>4, <1>5, <1>6, <1>7, <1>8, <1>9, <1>10, <1>11, <1>12,
     <1>13, <1>14, <1>15, <1>16, <1>17, <1>18, <1>19, <1>20, <1>21, <1>22,
     <1>23, <1>24, <1>25, <1>26, <1>27, <1>28, <1>29, <1>30, <1>31, <1>32,
     <1>33, Zenon DEF TxnStep, Progress, Work, Close

-----------------------------------------------------------------------------
(* The ids.                                                                *)

(* Two objects of different processes have different slots. *)
LEMMA OwnSlot ==
  ASSUME LockInv, Solo, NEW t \in Txns, NEW u \in Txns \ {t}, pc[u] # "none"
  PROVE  Slot(u) # Slot(t)
<1>1. Owner[t] \in Proc /\ Owner[u] \in Proc
  BY TxnAssumption, Zenon
<1>2. Owner[t] # Owner[u]
  BY Zenon DEF Solo
<1>3. conn[Owner[u]] # NoConn /\ clock[conn[Owner[u]]] = Owner[u]
  BY <1>1, Zenon DEF LockInv, ConnInv, Slot
<1>4. conn[Owner[t]] # NoConn => clock[conn[Owner[t]]] = Owner[t]
  BY <1>1, Zenon DEF LockInv, ConnInv
<1> QED
  BY <1>2, <1>3, <1>4, Zenon DEF Slot

LEMMA TxnXidStep ==
  ASSUME TypeOK, LockInv, XidInv, Solo, NEW t \in Txns, TxnStep(t)
  PROVE  XidInv'
<1>1. Apart(t)
  BY StepApart, Zenon
<1>2. ScanPoints
  BY Zenon DEF XidInv
<1>3. Counts(t)
  BY <1>2, StepCounts, Zenon
<1>4. Loading(t)
  BY StepLoading, Zenon
<1>5. /\ hxid \in Nat /\ cxid \in [Conn -> Nat] /\ lx \in [Txns -> Nat]
      /\ \A u \in Txns : pc[u] # "none" => Slot(u) \in Conn /\ ~Unlocked(Slot(u))
  <2>1. hxid \in Nat /\ cxid \in [Conn -> Nat] /\ lx \in [Txns -> Nat]
    BY Zenon DEF TypeOK
  <2>2. ASSUME NEW u \in Txns, pc[u] # "none"
        PROVE  Slot(u) \in Conn /\ ~Unlocked(Slot(u))
    <3>1. Slot(u) \in Conn /\ clock[Slot(u)] \in Proc
      BY <2>2, SlotInConn, Zenon
    <3> QED
      BY <3>1, TxnAssumption, Zenon DEF Unlocked
  <2> QED
    BY <2>1, <2>2, Zenon
<1>6. hxid' = hxid \/ hxid' = hxid + 1
  BY <1>3, Zenon DEF Counts, XidInv, Numbered
<1>7. hxid' >= 1 /\ hxid' >= hxid /\ hxid' \in Nat
  BY <1>5, <1>6 DEF XidInv
<1>8. ASSUME NEW c \in Conn PROVE cxid'[c] <= hxid'
  <2>1. cxid[c] <= hxid /\ lx[t] <= hxid /\ cxid[c] \in Nat /\ lx[t] \in Nat
    BY <1>5, Zenon DEF XidInv
  <2>2. cxid'[c] = cxid[c] \/ cxid'[c] = 0 \/ cxid'[c] = lx[t]
    BY <1>3, Zenon DEF Counts
  <2> QED
    BY <1>5, <1>7, <2>1, <2>2
<1>9. ASSUME NEW u \in Txns PROVE lx'[u] <= hxid' /\ (pc'[u] = "setxid" => lx'[u] >= 1)
  <2>1. lx[u] <= hxid /\ hxid >= 1 /\ lx[u] \in Nat /\ (pc[u] = "setxid" => lx[u] >= 1)
    BY <1>5, Zenon DEF XidInv
  <2>2. CASE u = t
    <3>1. (lx'[u] = lx[u] \/ lx'[u] = 0 \/ lx'[u] = hxid) /\ (pc'[u] = "setxid" => lx'[u] = hxid)
      BY <1>3, <2>2, Zenon DEF Counts
    <3> QED
      BY <1>5, <1>7, <2>1, <3>1
  <2>3. CASE u # t
    <3>1. lx'[u] = lx[u] /\ pc'[u] = pc[u]
      BY <1>1, <2>3, Zenon DEF Apart
    <3> QED
      BY <1>5, <1>7, <2>1, <3>1
  <2> QED
    BY <2>2, <2>3, Zenon
<1>10. ASSUME NEW u \in Txns, Reading(u)' PROVE cxid'[Slot(u)'] >= 1
  <2>1. Slot(u)' = Slot(u)
    BY <1>3, Zenon DEF Counts, Slot
  <2>2. CASE u = t
    BY <1>4, <1>10, <2>1, <2>2, Zenon DEF Loading, XidInv
  <2>3. CASE u # t
    <3>1. Reading(u)
      BY <1>1, <1>10, <2>3, Zenon DEF Apart, Reading
    <3>2. Slot(u) # Slot(t) /\ Slot(u) \in Conn /\ ~Unlocked(Slot(u))
      BY <1>5, <2>3, <3>1, OwnSlot, Zenon DEF Reading
    <3> QED
      BY <1>3, <2>1, <3>1, <3>2, Zenon DEF Counts, XidInv
  <2> QED
    BY <2>2, <2>3, Zenon
<1>11. ASSUME NEW u \in Txns, pc'[u] \in Numbered PROVE xid'[u] = hxid' + 1
  <2>1. CASE u = t
    <3>1. hxid' = hxid
      BY <1>3, <1>11, <2>1, Zenon DEF Counts
    <3> QED
      BY <1>3, <1>11, <2>1, <3>1, Zenon DEF Counts, XidInv
  <2>2. CASE u # t
    <3>1. pc[u] \in Numbered /\ xid'[u] = xid[u]
      BY <1>1, <1>11, <2>2, Zenon DEF Apart
    <3>2. pc[u] \in Locked
      BY <3>1, Zenon DEF Numbered, Locked
    <3>3. pc[t] \notin Locked
      BY <2>2, <3>2, OtherIdle, Zenon
    <3>4. hxid' = hxid
      BY <1>3, <3>3, Zenon DEF Counts, Locked
    <3> QED
      BY <3>1, <3>4, Zenon DEF XidInv
  <2> QED
    BY <2>1, <2>2, Zenon
<1>12. ScanPoints'
  BY <1>1, <1>2, <1>3, Zenon DEF Apart, Counts, ScanPoints
<1>13. ASSUME NEW q \in Proc, conn'[q] # NoConn PROVE cpid'[conn'[q]]
  <2>1. conn' = conn /\ conn[q] \in Conn /\ clock[conn[q]] = q
    BY <1>3, <1>13, Zenon DEF Counts, LockInv, ConnInv, TypeOK
  <2>2. ~Unlocked(conn[q]) /\ cpid[conn[q]]
    BY <2>1, <1>13, TxnAssumption, Zenon DEF Unlocked, XidInv
  <2> QED
    BY <1>3, <2>1, <2>2, Zenon DEF Counts
<1> QED
  BY <1>7, <1>8, <1>9, <1>10, <1>11, <1>12, <1>13, Zenon DEF XidInv

(* What a step of a process that repairs nothing leaves to a reader. *)
Leaves ==
  \A u \in Txns : Reading(u)' =>
    /\ Reading(u) /\ Slot(u)' = Slot(u)
    /\ cxid'[Slot(u)] = cxid[Slot(u)] /\ view'[u] = view[u]

LEMMA ProcLeaves ==
  ASSUME TypeOK, LockInv, Solo, NEW q \in Proc, ProcStep(q)
  PROVE  Leaves
<1>0. ASSUME NEW u \in Txns, Reading(u)
      PROVE  /\ Slot(u) \in Conn /\ clock[Slot(u)] = Owner[u] /\ Owner[u] \in Proc
             /\ Slot(u) # NoConn /\ ~Unlocked(Slot(u)) /\ pc[u] # "none"
             /\ (Owner[u] # q /\ conn[q] # NoConn => conn[q] # Slot(u))
  <2>1. pc[u] # "none"
    BY <1>0, Zenon DEF Reading
  <2>2. Slot(u) \in Conn /\ clock[Slot(u)] = Owner[u] /\ Owner[u] \in Proc
    BY <2>1, SlotInConn, Zenon
  <2>3. Slot(u) # NoConn /\ ~Unlocked(Slot(u))
    BY <2>2, TxnAssumption, Zenon DEF Unlocked
  <2>4. conn[q] # NoConn => clock[conn[q]] = q
    BY Zenon DEF LockInv, ConnInv
  <2> QED
    BY <2>1, <2>2, <2>3, <2>4, Zenon
<1>1. ASSUME NEW c \in Conn, IdxOpen(q, c) PROVE Leaves
  <2>1. /\ conn[q] = NoConn /\ Unlocked(c) /\ UNCHANGED <<pc, ro, view>>
        /\ cxid' = [cxid EXCEPT ![c] = 0] /\ conn' = [conn EXCEPT ![q] = c]
    BY <1>1, Zenon DEF IdxOpen, Acquirable, runVars
  <2> SUFFICES ASSUME NEW u \in Txns, Reading(u)
               PROVE  Slot(u)' = Slot(u) /\ cxid'[Slot(u)] = cxid[Slot(u)]
    BY <2>1, Zenon DEF Leaves, Reading
  <2> QED
    BY <1>0, <2>1, Zenon DEF TypeOK, Slot
<1>2. ASSUME IdxClose(q) PROVE Leaves
  <2>1. /\ conn[q] # NoConn /\ UNCHANGED <<pc, ro, view>>
        /\ \A u \in Txns : Owner[u] = q => pc[u] = "none"
        /\ cxid' = [cxid EXCEPT ![conn[q]] = 0] /\ conn' = [conn EXCEPT ![q] = NoConn]
    BY <1>2, Zenon DEF IdxClose, runVars
  <2> SUFFICES ASSUME NEW u \in Txns, Reading(u)
               PROVE  Slot(u)' = Slot(u) /\ cxid'[Slot(u)] = cxid[Slot(u)]
    BY <2>1, Zenon DEF Leaves, Reading
  <2>2. Owner[u] # q /\ conn[q] # Slot(u)
    BY <1>0, <2>1, Zenon
  <2> QED
    BY <1>0, <2>1, <2>2, Zenon DEF TypeOK, Slot
<1>3. CASE Stat(q)
  BY <1>3, Zenon DEF Stat, Solo
<1>4. CASE Repair(q)
  BY <1>4, Zenon DEF Repair, connVars, runVars, Leaves, Reading, Slot
<1>5. CASE Crash(q)
  <2>1. /\ \A u \in Txns : Owner[u] = q => pc'[u] = "none"
        /\ cxid' = cxid /\ conn' = [conn EXCEPT ![q] = NoConn]
        /\ \A u \in Txns : Owner[u] # q =>
             pc'[u] = pc[u] /\ ro'[u] = ro[u] /\ view'[u] = view[u]
    BY <1>5, Zenon DEF Crash
  <2> SUFFICES ASSUME NEW u \in Txns, Reading(u)', Owner[u] # q, Reading(u)
               PROVE  Slot(u)' = Slot(u)
    BY <2>1, Zenon DEF Leaves, Reading
  <2> QED
    BY <1>0, <2>1, Zenon DEF TypeOK, Slot
<1> QED
  BY <1>1, <1>2, <1>3, <1>4, <1>5, Zenon DEF ProcStep

LEMMA ProcXidStep ==
  ASSUME TypeOK, LockInv, XidInv, Solo, NEW q \in Proc, ProcStep(q)
  PROVE  XidInv'
<1>1. Leaves
  BY ProcLeaves, Zenon
<1>2. ASSUME NEW u \in Txns, Reading(u)' PROVE cxid'[Slot(u)'] >= 1
  <2>1. /\ Reading(u) /\ Slot(u)' = Slot(u)
        /\ cxid'[Slot(u)] = cxid[Slot(u)]
    BY <1>1, <1>2, Zenon DEF Leaves
  <2>2. cxid[Slot(u)] >= 1
    BY <2>1, Zenon DEF XidInv
  <2> QED
    BY <2>1, <2>2, Zenon
<1>3. hxid' = hxid
  BY Zenon DEF ProcStep, IdxOpen, IdxClose, Stat, Repair, Crash, hdrVars
<1>4. \A c \in Conn : cxid'[c] = cxid[c] \/ cxid'[c] = 0
  BY Zenon DEF ProcStep, IdxOpen, IdxClose, Stat, Repair, Crash, connVars, TypeOK
<1>5. \A c \in Conn : cxid'[c] <= hxid
  <2>1. hxid \in Nat /\ hxid >= 0
    BY DEF TypeOK
  <2> QED
    BY <1>4, <2>1, Zenon DEF XidInv
<1>6. \A u \in Txns :
        \/ pc'[u] = "none" /\ lx'[u] = 0 /\ gcpage'[u] = "no"
        \/ /\ pc'[u] = pc[u] /\ lx'[u] = lx[u] /\ gcpage'[u] = gcpage[u]
           /\ xid'[u] = xid[u]
  <2>1. CASE Crash(q)
    BY <2>1, Zenon DEF Crash
  <2> QED
    BY <2>1, Zenon DEF ProcStep, IdxOpen, IdxClose, Stat, Repair, wrVars, runVars
<1>7. \A u \in Txns : lx'[u] <= hxid /\ (pc'[u] = "setxid" => lx'[u] >= 1)
  <2>1. hxid \in Nat /\ hxid >= 0
    BY DEF TypeOK
  <2> QED
    BY <1>6, <2>1, Zenon DEF XidInv
<1>8. \A u \in Txns : pc'[u] \in Numbered => xid'[u] = hxid + 1
  BY <1>6, Zenon DEF XidInv, Numbered
<1>9. ScanPoints'
  BY <1>6, Zenon DEF XidInv, ScanPoints
<1>10. ASSUME NEW r \in Proc, conn'[r] # NoConn PROVE cpid'[conn'[r]]
  <2>1. ASSUME NEW c \in Conn, IdxOpen(q, c) PROVE cpid'[conn'[r]]
    <3>1. conn'[r] = c \/ (conn'[r] = conn[r] /\ conn[r] \in Conn)
      BY <1>10, <2>1, Zenon DEF IdxOpen, TypeOK
    <3> QED
      BY <1>10, <2>1, <3>1, Zenon DEF IdxOpen, TypeOK, XidInv
  <2>2. ASSUME r # q, IdxClose(q) PROVE cpid'[conn'[r]]
    <3>1. conn'[r] = conn[r] /\ conn[r] \in Conn
      BY <1>10, <2>2, Zenon DEF IdxClose, TypeOK
    <3>2. conn[r] # conn[q]
      BY <1>10, <2>2, <3>1, Zenon DEF IdxClose, LockInv, ConnInv
    <3> QED
      BY <1>10, <2>2, <3>1, <3>2, Zenon DEF IdxClose, TypeOK, XidInv
  <2>3. CASE r = q /\ (IdxClose(q) \/ Crash(q))
    BY <1>10, <2>3, Zenon DEF IdxClose, Crash, TypeOK
  <2>4. CASE r # q /\ Crash(q)
    BY <1>10, <2>4, Zenon DEF Crash, TypeOK, XidInv
  <2>5. CASE Stat(q) \/ Repair(q)
    BY <1>10, <2>5, Zenon DEF Stat, Repair, connVars, XidInv
  <2> QED
    BY <2>1, <2>2, <2>3, <2>4, <2>5, Zenon DEF ProcStep
<1> QED
  BY <1>2, <1>3, <1>5, <1>7, <1>8, <1>9, <1>10, Zenon DEF XidInv

-----------------------------------------------------------------------------
(* What keeps a page.                                                      *)

(* A locked slot in use, with the id x. *)
Guard(s, x) ==
  s \in Conn /\ ~Unlocked(s) /\ cpid[s] /\ cxid[s] = x /\ x \in Nat \ {0} /\ x <= hxid

(* The committed pages are in no transaction's memory. *)
LEMMA TreeApart ==
  ASSUME Sound, NEW p \in Pages(tree)
  PROVE  \A u \in Txns : p \notin pg[u] /\ p \notin hand[u]
<1> TypeOK /\ LockInv /\ PageInv
  BY Zenon DEF Sound
<1>1. p \notin active /\ p \notin free /\ \A c \in Conn : p \notin pend[c]
  BY Zenon DEF PageInv, OneOwner, Disjoint
<1>2. ASSUME NEW u \in Txns PROVE p \notin pg[u] /\ p \notin hand[u]
  <2>1. Good(u) /\ (pc[u] \in Locked => Holds(u)) /\ Settled(u)
    BY Zenon DEF PageInv, Good
  <2>2. CASE pc[u] \in Locked
    <3>1. p \notin hand[u]
      BY <2>1, <2>2, Zenon DEF Holds, Disjoint
    <3>2. CASE pc[u] \in Out
      BY <2>1, <2>2, <3>1, <3>2, Zenon DEF Holds, Disjoint
    <3>3. CASE pc[u] \notin Out
      <4>1. pg[u] \subseteq pend[Slot(u)] /\ Slot(u) \in Conn
        BY <2>1, <2>2, <3>3, SlotInConn, Zenon DEF Settled, Locked
      <4> QED
        BY <1>1, <3>1, <4>1, Zenon
    <3> QED
      BY <3>2, <3>3, Zenon
  <2>3. CASE pc[u] \notin Locked
    <3>1. hand[u] = {} /\ (pc[u] = "none" => pg[u] = {})
      BY <2>1, <2>3, Zenon DEF Settled, Locked
    <3>2. pc[u] # "none" => pg[u] \subseteq pend[Slot(u)] /\ Slot(u) \in Conn
      BY <2>1, <2>3, SlotInConn, Zenon DEF Settled, Locked, Out
    <3> QED
      BY <1>1, <3>1, <3>2, Zenon
  <2> QED
    BY <2>2, <2>3, Zenon
<1> QED
  BY <1>2, Zenon

(* The committed pages are kept for every slot: no id is newer than hdr->xid. *)
LEMMA TreeKept ==
  ASSUME Sound, XidInv, NEW s, NEW x, Guard(s, x), NEW p \in Pages(tree)
  PROVE  Kept(s, x, p)
<1> TypeOK /\ LockInv /\ PageInv
  BY Zenon DEF Sound
<1>1. p \notin active /\ p \notin free /\ \A c \in Conn : p \notin pend[c]
  BY Zenon DEF PageInv, OneOwner, Disjoint
<1>2. \A u \in Txns : p \notin pg[u] /\ p \notin hand[u]
  BY TreeApart, Zenon
<1>3. ASSUME NEW u \in Txns, p \in gc[u] PROVE xid[u] > x
  <2>1. Settled(u) /\ (pc[u] \in Locked => Edits(u))
    BY Zenon DEF PageInv, Good
  <2>2. pc[u] \in Editing \cup {"tree", "xid", "discard"}
    BY <1>3, <2>1, Zenon DEF Settled
  <2>3. pc[u] \notin {"xid", "discard"}
    BY <1>3, <2>1, Zenon DEF Edits, Locked, Disjoint
  <2>4. xid[u] = hxid + 1
    BY <2>2, <2>3, Zenon DEF XidInv, Editing, Numbered
  <2>5. hxid \in Nat /\ x \in Nat /\ x <= hxid
    BY Zenon DEF TypeOK, Guard
  <2> QED
    BY <2>4, <2>5
<1> QED
  BY <1>1, <1>2, <1>3, Zenon DEF Kept

(* Where the allocator does not own a page. *)
HeldBy(t, p) ==
  p \in active \/ p \in pg[t] \/ p \in hand[t] \/ \E c \in Conn : p \in pend[c]

(* A step that at most moves pages between such places. *)
Shuffles(t) ==
  /\ free' = free /\ gate' = gate /\ ~Scanning(t)'
  /\ \A p \in Page : HeldBy(t, p)' => HeldBy(t, p)
  /\ gc'[t] = {} \/ (gc'[t] = gc[t] /\ xid'[t] = xid[t])

MovesPages(t) ==
  \/ TxnNew(t) \/ OpenRead(t) \/ OpenWrite(t) \/ CommitBegin(t) \/ GetXid(t)
  \/ SetXid(t) \/ LoadRoot0(t) \/ LoadRoot1(t) \/ LoadFails(t)
  \/ RecoverActive(t) \/ FreeActiveFails(t) \/ TakePending(t) \/ AllocFails(t)
  \/ Record(t) \/ StoreTree(t) \/ StoreXid(t) \/ FlushActive(t)
  \/ StorePending(t) \/ Close(t)
  \/ \E d \in DB, p \in Page : NewNode(t, d, p)
  \/ \E d \in DB, n \in Page : WriteInPlace(t, d, n)

LEMMA StepShuffles ==
  ASSUME TypeOK, LockInv, ScanPoints, NEW t \in Txns, gc[t] = {} \/ pc[t] # "load1",
         MovesPages(t)
  PROVE  Shuffles(t)
<1>0. pc[t] # "none" => Slot(t) \in Conn
  BY SlotInConn, Zenon
<1>a. gcpage[t] = "scan" => pc[t] \in FreePoints
  BY Zenon DEF ScanPoints
<1>1. CASE TxnNew(t)
  BY <1>1, <1>0, <1>a, Zenon DEF TxnNew, Shuffles, HeldBy, Scanning, Goto,
     Runs, FreePoints, TypeOK, hdrVars, connVars, storeVars, wrVars, runVars
<1>2. CASE OpenRead(t)
  BY <1>2, <1>0, <1>a, Zenon DEF OpenRead, Shuffles, HeldBy, Scanning, Goto,
     Runs, FreePoints, TypeOK, hdrVars, connVars, storeVars, wrVars, runVars
<1>3. CASE OpenWrite(t)
  BY <1>3, <1>0, <1>a, Zenon DEF OpenWrite, Shuffles, HeldBy, Scanning,
     Goto, Runs, FreePoints, TypeOK, hdrVars, connVars, storeVars, wrVars,
     runVars
<1>4. CASE CommitBegin(t)
  BY <1>4, <1>0, <1>a, Zenon DEF CommitBegin, Shuffles, HeldBy, Scanning,
     Goto, Runs, FreePoints, TypeOK, hdrVars, connVars, storeVars, wrVars,
     runVars
<1>5. CASE GetXid(t)
  BY <1>5, <1>0, <1>a, Zenon DEF GetXid, Shuffles, HeldBy, Scanning, Goto,
     Runs, FreePoints, TypeOK, hdrVars, connVars, storeVars, wrVars, runVars
<1>6. CASE SetXid(t)
  BY <1>6, <1>0, <1>a, Zenon DEF SetXid, Shuffles, HeldBy, Scanning, Goto,
     Runs, FreePoints, TypeOK, hdrVars, connVars, storeVars, wrVars, runVars
<1>7. CASE LoadRoot0(t)
  BY <1>7, <1>0, <1>a, Zenon DEF LoadRoot0, Shuffles, HeldBy, Scanning,
     Goto, Runs, FreePoints, TypeOK, hdrVars, connVars, storeVars, wrVars,
     runVars
<1>8. CASE LoadRoot1(t)
  BY <1>8, <1>0, <1>a, Zenon DEF LoadRoot1, Shuffles, HeldBy, Scanning,
     Goto, Runs, FreePoints, TypeOK, hdrVars, connVars, storeVars, wrVars,
     runVars
<1>9. CASE LoadFails(t)
  BY <1>9, <1>0, <1>a, Zenon DEF LoadFails, Shuffles, HeldBy, Scanning,
     Goto, Runs, FreePoints, TypeOK, hdrVars, connVars, storeVars, wrVars,
     runVars
<1>10. CASE RecoverActive(t)
  BY <1>10, <1>0, <1>a, Zenon DEF RecoverActive, Shuffles, HeldBy, Scanning,
     Goto, Runs, FreePoints, TypeOK, hdrVars, connVars, storeVars, wrVars,
     runVars
<1>11. CASE FreeActiveFails(t)
  BY <1>11, <1>0, <1>a, Zenon DEF FreeActiveFails, GcReady, Shuffles,
     HeldBy, Scanning, Goto, Runs, FreePoints, TypeOK, hdrVars, connVars,
     storeVars, wrVars, runVars
<1>12. CASE TakePending(t)
  BY <1>12, <1>0, <1>a, Zenon DEF TakePending, Inactive, Shuffles, HeldBy,
     Scanning, Goto, Runs, FreePoints, TypeOK, hdrVars, connVars, storeVars,
     wrVars, runVars
<1>13. CASE AllocFails(t)
  BY <1>13, <1>0, <1>a, Zenon DEF AllocFails, Shuffles, HeldBy, Scanning,
     Goto, Runs, FreePoints, TypeOK, hdrVars, connVars, storeVars, wrVars,
     runVars
<1>14. CASE Record(t)
  BY <1>14, <1>0, <1>a, Zenon DEF Record, Shuffles, HeldBy, Scanning, Goto,
     Runs, FreePoints, TypeOK, hdrVars, connVars, storeVars, wrVars, runVars
<1>15. CASE StoreTree(t)
  BY <1>15, <1>0, <1>a, Zenon DEF StoreTree, Shuffles, HeldBy, Scanning,
     Goto, Runs, FreePoints, TypeOK, hdrVars, connVars, storeVars, wrVars,
     runVars
<1>16. CASE StoreXid(t)
  BY <1>16, <1>0, <1>a, Zenon DEF StoreXid, Shuffles, HeldBy, Scanning,
     Goto, Runs, FreePoints, TypeOK, hdrVars, connVars, storeVars, wrVars,
     runVars
<1>17. CASE FlushActive(t)
  BY <1>17, <1>0, <1>a, Zenon DEF FlushActive, Shuffles, HeldBy, Scanning,
     Goto, Runs, FreePoints, TypeOK, hdrVars, connVars, storeVars, wrVars,
     runVars
<1>18. CASE StorePending(t)
  <2>1. PICK keep \in SUBSET pg[t] :
          /\ pend' = [pend EXCEPT ![Slot(t)] = keep]
          /\ pg' = [pg EXCEPT ![t] = keep]
          /\ hand' = [hand EXCEPT ![t] = pg[t] \ keep]
    BY <1>18, Zenon DEF StorePending
  <2>2. /\ pc[t] = "pending" /\ pc'[t] = "unlock" /\ gcpage' = gcpage
        /\ free' = free /\ gate' = gate /\ active' = active
        /\ gc' = gc /\ xid' = xid
    BY <1>18, Zenon DEF StorePending, Goto, Runs, TypeOK, hdrVars, storeVars, runVars
  <2>3. ASSUME NEW p \in Page, HeldBy(t, p)' PROVE HeldBy(t, p)
    BY <1>0, <2>1, <2>2, <2>3, Zenon DEF HeldBy, TypeOK
  <2> QED
    BY <1>a, <2>2, <2>3, Zenon DEF Shuffles, Scanning, FreePoints
<1>19. ASSUME NEW d \in DB, NEW p \in Page, NewNode(t, d, p) PROVE Shuffles(t)
  BY <1>19, <1>0, <1>a, Zenon DEF NewNode, Shuffles, HeldBy, Scanning, Goto,
     Runs, FreePoints, TypeOK, hdrVars, connVars, storeVars, wrVars, runVars
<1>20. ASSUME NEW d \in DB, NEW n \in Page, WriteInPlace(t, d, n) PROVE Shuffles(t)
  BY <1>20, <1>0, <1>a, Zenon DEF WriteInPlace, Shuffles, HeldBy, Scanning,
     Goto, Runs, FreePoints, TypeOK, hdrVars, connVars, storeVars, wrVars,
     runVars
<1>21. ASSUME NEW r \in BOOLEAN, CloseLocked(t, r) PROVE Shuffles(t)
  BY <1>21, <1>0, <1>a, Zenon DEF CloseLocked, Forget, Closable, HasLock,
     Shuffles, HeldBy, Scanning, Goto, Runs, FreePoints, TypeOK, hdrVars,
     connVars, storeVars, wrVars, runVars
<1>22. ASSUME NEW r \in BOOLEAN, CloseUnlocked(t, r) PROVE Shuffles(t)
  BY <1>22, <1>0, <1>a, Zenon DEF CloseUnlocked, Forget, Closable, HasLock,
     Shuffles, HeldBy, Scanning, Goto, Runs, FreePoints, TypeOK, hdrVars,
     connVars, storeVars, wrVars, runVars
<1> QED
  BY <1>1, <1>2, <1>3, <1>4, <1>5, <1>6, <1>7, <1>8, <1>9, <1>10, <1>11,
     <1>12, <1>13, <1>14, <1>15, <1>16, <1>17, <1>18, <1>19, <1>20, <1>21,
     <1>22, Zenon DEF MovesPages, Close

(* What a step of t has to do for a page that is kept. *)
KeptBy(t, s, x, p) ==
  /\ ~HeldBy(t, p)'
  /\ p \in gc'[t] => xid'[t] > x
  /\ p \in free' => gate'[p] > x
  /\ p \in free' /\ Scanning(t)' => s \in todo'[t] \/ gate'[p] >= xmin'[t]
  /\ \/ p \notin free' \/ Writing(t)
     \/ p \in free /\ gate'[p] = gate[p]

LEMMA KeptFrame ==
  ASSUME LockInv, ScanPoints, NEW t \in Txns, Apart(t),
         NEW s, NEW x, NEW p, Kept(s, x, p), KeptBy(t, s, x, p)
  PROVE  Kept(s, x, p)'
<1>1. p \notin active' /\ \A c \in Conn : p \notin pend'[c]
  BY Zenon DEF KeptBy, HeldBy
<1>2. ASSUME NEW u \in Txns PROVE p \notin pg'[u] /\ p \notin hand'[u]
  BY Zenon DEF KeptBy, HeldBy, Kept, Apart
<1>3. p \in free' => gate'[p] > x
  BY Zenon DEF KeptBy
<1>4. ASSUME NEW u \in Txns, p \in gc'[u] PROVE xid'[u] > x
  BY <1>4, Zenon DEF KeptBy, Kept, Apart
<1>5. ASSUME NEW u \in Txns, p \in free', Scanning(u)'
      PROVE  s \in todo'[u] \/ gate'[p] >= xmin'[u]
  <2>1. CASE u = t
    BY <1>5, <2>1, Zenon DEF KeptBy
  <2>2. CASE u # t
    <3>1. Scanning(u) /\ todo'[u] = todo[u] /\ xmin'[u] = xmin[u]
      BY <1>5, <2>2, Zenon DEF Apart, Scanning
    <3>2. Writing(u)
      BY <3>1, Zenon DEF Scanning, ScanPoints, FreePoints, Writing, Locked
    <3>3. p \in free /\ gate'[p] = gate[p]
      BY <1>5, <2>2, <3>2, WriterAlone, Zenon DEF KeptBy
    <3> QED
      BY <3>1, <3>3, Zenon DEF Kept
  <2> QED
    BY <2>1, <2>2, Zenon
<1> QED
  BY <1>1, <1>2, <1>3, <1>4, <1>5, Zenon DEF Kept

LEMMA ShuffledKept ==
  ASSUME NEW t \in Txns, Shuffles(t), NEW s, NEW x, NEW p \in Page, Kept(s, x, p)
  PROVE  KeptBy(t, s, x, p)
<1>1. ~HeldBy(t, p)
  BY Zenon DEF Kept, HeldBy
<1> QED
  BY <1>1, Zenon DEF Shuffles, Kept, KeptBy

(* The pages a transaction frees are its own, or were replaced after every id
   in a slot. *)
LEMMA FreeKept ==
  ASSUME Sound, ScanPoints, NEW t \in Txns,
         FreeActive(t) \/ SetActive(t) \/ Unlock(t) \/ Discard(t),
         NEW s, NEW x \in Nat, NEW p \in Page, Kept(s, x, p)
  PROVE  KeptBy(t, s, x, p)
<1> TypeOK
  BY Zenon DEF Sound
<1>0. ~HeldBy(t, p) /\ p \notin hand[t] /\ p \notin pg[t]
  BY Zenon DEF Kept, HeldBy
<1>1. ASSUME GiveBack(hand[t], 0) PROVE p \in free' => p \in free /\ gate'[p] = gate[p]
  <2>1. hand[t] \in SUBSET Page /\ 0 \in Nat
    BY Zenon DEF TypeOK
  <2>2. /\ free' \in {free, free \cup hand[t]}
        /\ \A r \in free \ hand[t] : gate'[r] = gate[r]
    BY <1>1, <2>1, GiveBackFacts, Zenon
  <2> QED
    BY <1>0, <2>2, Zenon
<1>2. CASE FreeActive(t)
  <2>1. GiveBack(hand[t], 0)
    BY <1>2, Zenon DEF FreeActive, GiveBack
  <2>2. ~HeldBy(t, p)' /\ ~Scanning(t)' /\ gc' = gc /\ xid' = xid /\ Writing(t)
    BY <1>0, <1>2, Zenon DEF FreeActive, GcReady, Goto, Runs, HeldBy, Scanning, TypeOK,
       Writing, Locked, hdrVars, connVars
  <2> QED
    BY <1>1, <2>1, <2>2, Zenon DEF KeptBy, Kept
<1>3. CASE SetActive(t)
  <2>1. GiveBack(hand[t], 0)
    BY <1>3, Zenon DEF SetActive
  <2>2. ~HeldBy(t, p)' /\ ~Scanning(t)' /\ gc' = gc /\ xid' = xid /\ Writing(t)
    BY <1>0, <1>3, Zenon DEF SetActive, GcReady, Goto, Runs, HeldBy, Scanning, TypeOK,
       Writing, Locked, connVars
  <2> QED
    BY <1>1, <2>1, <2>2, Zenon DEF KeptBy, Kept
<1>4. CASE Unlock(t)
  <2>1. GiveBack(hand[t], 0)
    BY <1>4, Zenon DEF Unlock
  <2>2. ~HeldBy(t, p)' /\ ~Scanning(t)' /\ gc' = gc /\ xid' = xid /\ Writing(t)
    BY <1>0, <1>4, Zenon DEF Unlock, GcReady, Goto, Runs, HeldBy, Scanning, TypeOK,
       Writing, Locked, connVars
  <2> QED
    BY <1>1, <2>1, <2>2, Zenon DEF KeptBy, Kept
<1>5. CASE Discard(t)
  <2>1. GiveBack(gc[t], xid[t]) /\ gc[t] \in SUBSET Page /\ xid[t] \in Nat
    BY <1>5, Zenon DEF Discard, TypeOK
  <2>2. ~HeldBy(t, p)' /\ ~Scanning(t)' /\ gc'[t] = {} /\ Writing(t)
    BY <1>0, <1>5, Zenon DEF Discard, GcReady, Goto, Runs, HeldBy, Scanning, TypeOK,
       Writing, Locked, hdrVars, connVars
  <2>3. /\ free' \in {free, free \cup gc[t]} /\ PageStoreTypeOK'
        /\ p \in free' \ free => gate'[p] >= xid[t]
        /\ p \in free \ gc[t] => gate'[p] = gate[p]
    BY <2>1, GiveBackFacts, Zenon
  <2>4. p \in free => p \notin gc[t]
    <3>1. pc[t] = "discard" /\ Good(t)
      BY <1>5, Zenon DEF Discard, Runs, Sound, PageInv
    <3> QED
      BY <3>1, Zenon DEF Good, Edits, Locked, Disjoint
  <2>5. ASSUME p \in free' PROVE gate'[p] > x
    <3>1. CASE p \in free
      BY <2>3, <2>4, <3>1, Zenon DEF Kept
    <3>2. CASE p \notin free
      <4>1. xid[t] > x /\ gate'[p] >= xid[t] /\ gate'[p] \in Nat
        BY <2>3, <2>5, <3>2, Zenon DEF Kept, PageStoreTypeOK
      <4> QED
        BY <2>1, <4>1
    <3> QED
      BY <3>1, <3>2, Zenon
  <2> QED
    BY <2>2, <2>5, Zenon DEF KeptBy
<1> QED
  BY <1>2, <1>3, <1>4, <1>5, Zenon

(* ed_idx_xmin does not miss the slot. *)
LEMMA ScanKept ==
  ASSUME TypeOK, LockInv, ScanPoints, NEW t \in Txns,
         XminBegin(t) \/ GcBegin(t) \/ \E c \in Conn : XminSlot(t, c),
         NEW s, NEW x, Guard(s, x), NEW p \in Page, Kept(s, x, p)
  PROVE  KeptBy(t, s, x, p)
<1>0. ~HeldBy(t, p) /\ s \in Conn
  BY Zenon DEF Kept, HeldBy, Guard
<1>1. CASE XminBegin(t)
  <2>1. /\ ~HeldBy(t, p)' /\ gc' = gc /\ xid' = xid /\ free' = free /\ gate' = gate
        /\ todo'[t] = Conn
    BY <1>0, <1>1, Zenon DEF XminBegin, HeldBy, TypeOK, hdrVars, connVars, wrVars, storeVars
  <2> QED
    BY <1>0, <2>1, Zenon DEF KeptBy, Kept
<1>2. CASE GcBegin(t)
  <2>1. /\ ~HeldBy(t, p)' /\ gc' = gc /\ xid' = xid /\ free' = free /\ gate' = gate
        /\ todo'[t] = Conn
    BY <1>0, <1>2, Zenon DEF GcBegin, HeldBy, TypeOK, hdrVars, connVars, wrVars, storeVars
  <2> QED
    BY <1>0, <2>1, Zenon DEF KeptBy, Kept
<1>3. ASSUME NEW c \in Conn, XminSlot(t, c) PROVE KeptBy(t, s, x, p)
  <2>1. /\ gc' = gc /\ xid' = xid /\ free' = free /\ gate' = gate
        /\ active' = active /\ pg' = pg /\ hand' = hand
        /\ todo'[t] = todo[t] \ {c} /\ pc' = pc /\ gcpage' = gcpage
    BY <1>3, Zenon DEF XminSlot, TypeOK, hdrVars, wrVars, storeVars
  <2>2. pend' = [pend EXCEPT ![c] = {}] \/ pend' = pend
    BY <1>3, Zenon DEF XminSlot
  <2>3. ~HeldBy(t, p)'
    BY <1>0, <2>1, <2>2, Zenon DEF HeldBy, TypeOK
  <2>4. ASSUME p \in free, Scanning(t)
        PROVE  s \in todo'[t] \/ gate[p] >= xmin'[t]
    <3>0. /\ xmin[t] \in Int /\ cxid[c] \in Nat /\ gate[p] \in Nat
          /\ gate[p] > x /\ (s \in todo[t] \/ gate[p] >= xmin[t])
      BY <2>4, Zenon DEF TypeOK, PageStoreTypeOK, Kept
    <3>1. xmin'[t] = xmin[t] \/ (InUse(c) /\ xmin'[t] = IF cxid[c] < xmin[t] THEN cxid[c] ELSE xmin[t])
      BY <1>3, Zenon DEF XminSlot, TypeOK
    <3>2. CASE c # s
      <4>1. s \in todo[t] => s \in todo'[t]
        BY <2>1, <3>2, Zenon
      <4>2. gate[p] >= xmin[t] => gate[p] >= xmin'[t]
        BY <3>0, <3>1
      <4> QED
        BY <3>0, <4>1, <4>2, Zenon
    <3>3. CASE c = s
      <4>1. InUse(c) /\ ~Unlocked(c) /\ cxid[c] = x
        BY <3>3, Zenon DEF Guard, InUse
      <4>2. xmin'[t] = IF cxid[c] < xmin[t] THEN cxid[c] ELSE xmin[t]
        BY <1>3, <4>1, Zenon DEF XminSlot, TypeOK
      <4> QED
        BY <3>0, <4>1, <4>2
    <3> QED
      BY <3>2, <3>3, Zenon
  <2> QED
    BY <2>1, <2>3, <2>4, Zenon DEF KeptBy, Kept, Scanning
<1> QED
  BY <1>1, <1>2, <1>3, Zenon

(* ed_alloc does not hand the page out: with the slots scanned, its gate is not
   below the minimum. *)
LEMMA TakeKept ==
  ASSUME TypeOK, LockInv, ScanPoints, NEW t \in Txns, Take(t) \/ GcTake(t),
         NEW s, NEW x, Guard(s, x), NEW p \in Page, Kept(s, x, p)
  PROVE  KeptBy(t, s, x, p)
<1>0. ~HeldBy(t, p) /\ x \in Nat
  BY Zenon DEF Kept, HeldBy, Guard
<1>1. Writing(t) /\ Scanning(t) /\ todo[t] = {}
  BY Zenon DEF Take, GcTake, Scans, Runs, Scanning, FreePoints, Writing, Locked
<1>2. p \in free => gate[p] > x /\ gate[p] >= xmin[t]
  BY <1>1, Zenon DEF Kept
<1>3. p \in free => ~Reusable(p, xmin[t])
  <2>1. gate[p] \in Nat /\ xmin[t] \in Int
    BY Zenon DEF TypeOK, PageStoreTypeOK
  <2> QED
    BY <1>0, <1>2, <2>1 DEF Reusable
<1>4. ASSUME Take(t) PROVE KeptBy(t, s, x, p)
  <2>1. PICK S \in SUBSET free :
          TakePages(S, xmin[t]) /\ hand' = [hand EXCEPT ![t] = S]
    BY <1>4, Zenon DEF Take
  <2>2. p \notin S
    BY <1>3, <2>1, Zenon DEF TakePages
  <2>3. free' = free \ S /\ gate'[p] = gate[p]
    BY <2>1, <2>2, Zenon DEF TakePages
  <2>4. /\ gc' = gc /\ xid' = xid /\ active' = active /\ pg' = pg /\ pend' = pend
        /\ pc'[t] = "record" /\ pc[t] = "alloc" /\ gcpage' = gcpage
    BY <1>4, Zenon DEF Take, Goto, Runs, hdrVars, connVars, TypeOK
  <2>5. ~Scanning(t)'
    BY <2>4, Zenon DEF Scanning, ScanPoints, FreePoints
  <2>6. ~HeldBy(t, p)'
    BY <1>0, <2>1, <2>2, <2>4, Zenon DEF HeldBy, TypeOK
  <2> QED
    BY <2>3, <2>4, <2>5, <2>6, Zenon DEF KeptBy, Kept
<1>5. ASSUME GcTake(t) PROVE KeptBy(t, s, x, p)
  <2>1. PICK S \in SUBSET free : RecyclePages(S, xmin[t])
    BY <1>5, Zenon DEF GcTake
  <2>2. p \in free => p \notin S
    BY <1>3, <2>1, Zenon DEF RecyclePages
  <2>3. free' = free /\ (p \in free => gate'[p] = gate[p])
    BY <2>1, <2>2, Zenon DEF RecyclePages
  <2>4. /\ gc' = gc /\ xid' = xid /\ active' = active /\ pg' = pg /\ pend' = pend
        /\ hand' = hand /\ pc' = pc /\ gcpage'[t] = "done"
    BY <1>5, Zenon DEF GcTake, hdrVars, connVars, wrVars, TypeOK
  <2>5. pc[t] # "alloc"
    BY <1>5, Zenon DEF GcTake, Scans, Runs, FreePoints
  <2>6. ~Scanning(t)' /\ ~HeldBy(t, p)'
    BY <1>0, <2>4, <2>5, Zenon DEF Scanning, HeldBy
  <2> QED
    BY <2>3, <2>4, <2>6, Zenon DEF KeptBy, Kept
<1> QED
  BY <1>4, <1>5, Zenon

(* A page replaced by a writer is queued under an id newer than any slot's. *)
LEMMA CloneKept ==
  ASSUME TypeOK, LockInv, XidInv, NEW t \in Txns,
         NEW d \in DB, NEW n \in Page, NEW r \in Page, Clone(t, d, n, r),
         NEW s, NEW x, Guard(s, x), NEW p \in Page, Kept(s, x, p)
  PROVE  KeptBy(t, s, x, p)
<1>0. ~HeldBy(t, p) /\ x \in Nat /\ x <= hxid /\ hxid \in Nat
  BY Zenon DEF Kept, HeldBy, Guard, TypeOK
<1>1. /\ pc[t] = "write" /\ UNCHANGED <<free, gate, active, pend, pg, hand, xid, pc, gcpage>>
  BY Zenon DEF Clone, Runs, hdrVars, connVars, storeVars, runVars
<1>2. xid[t] > x
  <2>1. xid[t] = hxid + 1
    BY <1>1, Zenon DEF XidInv, Numbered
  <2> QED
    BY <1>0, <2>1
<1>3. ~Scanning(t)' /\ ~HeldBy(t, p)'
  BY <1>0, <1>1, Zenon DEF Scanning, HeldBy, XidInv, ScanPoints, FreePoints
<1> QED
  BY <1>1, <1>2, <1>3, Zenon DEF KeptBy, Kept

LEMMA KeptStep ==
  ASSUME Sound, XidInv, NEW t \in Txns, TxnStep(t),
         NEW s, NEW x, Guard(s, x), NEW p \in Page, Kept(s, x, p)
  PROVE  Kept(s, x, p)'
<1>1. TypeOK /\ LockInv /\ PageInv /\ ScanPoints /\ x \in Nat
  BY Zenon DEF Sound, XidInv, Guard
<1>2. Apart(t)
  BY <1>1, StepApart, Zenon
<1>3. SUFFICES KeptBy(t, s, x, p)
  BY <1>1, <1>2, KeptFrame, Zenon
<1>4. CASE MovesPages(t)
  <2>1. gc[t] = {} \/ pc[t] # "load1"
    BY <1>1, Zenon DEF PageInv, Good, Settled, Editing
  <2>2. Shuffles(t)
    BY <1>1, <1>4, <2>1, StepShuffles, Zenon
  <2> QED
    BY <2>2, ShuffledKept, Zenon
<1>5. CASE FreeActive(t) \/ SetActive(t) \/ Unlock(t) \/ Discard(t)
  BY <1>1, <1>5, FreeKept, Zenon
<1>6. CASE XminBegin(t) \/ GcBegin(t) \/ \E c \in Conn : XminSlot(t, c)
  BY <1>1, <1>6, ScanKept, Zenon
<1>7. CASE Take(t) \/ GcTake(t)
  BY <1>1, <1>7, TakeKept, Zenon
<1>8. CASE \E d \in DB, n, r \in Page : Clone(t, d, n, r)
  BY <1>1, <1>8, CloneKept, Zenon
<1> QED
  BY <1>4, <1>5, <1>6, <1>7, <1>8, Zenon DEF TxnStep, Progress, Work, MovesPages

-----------------------------------------------------------------------------
(* Every reader's pages are kept.                                          *)

LEMMA ReaderGuard ==
  ASSUME TypeOK, LockInv, XidInv, NEW u \in Txns, Reading(u)
  PROVE  Guard(Slot(u), cxid[Slot(u)])
<1>1. pc[u] # "none"
  BY Zenon DEF Reading
<1>2. Slot(u) \in Conn /\ clock[Slot(u)] = Owner[u] /\ Owner[u] \in Proc
  BY <1>1, SlotInConn, Zenon
<1>3. ~Unlocked(Slot(u)) /\ Slot(u) # NoConn
  BY <1>2, TxnAssumption, Zenon DEF Unlocked
<1>4. cpid[Slot(u)]
  BY <1>2, <1>3, Zenon DEF XidInv, Slot
<1>5. cxid[Slot(u)] \in Nat /\ cxid[Slot(u)] >= 1 /\ cxid[Slot(u)] <= hxid
  BY <1>2, Zenon DEF XidInv, TypeOK
<1>6. cxid[Slot(u)] \in Nat \ {0}
  BY <1>5
<1> QED
  BY <1>2, <1>3, <1>4, <1>5, <1>6, Zenon DEF Guard

LEMMA TxnReadStep ==
  ASSUME Sound, XidInv, ReadInv, Solo, NEW t \in Txns, TxnStep(t)
  PROVE  ReadInv'
<1>0. TypeOK /\ LockInv /\ PageInv /\ ScanPoints
  BY Zenon DEF Sound, XidInv
<1>1. Apart(t) /\ Counts(t) /\ Loading(t)
  BY <1>0, StepApart, StepCounts, StepLoading, Zenon
<1> SUFFICES ASSUME NEW u \in Txns, Reading(u)', NEW p \in Pages(view'[u])
             PROVE  Kept(Slot(u), cxid[Slot(u)], p)'
  BY Zenon DEF ReadInv, Pages
<1>2. Slot(u)' = Slot(u)
  BY <1>1, Zenon DEF Counts, Slot
<1>3. ASSUME Reading(u), cxid'[Slot(u)] = cxid[Slot(u)], p \in Pages(view[u]) \cup Pages(tree)
      PROVE  Kept(Slot(u), cxid[Slot(u)], p)'
  <2>1. Guard(Slot(u), cxid[Slot(u)])
    BY <1>0, <1>3, ReaderGuard, Zenon
  <2>2. p \in Page
    BY <1>0, <1>3 DEF TypeOK, Pages, DB
  <2>3. Kept(Slot(u), cxid[Slot(u)], p)
    BY <1>3, <2>1, TreeKept, Zenon DEF ReadInv
  <2>4. PICK s, x : s = Slot(u) /\ x = cxid[Slot(u)]
    BY Zenon
  <2>5. Guard(s, x) /\ Kept(s, x, p)
    BY <2>1, <2>3, <2>4, Zenon
  <2>6. Kept(s, x, p)'
    BY <2>2, <2>5, KeptStep, Zenon
  <2>7. Slot(u)' = s /\ cxid'[Slot(u)'] = x
    BY <1>2, <1>3, <2>4, Zenon
  <2> QED
    BY <2>6, <2>7, Zenon DEF Kept
<1>4. CASE u = t
  <2>1. ASSUME pc[t] = "setxid", view'[t] = view[t] PROVE FALSE
    <3>1. view[t] = NoView
      BY <1>0, <2>1, Zenon DEF PageInv, Good, Loads
    <3> QED
      BY <1>4, <2>1, <3>1, Zenon DEF Pages, NoView, DB
  <2> QED
    BY <1>1, <1>3, <1>4, <2>1, Zenon DEF Loading
<1>5. CASE u # t
  <2>1. Reading(u) /\ view'[u] = view[u] /\ pc[u] # "none"
    BY <1>1, <1>5, Zenon DEF Apart, Reading
  <2>2. Slot(u) \in Conn /\ ~Unlocked(Slot(u))
    BY <1>0, <2>1, ReaderGuard, Zenon DEF Guard
  <2>3. Slot(u) # Slot(t)
    BY <1>0, <1>5, <2>1, OwnSlot, Zenon
  <2>4. cxid'[Slot(u)] = cxid[Slot(u)]
    BY <1>1, <2>2, <2>3, Zenon DEF Counts
  <2> QED
    BY <1>3, <2>1, <2>4, Zenon
<1> QED
  BY <1>4, <1>5, Zenon

(* What the steps of a process, and steps of others, do to the pages. *)
Calm ==
  /\ UNCHANGED <<active, pend, free, gate>>
  /\ \A u \in Txns :
       \/ pg'[u] = {} /\ hand'[u] = {} /\ gc'[u] = {} /\ ~Scanning(u)'
       \/ /\ pg'[u] = pg[u] /\ hand'[u] = hand[u] /\ gc'[u] = gc[u] /\ xid'[u] = xid[u]
          /\ xmin'[u] = xmin[u] /\ todo'[u] = todo[u] /\ (Scanning(u)' => Scanning(u))

LEMMA CalmRead ==
  ASSUME ReadInv, Calm, Leaves
  PROVE  ReadInv'
<1> SUFFICES ASSUME NEW u \in Txns, Reading(u)', NEW p \in Pages(view'[u])
             PROVE  Kept(Slot(u), cxid[Slot(u)], p)'
  BY Zenon DEF ReadInv, Pages
<1>1. /\ Reading(u) /\ Slot(u)' = Slot(u) /\ view'[u] = view[u]
      /\ cxid'[Slot(u)] = cxid[Slot(u)]
  BY Zenon DEF Leaves
<1>2. PICK s, x : s = Slot(u) /\ x = cxid[Slot(u)]
  BY Zenon
<1>3. Kept(s, x, p) /\ Slot(u)' = s /\ cxid'[Slot(u)'] = x
  BY <1>1, <1>2, Zenon DEF ReadInv
<1>4. Kept(s, x, p)'
  <2>1. /\ p \notin active' /\ (\A c \in Conn : p \notin pend'[c])
        /\ (p \in free' => p \in free /\ gate'[p] = gate[p] /\ gate'[p] > x)
    BY <1>3, Zenon DEF Calm, Kept
  <2>2. ASSUME NEW v \in Txns
        PROVE  p \notin pg'[v] /\ p \notin hand'[v] /\ (p \in gc'[v] => xid'[v] > x)
    BY <1>3, Zenon DEF Calm, Kept
  <2>3. ASSUME NEW v \in Txns, p \in free', Scanning(v)'
        PROVE  s \in todo'[v] \/ gate'[p] >= xmin'[v]
    <3>1. Scanning(v) /\ todo'[v] = todo[v] /\ xmin'[v] = xmin[v]
      BY <2>3, Zenon DEF Calm
    <3> QED
      BY <1>3, <2>1, <2>3, <3>1, Zenon DEF Kept
  <2> QED
    BY <2>1, <2>2, <2>3, Zenon DEF Kept
<1> QED
  BY <1>3, <1>4, Zenon DEF Kept

LEMMA ProcReadStep ==
  ASSUME Sound, ReadInv, Solo, NEW q \in Proc, ProcStep(q)
  PROVE  ReadInv'
<1>0. TypeOK /\ LockInv /\ PageInv
  BY Zenon DEF Sound
<1>1. Leaves
  BY <1>0, ProcLeaves, Zenon
<1>2. CASE (\E c \in Conn : IdxOpen(q, c)) \/ IdxClose(q)
  <2>1. /\ UNCHANGED <<active, pend, free, gate, pg, hand, gc, xid>>
        /\ UNCHANGED <<xmin, todo, pc, gcpage>>
    BY <1>2, Zenon DEF IdxOpen, IdxClose, hdrVars, storeVars, wrVars, runVars
  <2>2. Calm
    BY <2>1, Zenon DEF Calm, Scanning
  <2> QED
    BY <1>1, <2>2, CalmRead, Zenon
<1>3. CASE Stat(q) \/ Repair(q)
  <2>1. PICK p : p \in leaks[q]
    BY <1>3, Zenon DEF Stat, Repair, Solo
  <2>2. p \in Page
    BY <1>0, <2>1, Zenon DEF TypeOK
  <2> QED
    BY <1>0, <2>1, <2>2, Zenon DEF PageInv, LeakInv, Solo
<1>4. CASE Crash(q)
  <2>1. UNCHANGED <<active, pend, free, gate>>
    BY <1>4, Zenon DEF Crash, storeVars
  <2>2. ASSUME NEW u \in Txns, Owner[u] = q
        PROVE  pg'[u] = {} /\ hand'[u] = {} /\ gc'[u] = {} /\ ~Scanning(u)'
    BY <1>4, <2>2, Zenon DEF Crash, Scanning
  <2>3. ASSUME NEW u \in Txns, Owner[u] # q
        PROVE  /\ pg'[u] = pg[u] /\ hand'[u] = hand[u] /\ gc'[u] = gc[u] /\ xid'[u] = xid[u]
               /\ xmin'[u] = xmin[u] /\ todo'[u] = todo[u] /\ (Scanning(u)' => Scanning(u))
    BY <1>4, <2>3, Zenon DEF Crash, Scanning
  <2>4. Calm
    BY <2>1, <2>2, <2>3, Zenon DEF Calm
  <2> QED
    BY <1>1, <2>4, CalmRead, Zenon
<1> QED
  BY <1>2, <1>3, <1>4, Zenon DEF ProcStep

-----------------------------------------------------------------------------
(* The pages a writer sees are committed or its own. *)
LEMMA WriterView ==
  ASSUME Sound, NEW t \in Txns, pc[t] # "none", ~ro[t] \/ pc[t] \in Locked,
         NEW p \in Pages(view[t])
  PROVE  \/ p \in Pages(tree)
         \/ t \in Writers /\ p \in used[t] /\ pc[t] \in Editing
         \/ pc[t] = "tree" /\ p \notin free /\ \A c \in Conn : p \notin pend[c]
<1> TypeOK /\ LockInv /\ PageInv
  BY Zenon DEF Sound
<1>1. Good(t) /\ (pc[t] \in Locked => Edits(t) /\ Writing(t)) /\ Loads(t)
  BY Zenon DEF PageInv, Good, Writing
<1>2. view[t] # NoView
  BY Zenon DEF Pages, NoView, DB
<1>3. CASE pc[t] = "load1" /\ ~ro[t]
  BY <1>1, <1>3, Zenon DEF Loads, Pages
<1>4. CASE pc[t] \in {"recover", "freeactive", "takepending", "setactive", "xid",
                      "discard", "closing"}
  BY <1>1, <1>4, Zenon DEF Edits, Locked
<1>5. CASE pc[t] \in Editing
  <2>1. pc[t] \in Locked
    BY <1>5, Zenon DEF Editing, Locked
  <2>2. t \in Writers /\ Pages(view[t]) \subseteq Pages(tree) \cup used[t]
    BY <1>1, <1>5, <2>1, Zenon DEF LockInv, WriteInv, Edits
  <2> QED
    BY <1>5, <2>2, Zenon
<1>6. CASE pc[t] = "tree"
  BY <1>1, <1>6, Zenon DEF Edits, Locked, Disjoint
<1>7. pc[t] \notin {"none", "closed", "getxid", "setxid", "load0", "flush", "pending",
                    "unlock"}
  BY <1>1, <1>2, Zenon DEF Loads
<1>8. pc[t] # "open"
  BY Zenon DEF LockInv, ModeInv, Locked
<1>9. pc[t] \in Points
  BY Zenon DEF TypeOK
<1> QED
  BY <1>3, <1>4, <1>5, <1>6, <1>7, <1>8, <1>9, Zenon DEF Points, Editing, Locked

LEMMA WriterKept ==
  ASSUME Sound, NEW t \in Txns, pc[t] # "none", ~ro[t] \/ pc[t] \in Locked,
         NEW p \in Pages(view[t])
  PROVE  p \notin free /\ \A u \in Txns \ {t} : p \notin pg[u] /\ p \notin hand[u]
<1> TypeOK /\ LockInv /\ PageInv
  BY Zenon DEF Sound
<1>1. CASE p \in Pages(tree)
  <2>1. p \notin free /\ \A c \in Conn : p \notin pend[c]
    BY <1>1, Zenon DEF PageInv, OneOwner, Disjoint
  <2> QED
    BY <1>1, <2>1, TreeApart, Zenon
<1>2. ASSUME pc[t] \in Locked, p \notin free,
             \A c \in Conn \ {Slot(t)} : p \notin pend[c]
      PROVE  \A u \in Txns \ {t} : p \notin pg[u] /\ p \notin hand[u]
  <2> SUFFICES ASSUME NEW u \in Txns \ {t} PROVE p \notin pg[u] /\ p \notin hand[u]
    BY Zenon
  <2>1. pc[u] \notin Locked /\ Settled(u) /\ t \in Writers
    BY <1>2, OtherIdle, Zenon DEF PageInv, Good, LockInv, WriteInv, Writing
  <2>2. hand[u] = {} /\ (pg[u] = {} \/ pg[u] \subseteq pend[Slot(u)])
    BY <2>1, Zenon DEF Settled, Locked, Out
  <2>3. pg[u] # {} => Slot(u) \in Conn \ {Slot(t)}
    BY <2>1, PendFrame, Zenon
  <2> QED
    BY <1>2, <2>2, <2>3, Zenon
<1>3. CASE p \in used[t] /\ pc[t] \in Editing
  <2>1. pc[t] \in Locked /\ pc[t] \in Out
    BY <1>3, Zenon DEF Editing, Locked, Out
  <2>2. Holds(t) /\ Edits(t)
    BY <2>1, Zenon DEF PageInv, Good
  <2>3. p \in pg[t]
    BY <1>3, <2>2, Zenon DEF Edits
  <2>4. p \notin free /\ \A c \in Conn \ {Slot(t)} : p \notin pend[c]
    BY <2>1, <2>2, <2>3, Zenon DEF Holds, Disjoint
  <2> QED
    BY <1>2, <2>1, <2>4, Zenon
<1>4. CASE pc[t] = "tree" /\ p \notin free /\ \A c \in Conn : p \notin pend[c]
  <2>1. pc[t] \in Locked
    BY <1>4, Zenon DEF Locked
  <2> QED
    BY <1>2, <1>4, <2>1, Zenon
<1> QED
  BY <1>1, <1>3, <1>4, WriterView, Zenon

-----------------------------------------------------------------------------
(* The inductive invariant. *)
SnapInv == Sound /\ XidInv /\ ReadInv

LEMMA SnapInit == Init => SnapInv
<1> SUFFICES ASSUME Init PROVE SnapInv
  BY Zenon
<1>1. /\ hxid = 1 /\ \A c \in Conn : cxid[c] = 0
      /\ \A q \in Proc : conn[q] = NoConn
  BY Zenon DEF Init
<1>2. \A t \in Txns : pc[t] = "none" /\ lx[t] = 0 /\ gcpage[t] = "no"
  BY Zenon DEF Init
<1>3. \A t \in Txns : ~Reading(t) /\ pc[t] \notin Numbered
  BY <1>2, Zenon DEF Reading, Numbered
<1>4. hxid >= 1 /\ \A c \in Conn : cxid[c] <= hxid
  BY <1>1
<1>5. \A t \in Txns : lx[t] <= hxid /\ pc[t] # "setxid"
  BY <1>1, <1>2
<1>6. XidInv
  BY <1>1, <1>2, <1>3, <1>4, <1>5, Zenon DEF XidInv, ScanPoints
<1> QED
  BY <1>3, <1>6, SoundInit, Zenon DEF SnapInv, ReadInv

LEMMA SnapStep == Solo => (SnapInv /\ [Next]_vars => SnapInv')
<1> SUFFICES ASSUME Solo, SnapInv, [Next]_vars PROVE SnapInv'
  BY Zenon
<1>1. Sound /\ TypeOK /\ LockInv /\ XidInv /\ ReadInv
  BY Zenon DEF SnapInv, Sound
<1>2. Sound'
  BY <1>1, SoundStep, Zenon DEF Solo
<1>3. CASE Next
  <2>1. XidInv'
    BY <1>1, <1>3, TxnXidStep, ProcXidStep, Zenon DEF Next
  <2>2. ReadInv'
    BY <1>1, <1>3, TxnReadStep, ProcReadStep, Zenon DEF Next
  <2> QED
    BY <1>2, <2>1, <2>2, Zenon DEF SnapInv
<1>4. CASE UNCHANGED vars
  <2>1. /\ UNCHANGED <<active, pend, free, gate, pg, hand, gc, xid, xmin, todo, pc, gcpage>>
        /\ UNCHANGED <<hxid, cxid, cpid, conn, ro, lx, view>>
    BY <1>4, Zenon DEF vars, hdrVars, connVars, storeVars, procVars, wrVars, runVars
  <2>2. XidInv'
    BY <1>1, <2>1, Zenon DEF XidInv, ScanPoints, Reading, Slot
  <2>3. Calm /\ Leaves
    BY <2>1, Zenon DEF Calm, Leaves, Scanning, Reading, Slot
  <2>4. ReadInv'
    BY <1>1, <2>3, CalmRead, Zenon
  <2> QED
    BY <1>2, <2>2, <2>4, Zenon DEF SnapInv
<1> QED
  BY <1>3, <1>4, Zenon

LEMMA SnapKept == SnapInv => SnapshotPagesKept
<1> SUFFICES ASSUME SnapInv, NEW t \in Looking, NEW p \in Pages(view[t])
             PROVE  /\ \A u \in Txns \ {t} : p \notin pg[u] /\ p \notin hand[u]
                    /\ p \in free => gate[p] > cxid[Slot(t)]
  BY Zenon DEF SnapshotPagesKept, Disjoint
<1>1. t \in Txns /\ pc[t] \in Points /\ pc[t] # "none"
  BY Zenon DEF Looking
<1>2. CASE Reading(t)
  BY <1>1, <1>2, Zenon DEF SnapInv, ReadInv, Kept
<1>3. CASE ~ro[t] \/ pc[t] \in Locked
  BY <1>1, <1>3, WriterKept, Zenon DEF SnapInv
<1>4. CASE pc[t] \in {"closed", "getxid", "setxid"}
  <2>1. view[t] = NoView
    BY <1>1, <1>4, Zenon DEF SnapInv, Sound, PageInv, Good, Loads
  <2> QED
    BY <2>1, Zenon DEF Pages, NoView, DB
<1> QED
  BY <1>1, <1>2, <1>3, <1>4, Zenon DEF Points, Reading, Locked

(* A page of a snapshot is not handed out as long as a transaction looks at the
   snapshot, for any number of processes, slots and pages, any batches, gates
   and lengths of the lists, wherever the load of hdr->xid, its store into the
   slot, the loads of the two roots, the scans of ed_idx_xmin and the stores of
   ed_txn_commit fall, whatever calls fail and whoever is killed.  Assumed is
   that a process has one transaction object, as a second one shares the slot
   and its close resets the id in it, and that ed_idx_repair_leaks is not run,
   as it frees pages a snapshot may hold without a gate. *)
THEOREM SnapshotTheorem ==
  ASSUME Solo
  PROVE  Spec => []SnapshotPagesKept
<1>1. SnapInv /\ [Next]_vars => SnapInv'
  BY SnapStep, Zenon
<1> QED
  BY <1>1, SnapInit, SnapKept, PTL DEF Spec

=============================================================================
