----------------------------- MODULE TxnProofs ------------------------------
(***************************************************************************)
(* Proofs that Txn is type correct, that its locks are kept (one writer,   *)
(* one transaction per slot, and no step of a closed object), and that a   *)
(* page of the index always has one owner.                                 *)
(***************************************************************************)
EXTENDS Txn, TLAPS

(* Points at which a transaction holds the write lock. *)
Locked == {"recover", "freeactive", "takepending", "setactive", "write",
           "alloc", "record", "error", "tree", "xid", "discard", "closing",
           "flush", "pending", "unlock"}

(* Points of ed_idx_acquire_snapshot, for a reader or a writer. *)
Acquiring == {"getxid", "setxid", "load0", "load1"}

(* A transaction that must have the write lock. *)
Writing(t) == pc[t] \in Locked \/ (pc[t] \in Acquiring /\ ~ro[t])

(* Who holds what: slots belong to one process, the write lock to the one
   transaction that is writing. *)
ConnInv ==
  /\ \A q \in Proc : conn[q] # NoConn => clock[conn[q]] = q
  /\ \A t \in Txns : pc[t] # "none" => Slot(t) # NoConn

WriteInv == \A t \in Txns : Writing(t) => lock = Owner[t] /\ t \in Writers

OneThread ==
  \A t, u \in Txns :
    t # u /\ Owner[t] = Owner[u] /\ pc[t] \notin Idle => pc[u] \in Idle

ModeInv == \A t \in Txns : /\ pc[t] \in Locked \cup {"none", "closed"} => ~ro[t]
                           /\ pc[t] = "open" => ro[t]

(* Only a writer allocates pages. *)
PgInv == \A t \in Txns \ Writers : pg[t] = {}

LockInv == ConnInv /\ WriteInv /\ OneThread /\ ModeInv /\ PgInv

-----------------------------------------------------------------------------
(* The allocator actions, as the proofs use them.                          *)

LEMMA PutPagesFacts ==
  ASSUME PageStoreTypeOK, NEW S \in SUBSET Page, NEW x \in Nat, PutPages(S, x)
  PROVE  /\ PageStoreTypeOK'
         /\ free' = free \cup S
         /\ \A p \in S : gate'[p] >= x
         /\ \A p \in Page \ S : gate'[p] = gate[p]
<1>1. PICK g \in [S -> GatesFor(x)] :
        gate' = [p \in Page |-> IF p \in S THEN g[p] ELSE gate[p]]
  BY Zenon DEF PutPages
<1>2. \A y \in GatesFor(x) : y \in Nat /\ y >= x
  BY DEF GatesFor, PageStoreTypeOK
<1>3. \A p \in S : g[p] \in Nat /\ g[p] >= x
  BY <1>1, <1>2, Zenon
<1>4. free' = free \cup S
  BY Zenon DEF PutPages
<1> QED
  BY <1>1, <1>3, <1>4, Zenon DEF PageStoreTypeOK

LEMMA TakePagesFacts ==
  ASSUME PageStoreTypeOK, NEW S \in SUBSET Page, NEW x \in Nat, TakePages(S, x)
  PROVE  /\ PageStoreTypeOK'
         /\ S \subseteq free
         /\ free' = free \ S
         /\ \A p \in S : gate[p] = 0 \/ gate[p] < x
         /\ \A p \in Page \ S : gate'[p] = gate[p]
BY Zenon DEF PageStoreTypeOK, TakePages, Reusable

LEMMA GiveBackFacts ==
  ASSUME TypeOK, NEW S \in SUBSET Page, NEW x \in Nat, GiveBack(S, x)
  PROVE  /\ PageStoreTypeOK'
         /\ pxid' \in [Page -> Nat]
         /\ free' \in {free, free \cup S}
         /\ \A p \in Page : p \in free' \ free => gate'[p] >= x
         /\ \A p \in free \ S : gate'[p] = gate[p]
<1>0. PageStoreTypeOK
  BY Zenon DEF TypeOK
<1>1. CASE FreePages(S, x)
  <2>1. PutPages(S, x)
    BY <1>1, Zenon DEF FreePages
  <2>2. pxid' \in [Page -> Nat]
    BY <1>1, Zenon DEF FreePages, TypeOK
  <2> QED
    BY <1>0, <2>1, <2>2, PutPagesFacts, Zenon DEF PageStoreTypeOK
<1>2. CASE UNCHANGED <<storeVars, pxid>>
  BY <1>0, <1>2, Zenon DEF TypeOK, PageStoreTypeOK, storeVars
<1> QED
  BY <1>1, <1>2, Zenon DEF GiveBack

-----------------------------------------------------------------------------
LEMMA SlotInConn ==
  ASSUME TypeOK, LockInv, NEW t \in Txns, pc[t] # "none"
  PROVE  Slot(t) \in Conn /\ clock[Slot(t)] = Owner[t] /\ Owner[t] \in Proc
<1>1. Owner[t] \in Proc
  BY TxnAssumption, Zenon
<1>2. Slot(t) # NoConn
  BY Zenon DEF LockInv, ConnInv
<1>3. Slot(t) \in Conn
  BY <1>1, <1>2, Zenon DEF Slot, TypeOK
<1> QED
  BY <1>1, <1>2, <1>3, Zenon DEF Slot, LockInv, ConnInv

LEMMA WriterAlone ==
  ASSUME LockInv, NEW t \in Txns, NEW u \in Txns, Writing(t), Writing(u)
  PROVE  t = u
BY TxnAssumption, Zenon DEF LockInv, WriteInv

(* A step that keeps the types.  The name keeps the statements of the steps
   below short for the provers. *)
TypeKept == TypeOK'

(* Every variable keeps its type. *)
LEMMA TypeStep == TypeOK /\ LockInv /\ [Next]_vars => TypeOK'
<1> SUFFICES ASSUME TypeOK, LockInv, [Next]_vars PROVE TypeOK'
  OBVIOUS
<1>1. CASE Next
  <2>1. ASSUME NEW t \in Txns, TxnNew(t)
        PROVE  TypeKept
    <3> SUFFICES TypeOK'
      BY Zenon DEF TypeKept
    <3> QED
      BY <2>1, Zenon DEF TxnNew, TypeOK, PageStoreTypeOK, hdrVars, connVars, storeVars, procVars, wrVars, runVars, Goto, Slot, Points
  <2>2. ASSUME NEW t \in Txns, OpenRead(t)
        PROVE  TypeKept
    <3> SUFFICES TypeOK'
      BY Zenon DEF TypeKept
    <3> QED
      BY <2>2, Zenon DEF OpenRead, TypeOK, PageStoreTypeOK, hdrVars, connVars, storeVars, procVars, wrVars, Goto, Points
  <2>3. ASSUME NEW t \in Txns, OpenWrite(t)
        PROVE  TypeKept
    <3> SUFFICES TypeOK'
      BY Zenon DEF TypeKept
    <3> QED
      BY <2>3, TxnAssumption, Zenon DEF OpenWrite, EdLck, TypeOK, PageStoreTypeOK, connVars,
            storeVars, procVars, wrVars, Goto, Points
  <2>4. ASSUME NEW t \in Txns, GetXid(t)
        PROVE  TypeKept
    <3> SUFFICES TypeOK'
      BY Zenon DEF TypeKept
    <3> QED
      BY <2>4, Zenon DEF GetXid, TypeOK, PageStoreTypeOK, hdrVars, connVars, storeVars, procVars, wrVars, Goto, Points
  <2>5. ASSUME NEW t \in Txns, SetXid(t)
        PROVE  TypeKept
    <3> SUFFICES TypeOK'
      BY Zenon DEF TypeKept
    <3> QED
      BY <2>5, Zenon DEF SetXid, TypeOK, PageStoreTypeOK, hdrVars, storeVars, procVars, wrVars, Goto, Slot, Points
  <2>6. ASSUME NEW t \in Txns, LoadRoot0(t)
        PROVE  TypeKept
    <3> SUFFICES TypeOK'
      BY Zenon DEF TypeKept
    <3>1. view' \in [Txns -> [DB -> SUBSET Page]]
      BY <2>6, Zenon DEF LoadRoot0, TypeOK, DB
    <3> QED
      BY <3>1, <2>6, Zenon DEF LoadRoot0, TypeOK, PageStoreTypeOK, hdrVars, connVars, storeVars,
                     procVars, wrVars, runVars, Goto, Points
  <2>7. ASSUME NEW t \in Txns, LoadRoot1(t)
        PROVE  TypeKept
    <3> SUFFICES TypeOK'
      BY Zenon DEF TypeKept
    <3>1. view' \in [Txns -> [DB -> SUBSET Page]]
      BY <2>7, Zenon DEF LoadRoot1, TypeOK, DB
    <3> QED
      BY <3>1, <2>7 DEF LoadRoot1, TypeOK, PageStoreTypeOK, hdrVars, connVars, storeVars,
                     procVars, wrVars, runVars, Goto, Points
  <2>8. ASSUME NEW t \in Txns, LoadFails(t)
        PROVE  TypeKept
    <3> SUFFICES TypeOK'
      BY Zenon DEF TypeKept
    <3> QED
      BY <2>8, Zenon DEF LoadFails, TypeOK, PageStoreTypeOK, hdrVars, storeVars, procVars, wrVars, Goto, Slot, NoView, Points
  <2>9. ASSUME NEW t \in Txns, RecoverActive(t)
        PROVE  TypeKept
    <3> SUFFICES TypeOK'
      BY Zenon DEF TypeKept
    <3> QED
      BY <2>9, Zenon DEF RecoverActive, TypeOK, PageStoreTypeOK, connVars, storeVars, procVars, runVars, Goto, Points
  <2>10. ASSUME NEW t \in Txns, FreeActive(t)
        PROVE  TypeKept
    <3> SUFFICES TypeOK'
      BY Zenon DEF TypeKept
    <3>1. hand[t] \in SUBSET Page /\ PutPages(hand[t], 0)
      BY <2>10, Zenon DEF FreeActive, FreePages, TypeOK
    <3>2. PageStoreTypeOK'
      BY <3>1, PutPagesFacts, Zenon DEF TypeOK
    <3> QED
      BY <3>2, <2>10, Zenon DEF FreeActive, GcReady, GcSteps, FreePages, TypeOK, hdrVars, connVars, procVars,
                     runVars, Goto, Points
  <2>11. ASSUME NEW t \in Txns, FreeActiveFails(t)
        PROVE  TypeKept
    <3> SUFFICES TypeOK'
      BY Zenon DEF TypeKept
    <3> QED
      BY <2>11, Zenon DEF FreeActiveFails, GcReady, GcSteps, TypeOK, PageStoreTypeOK, connVars, storeVars, procVars, runVars, Goto, NoView, Points
  <2>12. ASSUME NEW t \in Txns, TakePending(t)
        PROVE  TypeKept
    <3> SUFFICES TypeOK'
      BY Zenon DEF TypeKept
    <3>1. Slot(t) \in Conn
      BY <2>12, SlotInConn, Zenon DEF TakePending, Runs
    <3>2. Inactive(t) \in SUBSET Page
      BY <3>1, Zenon DEF Inactive, TypeOK
    <3> QED
      BY <3>2, <2>12, Zenon DEF TakePending, TypeOK, PageStoreTypeOK, hdrVars, storeVars,
                     procVars, runVars, Goto, Points
  <2>13. ASSUME NEW t \in Txns, SetActive(t)
        PROVE  TypeKept
    <3> SUFFICES TypeOK'
      BY Zenon DEF TypeKept
    <3>1. hand[t] \in SUBSET Page /\ 0 \in Nat /\ GiveBack(hand[t], 0)
      BY <2>13, Zenon DEF SetActive, TypeOK
    <3>2. PageStoreTypeOK' /\ pxid' \in [Page -> Nat]
      BY <3>1, GiveBackFacts, Zenon
    <3> QED
      BY <3>2, <2>13, Zenon DEF SetActive, GcReady, GcSteps, TypeOK, connVars, procVars, runVars, Goto, Points
  <2>14. ASSUME NEW t \in Txns, XminBegin(t)
        PROVE  TypeKept
    <3> SUFFICES TypeOK'
      BY Zenon DEF TypeKept
    <3> QED
      BY <2>14 DEF XminBegin, TypeOK, PageStoreTypeOK, hdrVars, connVars, storeVars, procVars, wrVars, Goto, Points
  <2>15. ASSUME NEW t \in Txns, NEW c \in Conn, XminSlot(t, c)
        PROVE  TypeKept
    <3> SUFFICES TypeOK'
      BY Zenon DEF TypeKept
    <3>1. /\ cpid' \in [Conn -> BOOLEAN] /\ cxid' \in [Conn -> Nat]
          /\ pend' \in [Conn -> SUBSET Page]
      <4>1. \/ /\ cpid' = [cpid EXCEPT ![c] = FALSE]
               /\ cxid' = [cxid EXCEPT ![c] = 0]
               /\ pend' = [pend EXCEPT ![c] = {}]
            \/ UNCHANGED <<cpid, cxid, pend>>
        BY <2>15, Zenon DEF XminSlot
      <4>2. /\ cpid \in [Conn -> BOOLEAN] /\ cxid \in [Conn -> Nat]
            /\ pend \in [Conn -> SUBSET Page]
        BY Zenon DEF TypeOK
      <4>3. CASE UNCHANGED <<cpid, cxid, pend>>
        BY <4>2, <4>3, Zenon
      <4>4. CASE /\ cpid' = [cpid EXCEPT ![c] = FALSE]
                 /\ cxid' = [cxid EXCEPT ![c] = 0]
                 /\ pend' = [pend EXCEPT ![c] = {}]
        <5>1. cxid' \in [Conn -> Nat]
          BY <4>2, <4>4, Zenon
        <5> QED
          BY <4>2, <4>4, <5>1, Zenon
      <4> QED
        BY <4>1, <4>3, <4>4, Zenon
    <3>2. xmin' \in [Txns -> Int]
      BY <2>15 DEF XminSlot, TypeOK
    <3>3. todo' \in [Txns -> SUBSET Conn]
      BY <2>15, Zenon DEF XminSlot, TypeOK
    <3> QED
      BY <3>1, <3>2, <3>3, <2>15, Zenon DEF XminSlot, TypeOK, PageStoreTypeOK, hdrVars,
                     storeVars, procVars, wrVars
  <2>16. ASSUME NEW t \in Txns, Take(t)
        PROVE  TypeKept
    <3> SUFFICES TypeOK'
      BY Zenon DEF TypeKept
    <3>1. PICK S \in SUBSET free :
            TakePages(S, xmin[t]) /\ hand' = [hand EXCEPT ![t] = S]
      BY <2>16, Zenon DEF Take
    <3>2. PageStoreTypeOK' /\ S \in SUBSET Page
      BY <3>1, Zenon DEF TypeOK, PageStoreTypeOK, TakePages
    <3> QED
      BY <3>1, <3>2, <2>16 DEF Take, TypeOK, hdrVars, connVars, procVars, Goto, Points
  <2>17. ASSUME NEW t \in Txns, AllocFails(t)
        PROVE  TypeKept
    <3> SUFFICES TypeOK'
      BY Zenon DEF TypeKept
    <3> QED
      BY <2>17 DEF AllocFails, TypeOK, PageStoreTypeOK, hdrVars, connVars, storeVars, procVars, wrVars, Goto, Points
  <2>18. ASSUME NEW t \in Txns, Record(t)
        PROVE  TypeKept
    <3> SUFFICES TypeOK'
      BY Zenon DEF TypeKept
    <3> QED
      BY <2>18, Zenon DEF Record, TypeOK, PageStoreTypeOK, connVars, storeVars, procVars, runVars, Goto, Points
  <2>19. ASSUME NEW t \in Txns, NEW d \in DB, NEW n \in Page, NEW p \in Page, Clone(t, d, n, p)
        PROVE  TypeKept
    <3> SUFFICES TypeOK'
      BY Zenon DEF TypeKept
    <3> QED
      BY <2>19 DEF Clone, ReplacedBy, TypeOK, PageStoreTypeOK, hdrVars, connVars, storeVars, procVars, runVars
  <2>20. ASSUME NEW t \in Txns, NEW d \in DB, NEW p \in Page, NewNode(t, d, p)
        PROVE  TypeKept
    <3> SUFFICES TypeOK'
      BY Zenon DEF TypeKept
    <3> QED
      BY <2>20 DEF NewNode, TypeOK, PageStoreTypeOK, hdrVars, connVars, storeVars, procVars, runVars
  <2>21. ASSUME NEW t \in Txns, NEW d \in DB, NEW n \in Page, WriteInPlace(t, d, n)
        PROVE  TypeKept
    <3> SUFFICES TypeOK'
      BY Zenon DEF TypeKept
    <3> QED
      BY <2>21, Zenon DEF WriteInPlace, TypeOK, PageStoreTypeOK, hdrVars, connVars, storeVars, procVars, runVars
  <2>22. ASSUME NEW t \in Txns, CommitBegin(t)
        PROVE  TypeKept
    <3> SUFFICES TypeOK'
      BY Zenon DEF TypeKept
    <3> QED
      BY <2>22, Zenon DEF CommitBegin, TypeOK, PageStoreTypeOK, connVars, storeVars, procVars, runVars, Goto, Points
  <2>23. ASSUME NEW t \in Txns, StoreTree(t)
        PROVE  TypeKept
    <3> SUFFICES TypeOK'
      BY Zenon DEF TypeKept
    <3> QED
      BY <2>23, Zenon DEF StoreTree, TypeOK, PageStoreTypeOK, connVars, storeVars, procVars, wrVars, runVars, Goto, Points
  <2>24. ASSUME NEW t \in Txns, StoreXid(t)
        PROVE  TypeKept
    <3> SUFFICES TypeOK'
      BY Zenon DEF TypeKept
    <3> QED
      BY <2>24, Zenon DEF StoreXid, TypeOK, PageStoreTypeOK, connVars, storeVars, procVars, wrVars, runVars, Goto, Points
  <2>25. ASSUME NEW t \in Txns, Discard(t)
        PROVE  TypeKept
    <3> SUFFICES TypeOK'
      BY Zenon DEF TypeKept
    <3>1. gc[t] \in SUBSET Page /\ xid[t] \in Nat /\ GiveBack(gc[t], xid[t])
      BY <2>25, Zenon DEF Discard, TypeOK
    <3>2. PageStoreTypeOK' /\ pxid' \in [Page -> Nat]
      BY <3>1, GiveBackFacts, Zenon
    <3> QED
      BY <3>2, <2>25, Zenon DEF Discard, GcReady, GcSteps, TypeOK, hdrVars, connVars, procVars, runVars, Goto, Points
  <2>26. ASSUME NEW t \in Txns, NEW r \in BOOLEAN, CloseLocked(t, r)
        PROVE  TypeKept
    <3> SUFFICES TypeOK'
      BY Zenon DEF TypeKept
    <3>1. lock' \in Proc \cup {NoProc}
      <4>1. lock \in Proc \cup {NoProc} /\ Owner[t] \in Proc
        BY TxnAssumption, Zenon DEF TypeOK
      <4> QED
        BY <4>1, <2>26, Zenon DEF CloseLocked, EdLck
    <3>2. cxid' \in [Conn -> Nat] /\ reset' \in [Txns -> BOOLEAN]
      BY <2>26, Zenon DEF CloseLocked, EdLck, ReleaseXid, TypeOK
    <3>3. view' \in [Txns -> [DB -> SUBSET Page]]
      BY <2>26, Zenon DEF CloseLocked, EdLck, Forget, TypeOK, NoView
    <3> QED
      BY <3>1, <3>2, <3>3, <2>26, Zenon DEF CloseLocked, EdLck, TypeOK, PageStoreTypeOK,
         storeVars, procVars, Goto, Forget, Points
  <2>27. ASSUME NEW t \in Txns, NEW r \in BOOLEAN, CloseUnlocked(t, r)
        PROVE  TypeKept
    <3> SUFFICES TypeOK'
      BY Zenon DEF TypeKept
    <3> QED
      BY <2>27, Zenon DEF CloseUnlocked, TypeOK, PageStoreTypeOK, hdrVars, storeVars, procVars, Goto, Forget, ReleaseXid, NoView, Slot, Points
  <2>28. ASSUME NEW t \in Txns, FlushActive(t)
        PROVE  TypeKept
    <3> SUFFICES TypeOK'
      BY Zenon DEF TypeKept
    <3> QED
      BY <2>28, Zenon DEF FlushActive, TypeOK, PageStoreTypeOK, connVars, storeVars, procVars, wrVars, runVars, Goto, Points
  <2>29. ASSUME NEW t \in Txns, StorePending(t)
        PROVE  TypeKept
    <3> SUFFICES TypeOK'
      BY Zenon DEF TypeKept
    <3>1. PICK keep \in SUBSET pg[t] :
            /\ pend' = [pend EXCEPT ![Slot(t)] = keep]
            /\ pg' = [pg EXCEPT ![t] = keep]
            /\ hand' = [hand EXCEPT ![t] = pg[t] \ keep]
      BY <2>29, Zenon DEF StorePending
    <3> QED
      BY <3>1, <2>29, Zenon DEF StorePending, TypeOK, PageStoreTypeOK, hdrVars, storeVars,
                     procVars, runVars, Goto, Points
  <2>30. ASSUME NEW t \in Txns, Unlock(t)
        PROVE  TypeKept
    <3> SUFFICES TypeOK'
      BY Zenon DEF TypeKept
    <3>1. hand[t] \in SUBSET Page /\ 0 \in Nat /\ GiveBack(hand[t], 0)
      BY <2>30, Zenon DEF Unlock, TypeOK
    <3>2. PageStoreTypeOK' /\ pxid' \in [Page -> Nat]
      BY <3>1, GiveBackFacts, Zenon
    <3> QED
      BY <3>2, <2>30, Zenon DEF Unlock, GcReady, GcSteps, TypeOK, connVars, procVars, Goto, Points
  <2>31. ASSUME NEW q \in Proc, NEW c \in Conn, IdxOpen(q, c)
        PROVE  TypeKept
    <3> SUFFICES TypeOK'
      BY Zenon DEF TypeKept
    <3> QED
      BY <2>31, Zenon DEF IdxOpen, TypeOK, PageStoreTypeOK, hdrVars, storeVars, wrVars, runVars
  <2>32. ASSUME NEW q \in Proc, IdxClose(q)
        PROVE  TypeKept
    <3> SUFFICES TypeOK'
      BY Zenon DEF TypeKept
    <3> QED
      BY <2>32, Zenon DEF IdxClose, TypeOK, PageStoreTypeOK, storeVars, wrVars, runVars
  <2>33. ASSUME NEW q \in Proc, Stat(q)
        PROVE  TypeKept
    <3> SUFFICES TypeOK'
      BY Zenon DEF TypeKept
    <3> QED
      BY <2>33, Zenon DEF Stat, Leaked, TypeOK, PageStoreTypeOK, hdrVars, storeVars, wrVars,
               runVars
  <2>34. ASSUME NEW q \in Proc, Repair(q)
        PROVE  TypeKept
    <3> SUFFICES TypeOK'
      BY Zenon DEF TypeKept
    <3>1. leaks[q] \in SUBSET Page /\ PutPages(leaks[q], 0)
      BY <2>34, Zenon DEF Repair, FreePages, TypeOK
    <3>2. PageStoreTypeOK'
      BY <3>1, PutPagesFacts, Zenon DEF TypeOK
    <3> QED
      BY <3>2, <2>34, Zenon DEF Repair, FreePages, TypeOK, hdrVars, connVars, wrVars, runVars
  <2>35. ASSUME NEW q \in Proc, Crash(q)
        PROVE  TypeKept
    <3> SUFFICES TypeOK'
      BY Zenon DEF TypeKept
    <3>1. /\ lock' \in Proc \cup {NoProc} /\ clock' \in [Conn -> Proc \cup {NoProc}]
          /\ conn' \in [Proc -> Conn \cup {NoConn}] /\ leaks' \in [Proc -> SUBSET Page]
          /\ crashes' \in Nat
      BY <2>35 DEF Crash, TypeOK
    <3>2. /\ pc' \in [Txns -> Points] /\ ro' \in [Txns -> BOOLEAN]
          /\ reset' \in [Txns -> BOOLEAN] /\ todo' \in [Txns -> SUBSET Conn]
      BY <2>35, Zenon DEF Crash, TypeOK, Points
    <3>3. /\ lx' \in [Txns -> Nat] /\ xid' \in [Txns -> Nat] /\ xmin' \in [Txns -> Int]
      BY <2>35 DEF Crash, TypeOK
    <3>4. view' \in [Txns -> [DB -> SUBSET Page]]
      BY <2>35, Zenon DEF Crash, TypeOK, NoView
    <3>6. gcpage' \in [Txns -> GcSteps]
      BY <2>35, Zenon DEF Crash, TypeOK, GcSteps
    <3>5. /\ pg' \in [Txns -> SUBSET Page] /\ used' \in [Txns -> SUBSET Page]
          /\ gc' \in [Txns -> SUBSET Page] /\ hand' \in [Txns -> SUBSET Page]
          /\ inplace' \in [Txns -> SUBSET Page]
      BY <2>35, Zenon DEF Crash, TypeOK
    <3> QED
      BY <3>1, <3>2, <3>3, <3>4, <3>5, <3>6, <2>35, Zenon
      DEF Crash, TypeOK, PageStoreTypeOK, storeVars
  <2>36. ASSUME NEW t \in Txns, GcBegin(t)
        PROVE  TypeKept
    <3> SUFFICES TypeOK'
      BY Zenon DEF TypeKept
    <3> QED
      BY <2>36 DEF GcBegin, GcSteps, TypeOK, PageStoreTypeOK, hdrVars, connVars, storeVars, procVars, wrVars
  <2>37. ASSUME NEW t \in Txns, GcTake(t)
        PROVE  TypeKept
    <3> SUFFICES TypeOK'
      BY Zenon DEF TypeKept
    <3>1. PageStoreTypeOK'
      BY <2>37 DEF GcTake, RecyclePages, TypeOK, PageStoreTypeOK
    <3> QED
      BY <3>1, <2>37 DEF GcTake, RecyclePages, GcSteps, TypeOK, hdrVars, connVars, procVars, wrVars
  <2>40. TypeKept
    BY ONLY <1>1, <2>36, <2>37, <2>1, <2>2, <2>3, <2>4, <2>5, <2>6, <2>7, <2>8, <2>9, <2>10, <2>11, <2>12, <2>13, <2>14, <2>15, <2>16, <2>17, <2>18, <2>19, <2>20, <2>21, <2>22, <2>23, <2>24, <2>25, <2>26, <2>27, <2>28, <2>29, <2>30, <2>31, <2>32, <2>33, <2>34, <2>35, Zenon
    DEF Next, TxnStep, ProcStep, Progress, Work, Close
  <2> QED
    BY <2>40, Zenon DEF TypeKept
<1>2. CASE UNCHANGED vars
  BY <1>2, Zenon DEF vars, hdrVars, connVars, storeVars, procVars, wrVars, runVars,
              TypeOK, PageStoreTypeOK
<1> QED
  BY <1>1, <1>2, Zenon

-----------------------------------------------------------------------------
(* A transaction moves only while the others of its process are idle. *)
Moves(t) ==
  /\ \A u \in Siblings(t) : pc[u] \in Idle
  /\ pc' = [pc EXCEPT ![t] = pc'[t]]

LEMMA TxnMoves ==
  ASSUME TypeOK, NEW t \in Txns, TxnStep(t)
  PROVE  Moves(t)
<1> USE DEF Moves, Runs, Goto, TypeOK
<1>1. ASSUME TxnNew(t) \/ OpenRead(t) \/ OpenWrite(t) \/ CommitBegin(t)
      PROVE  Moves(t)
  BY <1>1, Zenon DEF TxnNew, OpenRead, OpenWrite, CommitBegin
<1>2. ASSUME Progress(t) PROVE Moves(t)
  <2>1. ASSUME \/ GetXid(t) \/ SetXid(t) \/ LoadRoot0(t) \/ LoadRoot1(t)
               \/ LoadFails(t) \/ RecoverActive(t) \/ FreeActive(t)
        PROVE  Moves(t)
    BY <2>1, Zenon DEF GetXid, SetXid, LoadRoot0, LoadRoot1, LoadFails, RecoverActive,
                FreeActive
  <2>2. ASSUME FreeActiveFails(t) \/ TakePending(t) \/ SetActive(t) PROVE Moves(t)
    BY <2>2, Zenon DEF FreeActiveFails, TakePending, SetActive
  <2>4. ASSUME Take(t) \/ AllocFails(t) \/ Record(t) PROVE Moves(t)
    BY <2>4, Zenon DEF Take, AllocFails, Record
  <2>5. ASSUME NEW c \in Conn, XminSlot(t, c) PROVE Moves(t)
    BY <2>5, Zenon DEF XminSlot, Scans
  <2>6. ASSUME GcBegin(t) \/ GcTake(t) PROVE Moves(t)
    BY <2>6, Zenon DEF GcBegin, GcTake, Scans
  <2>3. ASSUME \/ StoreTree(t) \/ StoreXid(t) \/ Discard(t) \/ FlushActive(t)
               \/ StorePending(t) \/ Unlock(t)
        PROVE  Moves(t)
    BY <2>3, Zenon DEF StoreTree, StoreXid, Discard, FlushActive, StorePending, Unlock
  <2> QED
    BY <1>2, <2>1, <2>2, <2>3, <2>4, <2>5, <2>6, Zenon DEF Progress
<1>3. ASSUME Work(t) PROVE Moves(t)
  BY <1>3 DEF Work, XminBegin, NewNode, Clone, WriteInPlace
<1>4. ASSUME Close(t) PROVE Moves(t)
  BY <1>4, Zenon DEF Close, CloseLocked, CloseUnlocked
<1> QED
  BY <1>1, <1>2, <1>3, <1>4, Zenon DEF TxnStep

(* A step of t that keeps the locks and the mode and goes to "at". *)
Quiet(t, at) ==
  /\ pc' = [pc EXCEPT ![t] = at]
  /\ UNCHANGED <<lock, clock, conn, ro>>
  /\ \A u \in Txns \ Writers : pg'[u] = pg[u]
  /\ at # "none" /\ Slot(t) # NoConn
  /\ at \in Locked \/ (at \in Acquiring /\ ~ro[t]) => Writing(t)
  /\ at \in Locked \cup {"closed"} => ~ro[t]
  /\ at = "open" => ro[t]

LEMMA QuietKeeps ==
  ASSUME TypeOK, LockInv, NEW t \in Txns, NEW at, Quiet(t, at)
  PROVE  ConnInv' /\ WriteInv' /\ ModeInv' /\ PgInv'
<1>1. \A u \in Txns : pc'[u] = IF u = t THEN at ELSE pc[u]
  BY Zenon DEF Quiet, TypeOK
<1>2. ConnInv'
  BY <1>1, Zenon DEF Quiet, LockInv, ConnInv, Slot
<1>3. WriteInv'
  BY <1>1, Zenon DEF Quiet, LockInv, WriteInv, Writing
<1>4. ModeInv'
  BY <1>1 DEF Quiet, LockInv, ModeInv
<1>5. PgInv'
  BY Zenon DEF Quiet, LockInv, PgInv
<1> QED
  BY <1>2, <1>3, <1>4, <1>5, Zenon

LEMMA OneThreadStep == TypeOK /\ OneThread /\ Next => OneThread'
<1> SUFFICES ASSUME TypeOK, OneThread, Next PROVE OneThread'
  BY Zenon
<1>1. ASSUME NEW t \in Txns, TxnStep(t) PROVE OneThread'
  <2>1. Moves(t)
    BY <1>1, TxnMoves, Zenon
  <2>2. \A u \in Txns : u # t => pc'[u] = pc[u]
    BY <2>1, Zenon DEF Moves, TypeOK
  <2>3. \A u \in Txns : u # t /\ Owner[u] = Owner[t] => pc[u] \in Idle
    BY <2>1, Zenon DEF Moves, Siblings
  <2> QED
    BY <2>2, <2>3, Zenon DEF OneThread
<1>2. ASSUME NEW q \in Proc, ProcStep(q) PROVE OneThread'
  <2>1. CASE Crash(q)
    <3>1. \A t \in Txns : pc'[t] = IF Owner[t] = q THEN "none" ELSE pc[t]
      BY <2>1, Zenon DEF Crash
    <3> QED
      BY <3>1, Zenon DEF OneThread, Idle
  <2>2. CASE UNCHANGED pc
    BY <2>2, Zenon DEF OneThread
  <2> QED
    BY <1>2, <2>1, <2>2, Zenon DEF ProcStep, IdxOpen, IdxClose, Stat, Repair
<1> QED
  BY <1>1, <1>2, Zenon DEF Next

(* A step that keeps who holds what. *)
LockKept == ConnInv' /\ WriteInv' /\ ModeInv' /\ PgInv'

LEMMA LockStep == TypeOK /\ LockInv /\ [Next]_vars => LockInv'
<1> SUFFICES ASSUME TypeOK, LockInv, [Next]_vars PROVE LockInv'
  BY Zenon
<1> USE TxnAssumption
<1>1. CASE Next
  <2>1. ASSUME NEW t \in Txns, TxnNew(t)
        PROVE  LockKept
    <3> SUFFICES ConnInv' /\ WriteInv' /\ ModeInv' /\ PgInv'
      BY Zenon DEF LockKept
    <3>1. Quiet(t, "closed")
      BY <2>1, Zenon DEF TxnNew, hdrVars, connVars, procVars, runVars, wrVars, Goto, Runs, Quiet, LockInv,
         ConnInv, WriteInv, ModeInv, Writing, Locked, Acquiring, Slot, TypeOK
    <3> QED
      BY <3>1, QuietKeeps, Zenon
  <2>2. ASSUME NEW t \in Txns, OpenRead(t)
        PROVE  LockKept
    <3> SUFFICES ConnInv' /\ WriteInv' /\ ModeInv' /\ PgInv'
      BY Zenon DEF LockKept
    <3>1. ConnInv'
      BY <2>2, Zenon DEF OpenRead, hdrVars, connVars, procVars, Goto, Runs, LockInv,
         ConnInv, TypeOK, Slot
    <3>2. WriteInv'
      BY <2>2, WriterAlone, Zenon DEF OpenRead, hdrVars, connVars, procVars, Goto, Runs, LockInv,
         WriteInv, TypeOK, Writing, Locked, Acquiring, HasLock
    <3>3. ModeInv'
      BY <2>2, Zenon DEF OpenRead, hdrVars, connVars, procVars, Goto, Runs, LockInv,
         ModeInv, Locked, TypeOK
    <3>9. PgInv'
      BY <2>2, Zenon DEF OpenRead, Forget, Runs, wrVars, LockInv, PgInv, WriteInv, TypeOK
    <3> QED
      BY <3>1, <3>2, <3>3, <3>9, Zenon
  <2>3. ASSUME NEW t \in Txns, OpenWrite(t)
        PROVE  LockKept
    <3> SUFFICES ConnInv' /\ WriteInv' /\ ModeInv' /\ PgInv'
      BY Zenon DEF LockKept
    <3> QED
      BY <2>3 DEF OpenWrite, EdLck, connVars, procVars, Goto, Runs, LockInv, ConnInv,
               WriteInv, ModeInv, PgInv, wrVars,
               Writing, Locked, Acquiring, Slot
  <2>4. ASSUME NEW t \in Txns, GetXid(t)
        PROVE  LockKept
    <3> SUFFICES ConnInv' /\ WriteInv' /\ ModeInv' /\ PgInv'
      BY Zenon DEF LockKept
    <3>1. Quiet(t, "setxid")
      BY <2>4, Zenon DEF GetXid, hdrVars, connVars, procVars, wrVars, Goto, Runs, Quiet, LockInv,
         ConnInv, WriteInv, ModeInv, Writing, Locked, Acquiring, Slot, TypeOK
    <3> QED
      BY <3>1, QuietKeeps, Zenon
  <2>5. ASSUME NEW t \in Txns, SetXid(t)
        PROVE  LockKept
    <3> SUFFICES ConnInv' /\ WriteInv' /\ ModeInv' /\ PgInv'
      BY Zenon DEF LockKept
    <3>1. Quiet(t, "load0")
      BY <2>5, Zenon DEF SetXid, hdrVars, procVars, wrVars, Goto, Runs, Quiet, LockInv,
         ConnInv, WriteInv, ModeInv, Writing, Locked, Acquiring, Slot, TypeOK
    <3> QED
      BY <3>1, QuietKeeps, Zenon
  <2>6. ASSUME NEW t \in Txns, LoadRoot0(t)
        PROVE  LockKept
    <3> SUFFICES ConnInv' /\ WriteInv' /\ ModeInv' /\ PgInv'
      BY Zenon DEF LockKept
    <3>1. Quiet(t, "load1")
      BY <2>6, Zenon DEF LoadRoot0, hdrVars, connVars, procVars, runVars, wrVars, Goto, Runs, Quiet, LockInv,
         ConnInv, WriteInv, ModeInv, Writing, Locked, Acquiring, Slot, TypeOK
    <3> QED
      BY <3>1, QuietKeeps, Zenon
  <2>7. ASSUME NEW t \in Txns, LoadRoot1(t)
        PROVE  LockKept
    <3> SUFFICES ConnInv' /\ WriteInv' /\ ModeInv' /\ PgInv'
      BY Zenon DEF LockKept
    <3>1. Quiet(t, IF ro[t] THEN "open" ELSE "recover")
      BY <2>7, Zenon DEF LoadRoot1, hdrVars, connVars, procVars, runVars, wrVars, Goto, Runs, Quiet, LockInv,
         ConnInv, WriteInv, ModeInv, Writing, Locked, Acquiring, Slot, TypeOK
    <3> QED
      BY <3>1, QuietKeeps, Zenon
  <2>8. ASSUME NEW t \in Txns, LoadFails(t)
        PROVE  LockKept
    <3> SUFFICES ConnInv' /\ WriteInv' /\ ModeInv' /\ PgInv'
      BY Zenon DEF LockKept
    <3>1. ConnInv'
      BY <2>8, Zenon DEF LoadFails, hdrVars, procVars, Goto, Runs, LockInv, ConnInv,
         TypeOK, Slot
    <3>2. WriteInv'
      BY <2>8, WriterAlone DEF LoadFails, hdrVars, procVars, Goto, Runs, LockInv, WriteInv,
         TypeOK, Writing, Locked, Acquiring, HasLock
    <3>3. ModeInv'
      BY <2>8, Zenon DEF LoadFails, hdrVars, procVars, Goto, Runs, LockInv, ModeInv,
         Locked, TypeOK
    <3>9. PgInv'
      BY <2>8, Zenon DEF LoadFails, Forget, Runs, wrVars, LockInv, PgInv, WriteInv, TypeOK
    <3> QED
      BY <3>1, <3>2, <3>3, <3>9, Zenon
  <2>9. ASSUME NEW t \in Txns, RecoverActive(t)
        PROVE  LockKept
    <3> SUFFICES ConnInv' /\ WriteInv' /\ ModeInv' /\ PgInv'
      BY Zenon DEF LockKept
    <3>1. Quiet(t, "freeactive")
      BY <2>9, Zenon DEF RecoverActive, connVars, procVars, runVars, wrVars, Goto, Runs, Quiet, LockInv,
         ConnInv, WriteInv, ModeInv, Writing, Locked, Acquiring, Slot, TypeOK
    <3> QED
      BY <3>1, QuietKeeps, Zenon
  <2>10. ASSUME NEW t \in Txns, FreeActive(t)
        PROVE  LockKept
    <3> SUFFICES ConnInv' /\ WriteInv' /\ ModeInv' /\ PgInv'
      BY Zenon DEF LockKept
    <3>1. Quiet(t, "takepending")
      BY <2>10, Zenon DEF FreeActive, hdrVars, connVars, procVars, runVars, wrVars, Goto, Runs, Quiet, LockInv,
         ConnInv, WriteInv, ModeInv, Writing, Locked, Acquiring, Slot, TypeOK
    <3> QED
      BY <3>1, QuietKeeps, Zenon
  <2>11. ASSUME NEW t \in Txns, FreeActiveFails(t)
        PROVE  LockKept
    <3> SUFFICES ConnInv' /\ WriteInv' /\ ModeInv' /\ PgInv'
      BY Zenon DEF LockKept
    <3>1. ConnInv'
      BY <2>11, Zenon DEF FreeActiveFails, connVars, procVars, runVars, Goto, Runs,
         LockInv, ConnInv, TypeOK, Slot
    <3>2. WriteInv'
      BY <2>11, WriterAlone, Zenon DEF FreeActiveFails, connVars, procVars, runVars, Goto, Runs,
         LockInv, WriteInv, TypeOK, Writing, Locked, Acquiring, HasLock
    <3>3. ModeInv'
      BY <2>11, Zenon DEF FreeActiveFails, connVars, procVars, runVars, Goto, Runs,
         LockInv, ModeInv, Locked, TypeOK
    <3>9. PgInv'
      BY <2>11, Zenon DEF FreeActiveFails, Forget, Runs, wrVars, LockInv, PgInv, WriteInv, TypeOK
    <3> QED
      BY <3>1, <3>2, <3>3, <3>9, Zenon
  <2>12. ASSUME NEW t \in Txns, TakePending(t)
        PROVE  LockKept
    <3> SUFFICES ConnInv' /\ WriteInv' /\ ModeInv' /\ PgInv'
      BY Zenon DEF LockKept
    <3>1. Quiet(t, "setactive")
      BY <2>12, Zenon DEF TakePending, hdrVars, procVars, runVars, wrVars, Goto, Runs, Quiet, LockInv,
         ConnInv, WriteInv, ModeInv, Writing, Locked, Acquiring, Slot, TypeOK
    <3> QED
      BY <3>1, QuietKeeps, Zenon
  <2>13. ASSUME NEW t \in Txns, SetActive(t)
        PROVE  LockKept
    <3> SUFFICES ConnInv' /\ WriteInv' /\ ModeInv' /\ PgInv'
      BY Zenon DEF LockKept
    <3>1. Quiet(t, "write")
      BY <2>13, Zenon DEF SetActive, connVars, procVars, runVars, wrVars, Goto, Runs, Quiet, LockInv,
         ConnInv, WriteInv, ModeInv, Writing, Locked, Acquiring, Slot, TypeOK
    <3> QED
      BY <3>1, QuietKeeps, Zenon
  <2>14. ASSUME NEW t \in Txns, XminBegin(t)
        PROVE  LockKept
    <3> SUFFICES ConnInv' /\ WriteInv' /\ ModeInv' /\ PgInv'
      BY Zenon DEF LockKept
    <3>1. Quiet(t, "alloc")
      BY <2>14, Zenon DEF XminBegin, hdrVars, connVars, procVars, wrVars, Goto, Runs, Quiet, LockInv,
         ConnInv, WriteInv, ModeInv, Writing, Locked, Acquiring, Slot, TypeOK
    <3> QED
      BY <3>1, QuietKeeps, Zenon
  <2>15. ASSUME NEW t \in Txns, NEW c \in Conn, XminSlot(t, c)
        PROVE  LockKept
    <3> SUFFICES ConnInv' /\ WriteInv' /\ ModeInv' /\ PgInv'
      BY Zenon DEF LockKept
    <3> QED
      BY <2>15, Zenon DEF XminSlot, hdrVars, procVars, Runs, LockInv, ConnInv, WriteInv, ModeInv, PgInv, wrVars,
               Writing, Locked, Acquiring, Slot
  <2>16. ASSUME NEW t \in Txns, Take(t)
        PROVE  LockKept
    <3> SUFFICES ConnInv' /\ WriteInv' /\ ModeInv' /\ PgInv'
      BY Zenon DEF LockKept
    <3>1. Quiet(t, "record")
      BY <2>16, Zenon DEF Take, hdrVars, connVars, procVars, wrVars, Goto, Runs, Quiet, LockInv,
         ConnInv, WriteInv, ModeInv, Writing, Locked, Acquiring, Slot, TypeOK
    <3> QED
      BY <3>1, QuietKeeps, Zenon
  <2>17. ASSUME NEW t \in Txns, AllocFails(t)
        PROVE  LockKept
    <3> SUFFICES ConnInv' /\ WriteInv' /\ ModeInv' /\ PgInv'
      BY Zenon DEF LockKept
    <3>1. Quiet(t, "error")
      BY <2>17, Zenon DEF AllocFails, hdrVars, connVars, procVars, wrVars, Goto, Runs, Quiet, LockInv,
         ConnInv, WriteInv, ModeInv, Writing, Locked, Acquiring, Slot, TypeOK
    <3> QED
      BY <3>1, QuietKeeps, Zenon
  <2>18. ASSUME NEW t \in Txns, Record(t)
        PROVE  LockKept
    <3> SUFFICES ConnInv' /\ WriteInv' /\ ModeInv' /\ PgInv'
      BY Zenon DEF LockKept
    <3>1. Quiet(t, "write")
      BY <2>18 DEF Record, connVars, procVars, runVars, wrVars, Goto, Runs, Quiet, LockInv,
         ConnInv, WriteInv, ModeInv, Writing, Locked, Acquiring, Slot, TypeOK
    <3> QED
      BY <3>1, QuietKeeps, Zenon
  <2>19. ASSUME NEW t \in Txns, NEW d \in DB, NEW n \in Page, NEW p \in Page, Clone(t, d, n, p)
        PROVE  LockKept
    <3> SUFFICES ConnInv' /\ WriteInv' /\ ModeInv' /\ PgInv'
      BY Zenon DEF LockKept
    <3> QED
      BY <2>19, Zenon DEF Clone, ReplacedBy, hdrVars, connVars, procVars, runVars, Runs, LockInv,
               ConnInv, WriteInv, ModeInv, PgInv, wrVars, Writing, Locked, Acquiring, Slot
  <2>20. ASSUME NEW t \in Txns, NEW d \in DB, NEW p \in Page, NewNode(t, d, p)
        PROVE  LockKept
    <3> SUFFICES ConnInv' /\ WriteInv' /\ ModeInv' /\ PgInv'
      BY Zenon DEF LockKept
    <3> QED
      BY <2>20, Zenon DEF NewNode, hdrVars, connVars, procVars, runVars, Runs, LockInv,
               ConnInv, WriteInv, ModeInv, PgInv, wrVars, Writing, Locked, Acquiring, Slot
  <2>21. ASSUME NEW t \in Txns, NEW d \in DB, NEW n \in Page, WriteInPlace(t, d, n)
        PROVE  LockKept
    <3> SUFFICES ConnInv' /\ WriteInv' /\ ModeInv' /\ PgInv'
      BY Zenon DEF LockKept
    <3> QED
      BY <2>21, Zenon DEF WriteInPlace, hdrVars, connVars, procVars, runVars, Runs,
               LockInv, ConnInv, WriteInv, ModeInv, PgInv, wrVars, Writing, Locked, Acquiring,
               Slot
  <2>22. ASSUME NEW t \in Txns, CommitBegin(t)
        PROVE  LockKept
    <3> SUFFICES ConnInv' /\ WriteInv' /\ ModeInv' /\ PgInv'
      BY Zenon DEF LockKept
    <3>1. Quiet(t, "tree")
      BY <2>22 DEF CommitBegin, connVars, procVars, runVars, wrVars, Goto, Runs, Quiet, LockInv,
         ConnInv, WriteInv, ModeInv, Writing, Locked, Acquiring, Slot, TypeOK
    <3> QED
      BY <3>1, QuietKeeps, Zenon
  <2>23. ASSUME NEW t \in Txns, StoreTree(t)
        PROVE  LockKept
    <3> SUFFICES ConnInv' /\ WriteInv' /\ ModeInv' /\ PgInv'
      BY Zenon DEF LockKept
    <3>1. Quiet(t, "xid")
      BY <2>23, Zenon DEF StoreTree, connVars, procVars, runVars, wrVars, Goto, Runs, Quiet, LockInv,
         ConnInv, WriteInv, ModeInv, Writing, Locked, Acquiring, Slot, TypeOK
    <3> QED
      BY <3>1, QuietKeeps, Zenon
  <2>24. ASSUME NEW t \in Txns, StoreXid(t)
        PROVE  LockKept
    <3> SUFFICES ConnInv' /\ WriteInv' /\ ModeInv' /\ PgInv'
      BY Zenon DEF LockKept
    <3>1. Quiet(t, "discard")
      BY <2>24, Zenon DEF StoreXid, connVars, procVars, runVars, wrVars, Goto, Runs, Quiet, LockInv,
         ConnInv, WriteInv, ModeInv, Writing, Locked, Acquiring, Slot, TypeOK
    <3> QED
      BY <3>1, QuietKeeps, Zenon
  <2>25. ASSUME NEW t \in Txns, Discard(t)
        PROVE  LockKept
    <3> SUFFICES ConnInv' /\ WriteInv' /\ ModeInv' /\ PgInv'
      BY Zenon DEF LockKept
    <3>1. Quiet(t, "closing")
      BY <2>25, Zenon DEF Discard, hdrVars, connVars, procVars, runVars, wrVars, Goto, Runs, Quiet, LockInv,
         ConnInv, WriteInv, ModeInv, Writing, Locked, Acquiring, Slot, TypeOK
    <3> QED
      BY <3>1, QuietKeeps, Zenon
  <2>26. ASSUME NEW t \in Txns, NEW r \in BOOLEAN, CloseLocked(t, r)
        PROVE  LockKept
    <3> SUFFICES ConnInv' /\ WriteInv' /\ ModeInv' /\ PgInv'
      BY Zenon DEF LockKept
    <3>1. ConnInv'
      BY <2>26, Zenon DEF CloseLocked, EdLck, Closable, procVars, Goto, Forget, Runs, LockInv, ConnInv,
         TypeOK, Slot
    <3>2. WriteInv'
      <4>1. ASSUME NEW u \in Txns, u # t, Writing(u)' PROVE Writing(u)
        BY <2>26, <4>1, Zenon DEF CloseLocked, Goto, Forget, Writing, TypeOK
      <4>2. CASE HasLock(t)
        <5>1. Writing(t) /\ lock' = lock
          BY <2>26, <4>2, Zenon DEF CloseLocked, HasLock, Writing, Locked, EdLck
        <5> QED
          BY <4>1, <5>1, WriterAlone, Zenon DEF LockInv, WriteInv
      <4>3. CASE ~HasLock(t)
        <5>1. lock = NoProc /\ lock' = Owner[t] /\ pg[t] # {}
          BY <2>26, <4>3, Zenon DEF CloseLocked, EdLck
        <5>2. t \in Writers
          BY <5>1, Zenon DEF LockInv, PgInv
        <5>3. \A u \in Txns : ~Writing(u)
          BY <5>1, TxnAssumption, Zenon DEF LockInv, WriteInv
        <5> QED
          BY <4>1, <5>1, <5>2, <5>3, Zenon DEF WriteInv
      <4> QED
        BY <4>2, <4>3, Zenon
    <3>3. ModeInv'
      BY <2>26, Zenon DEF CloseLocked, EdLck, Closable, procVars, Goto, Forget, Runs, LockInv, ModeInv,
         Locked, TypeOK
    <3>9. PgInv'
      BY <2>26, Zenon DEF CloseLocked, EdLck, Forget, Runs, wrVars, LockInv, PgInv, WriteInv, TypeOK
    <3> QED
      BY <3>1, <3>2, <3>3, <3>9, Zenon
  <2>27. ASSUME NEW t \in Txns, NEW r \in BOOLEAN, CloseUnlocked(t, r)
        PROVE  LockKept
    <3> SUFFICES ConnInv' /\ WriteInv' /\ ModeInv' /\ PgInv'
      BY Zenon DEF LockKept
    <3>1. ConnInv'
      BY <2>27, Zenon DEF CloseUnlocked, hdrVars, procVars, Goto, Forget, Runs, LockInv,
         ConnInv, TypeOK, Slot
    <3>2. WriteInv'
      <4>1. lock' = lock
        BY <2>27, Zenon DEF CloseUnlocked, hdrVars
      <4>2. ASSUME NEW u \in Txns, u # t, Writing(u)' PROVE Writing(u)
        BY <2>27, <4>2, Zenon DEF CloseUnlocked, Goto, Forget, Writing, TypeOK
      <4>3. ~Writing(t)'
        BY <2>27, Zenon DEF CloseUnlocked, Goto, Writing, Locked, Acquiring, TypeOK
      <4> QED
        BY <4>1, <4>2, <4>3, Zenon DEF LockInv, WriteInv
    <3>3. ModeInv'
      BY <2>27, Zenon DEF CloseUnlocked, hdrVars, procVars, Goto, Forget, Runs, LockInv,
         ModeInv, Locked, TypeOK
    <3>9. PgInv'
      BY <2>27, Zenon DEF CloseUnlocked, Forget, Runs, wrVars, LockInv, PgInv, WriteInv, TypeOK
    <3> QED
      BY <3>1, <3>2, <3>3, <3>9, Zenon
  <2>28. ASSUME NEW t \in Txns, FlushActive(t)
        PROVE  LockKept
    <3> SUFFICES ConnInv' /\ WriteInv' /\ ModeInv' /\ PgInv'
      BY Zenon DEF LockKept
    <3>1. Quiet(t, "pending")
      BY <2>28, Zenon DEF FlushActive, connVars, procVars, runVars, wrVars, Goto, Runs, Quiet, LockInv,
         ConnInv, WriteInv, ModeInv, Writing, Locked, Acquiring, Slot, TypeOK
    <3> QED
      BY <3>1, QuietKeeps, Zenon
  <2>29. ASSUME NEW t \in Txns, StorePending(t)
        PROVE  LockKept
    <3> SUFFICES ConnInv' /\ WriteInv' /\ ModeInv' /\ PgInv'
      BY Zenon DEF LockKept
    <3>1. Quiet(t, "unlock")
      BY <2>29 DEF StorePending, hdrVars, procVars, runVars, wrVars, Goto, Runs, Quiet, LockInv,
         ConnInv, WriteInv, ModeInv, Writing, Locked, Acquiring, Slot, TypeOK
    <3> QED
      BY <3>1, QuietKeeps, Zenon
  <2>30. ASSUME NEW t \in Txns, Unlock(t)
        PROVE  LockKept
    <3> SUFFICES ConnInv' /\ WriteInv' /\ ModeInv' /\ PgInv'
      BY Zenon DEF LockKept
    <3>1. ConnInv'
      BY <2>30, Zenon DEF Unlock, connVars, procVars, Goto, Runs, LockInv, ConnInv,
         TypeOK, Slot
    <3>2. WriteInv'
      <4>1. Writing(t)
        BY <2>30, Zenon DEF Unlock, Runs, Writing, Locked
      <4>2. ASSUME NEW u \in Txns, u # t, Writing(u)' PROVE Writing(u)
        BY <2>30, <4>2, Zenon DEF Unlock, Goto, Writing, TypeOK
      <4>3. ~Writing(t)'
        BY <2>30, Zenon DEF Unlock, Goto, Writing, Locked, Acquiring, TypeOK
      <4> QED
        BY <4>1, <4>2, <4>3, WriterAlone, Zenon DEF WriteInv
    <3>3. ModeInv'
      BY <2>30, Zenon DEF Unlock, connVars, procVars, Goto, Runs, LockInv, ModeInv,
         Locked, TypeOK
    <3>9. PgInv'
      BY <2>30, Zenon DEF Unlock, Forget, Runs, wrVars, LockInv, PgInv, WriteInv, TypeOK
    <3> QED
      BY <3>1, <3>2, <3>3, <3>9, Zenon
  <2>31. ASSUME NEW q \in Proc, NEW c \in Conn, IdxOpen(q, c)
        PROVE  LockKept
    <3> SUFFICES ConnInv' /\ WriteInv' /\ ModeInv' /\ PgInv'
      BY Zenon DEF LockKept
    <3>1. ConnInv'
      BY <2>31 DEF IdxOpen, Acquirable, Unlocked, LockInv, ConnInv, TypeOK, Slot
    <3> QED
      BY <3>1, <2>31, Zenon DEF IdxOpen, PgInv, wrVars, hdrVars, runVars, LockInv, WriteInv, ModeInv, PgInv, wrVars,
             Writing,
             Locked
  <2>32. ASSUME NEW q \in Proc, IdxClose(q)
        PROVE  LockKept
    <3> SUFFICES ConnInv' /\ WriteInv' /\ ModeInv' /\ PgInv'
      BY Zenon DEF LockKept
    <3>1. ConnInv'
      BY <2>32 DEF IdxClose, LockInv, ConnInv, TypeOK, Slot
    <3>2. WriteInv'
      BY <2>32 DEF IdxClose, runVars, LockInv, WriteInv, Writing, Locked, Acquiring
    <3> QED
      BY <3>1, <3>2, <2>32, Zenon DEF IdxClose, PgInv, wrVars, runVars, LockInv, ModeInv, Locked
  <2>33. ASSUME NEW q \in Proc, Stat(q)
        PROVE  LockKept
    <3> SUFFICES ConnInv' /\ WriteInv' /\ ModeInv' /\ PgInv'
      BY Zenon DEF LockKept
    <3> QED
      BY <2>33, Zenon DEF Stat, hdrVars, runVars, LockInv, ConnInv, WriteInv, ModeInv, PgInv, wrVars,
               Writing, Locked, Acquiring, Slot
  <2>34. ASSUME NEW q \in Proc, Repair(q)
        PROVE  LockKept
    <3> SUFFICES ConnInv' /\ WriteInv' /\ ModeInv' /\ PgInv'
      BY Zenon DEF LockKept
    <3> QED
      BY <2>34, Zenon DEF Repair, hdrVars, connVars, runVars, LockInv, ConnInv, WriteInv, ModeInv, PgInv, wrVars,
               Writing, Locked, Acquiring, Slot
  <2>35. ASSUME NEW q \in Proc, Crash(q)
        PROVE  LockKept
    <3> SUFFICES ConnInv' /\ WriteInv' /\ ModeInv' /\ PgInv'
      BY Zenon DEF LockKept
    <3>1. \A t \in Txns : IF Owner[t] = q THEN pc'[t] = "none" /\ ro'[t] = FALSE
                                        ELSE pc'[t] = pc[t] /\ ro'[t] = ro[t]
      BY <2>35, Zenon DEF Crash
    <3>2. ConnInv'
      BY <3>1, <2>35 DEF Crash, LockInv, ConnInv, TypeOK, Slot
    <3>3. WriteInv'
      BY <3>1, <2>35, Zenon DEF Crash, LockInv, WriteInv, Writing, Locked, Acquiring
    <3>9. PgInv'
      BY <2>35, Zenon DEF Crash, LockInv, PgInv
    <3> QED
      BY <3>1, <3>2, <3>3, <3>9, Zenon DEF LockInv, ModeInv, Locked
  <2>36. ASSUME NEW t \in Txns, GcBegin(t) \/ GcTake(t)
        PROVE  LockKept
    <3> SUFFICES ConnInv' /\ WriteInv' /\ ModeInv' /\ PgInv'
      BY Zenon DEF LockKept
    <3>1. UNCHANGED <<hdrVars, connVars, procVars, wrVars, ro, pc>>
      BY <2>36, Zenon DEF GcBegin, GcTake
    <3> QED
      BY <3>1, Zenon DEF hdrVars, connVars, procVars, wrVars, LockInv, ConnInv, WriteInv, ModeInv,
             PgInv, Writing, Slot
  <2> HIDE TxnAssumption
  <2>40. LockKept
    BY ONLY <1>1, <2>1, <2>2, <2>3, <2>4, <2>5, <2>6, <2>7, <2>8, <2>9,
            <2>10, <2>11, <2>12, <2>13, <2>14, <2>15, <2>16, <2>17, <2>18,
            <2>19, <2>20, <2>21, <2>22, <2>23, <2>24, <2>25, <2>26, <2>27,
            <2>28, <2>29, <2>30, <2>31, <2>32, <2>33, <2>34, <2>35,
            <2>36, Zenon
    DEF Next, TxnStep, ProcStep, Progress, Work, Close
  <2>41. OneThread'
    BY <1>1, OneThreadStep, Zenon DEF LockInv
  <2> QED
    BY <2>40, <2>41, Zenon DEF LockKept, LockInv
<1>2. CASE UNCHANGED vars
  BY <1>2, Zenon DEF vars, hdrVars, connVars, storeVars, procVars, wrVars, runVars,
              LockInv, PgInv, ConnInv, WriteInv, OneThread, ModeInv, Writing, Slot
<1> QED
  BY <1>1, <1>2, Zenon

LEMMA InitInv == Init => TypeOK /\ LockInv
<1> SUFFICES ASSUME Init PROVE TypeOK /\ LockInv
  BY Zenon
<1>1. TypeOK
  BY TxnAssumption DEF Init, PageStoreInit, TypeOK, PageStoreTypeOK, NoView, DB, Points, GcSteps
<1>2. LockInv
  BY TxnAssumption, Zenon DEF Init, LockInv, ConnInv, WriteInv, OneThread, ModeInv, PgInv,
     Writing, Locked, Acquiring, Idle
<1> QED
  BY <1>1, <1>2, Zenon

(* Every variable keeps its type. *)
THEOREM TypeCorrect == Spec => []TypeOK
<1>1. TypeOK /\ LockInv /\ [Next]_vars => (TypeOK /\ LockInv)'
  BY TypeStep, LockStep, Zenon
<1> QED
  BY InitInv, <1>1, PTL DEF Spec

(* The write lock is held by the one transaction that is past ed_lck in
   ed_txn_open and not yet past the unlock in ed_txn_close; no two processes
   share a slot. *)
THEOREM LockCorrect == Spec => []LockInv
<1>1. TypeOK /\ LockInv /\ [Next]_vars => (TypeOK /\ LockInv)'
  BY TypeStep, LockStep, Zenon
<1> QED
  BY InitInv, <1>1, PTL DEF Spec


-----------------------------------------------------------------------------
(* Every page of the index has one owner: the steps of opening a transaction,
   writing and committing. *)

(* From here on txn->pg is not covered by the slot's pending list. *)
Out == {"setactive", "write", "alloc", "record", "error", "tree", "xid",
        "discard", "closing", "flush", "pending"}

(* Points where the writer changes its copy of the trees. *)
Editing == {"write", "alloc", "record", "error"}

(* Points where hdr->active is empty. *)
NoActive == {"freeactive", "takepending", "setactive", "tree", "xid",
             "discard", "closing", "pending", "unlock"}

(* What a transaction that is not between two list updates holds. *)
Settled(t) ==
  /\ pc[t] \notin {"freeactive", "setactive", "record", "unlock"} => hand[t] = {}
  /\ pc[t] \notin Editing \cup {"tree", "xid", "discard"} => gc[t] = {}
  /\ pc[t] \notin Editing => used[t] = {}
  /\ pc[t] = "none" \/ (pc[t] = "unlock" /\ ~reset[t]) => pg[t] = {}
  /\ pc[t] \notin Out \cup {"none"} => pg[t] \subseteq pend[Slot(t)]

(* What the writer holds is nowhere else. *)
Holds(t) ==
  /\ Disjoint(hand[t], free \cup active \cup Pages(tree) \cup pg[t])
  /\ \A c \in Conn : Disjoint(hand[t], pend[c])
  /\ pc[t] \in Out => /\ Disjoint(pg[t], free \cup Pages(tree))
                      /\ \A c \in Conn \ {Slot(t)} : Disjoint(pg[t], pend[c])
  /\ pc[t] \in Out \ {"flush", "pending"} => pend[Slot(t)] = {}
  /\ pc[t] \in NoActive => active = {}
  /\ pc[t] \in Editing => active \subseteq pg[t]
  /\ pc[t] = "setactive" => hand[t] = {} \/ pg[t] = {}

(* How its view of the trees relates to the committed ones. *)
Edits(t) ==
  /\ Disjoint(view[t][0], view[t][1])
  /\ pc[t] \in {"recover", "freeactive", "takepending", "setactive"} =>
       view[t] = tree
  /\ pc[t] \in Editing =>
       /\ used[t] \subseteq pg[t] /\ \A p \in used[t] : pxid[p] = xid[t]
       /\ Pages(view[t]) \subseteq Pages(tree) \cup used[t]
       /\ gc[t] \subseteq Pages(tree) \ Pages(view[t])
  /\ pc[t] = "tree" =>
       /\ gc[t] \subseteq Pages(tree) \ Pages(view[t])
       /\ Disjoint(Pages(view[t]), free \cup pg[t])
       /\ \A c \in Conn : Disjoint(Pages(view[t]), pend[c])
  /\ pc[t] \in {"xid", "discard", "closing"} => view[t] = tree
  /\ pc[t] \in {"xid", "discard"} =>
       /\ Disjoint(gc[t], free \cup Pages(tree) \cup pg[t])
       /\ \A c \in Conn : Disjoint(gc[t], pend[c])

(* What its roots are before both are loaded. *)
Loads(t) ==
  /\ pc[t] = "load1" /\ ~ro[t] => view[t][0] = tree[0] /\ view[t][1] = {}
  /\ pc[t] \in {"none", "closed", "getxid", "setxid", "load0", "flush", "pending",
               "unlock"} => view[t] = NoView

Good(t) ==
  /\ Settled(t) /\ Loads(t)
  /\ pc[t] \in Locked => Holds(t) /\ Edits(t)

(* What a repairer is going to free is recorded nowhere and held by nobody. *)
Known(p) ==
  \/ p \in free \/ p \in active \/ p \in Pages(tree)
  \/ \E c \in Conn : p \in pend[c]

Has(t, p) ==
  \/ p \in pg[t] \/ p \in hand[t] \/ p \in gc[t]
  \/ pc[t] \in Locked /\ p \in Pages(view[t])

LeakInv ==
  \A q \in Proc, p \in Page :
    p \in leaks[q] =>
      q \in Repairers /\ ~Known(p) /\ \A t \in Txns : ~Has(t, p)

(* The inductive invariant behind OneOwner. *)
PageInv == OneOwner /\ LeakInv /\ \A t \in Txns : Good(t)

Sound == TypeOK /\ LockInv /\ PageInv

PageKept == PageInv'

-----------------------------------------------------------------------------
(* What the transaction objects other than the one that moves may rely on. *)
Others(t) ==
  \A u \in Txns \ {t} :
    /\ pc'[u] = pc[u] /\ ro'[u] = ro[u] /\ reset'[u] = reset[u] /\ xid'[u] = xid[u]
    /\ hand'[u] = hand[u] /\ gc'[u] = gc[u] /\ used'[u] = used[u]
    /\ pg'[u] = pg[u] /\ view'[u] = view[u]
    /\ conn'[Owner[u]] = conn[Owner[u]]
    /\ pg[u] # {} => pend'[Slot(u)] = pend[Slot(u)]

(* Pages move only between the places of PageInv. *)
Conserved(t) ==
  /\ leaks' = leaks
  /\ \A p \in Page : Known(p)' \/ Has(t, p)' => Known(p) \/ Has(t, p)

LEMMA LeakFrame ==
  ASSUME LeakInv, NEW t \in Txns, Others(t), Conserved(t)
  PROVE  LeakInv'
<1>1. \A u \in Txns \ {t}, p \in Page : Has(u, p)' = Has(u, p)
  BY Zenon DEF Others, Has
<1> QED
  BY <1>1, Zenon DEF LeakInv, Conserved

(* A step of the one transaction that writes. *)
LEMMA WriterStep ==
  ASSUME Sound, NEW t \in Txns, Writing(t),
         Others(t), Conserved(t), OneOwner', Good(t)'
  PROVE  PageKept
<1> SUFFICES ASSUME LockInv, PageInv PROVE PageInv'
  BY Zenon DEF Sound, PageKept
<1>1. ASSUME NEW u \in Txns \ {t} PROVE Good(u)'
  <2>1. ~Writing(u)
    BY WriterAlone, Zenon
  <2>2. Good(u)
    BY Zenon DEF PageInv
  <2>3. Slot(u)' = Slot(u)
    BY Zenon DEF Others, Slot
  <2>4. /\ pc'[u] = pc[u] /\ ro'[u] = ro[u] /\ reset'[u] = reset[u] /\ view'[u] = view[u]
        /\ hand'[u] = hand[u] /\ gc'[u] = gc[u] /\ used'[u] = used[u] /\ pg'[u] = pg[u]
        /\ pg[u] # {} => pend'[Slot(u)] = pend[Slot(u)]
    BY Zenon DEF Others
  <2>5. Settled(u)'
    BY <2>2, <2>3, <2>4, Zenon DEF Good, Settled
  <2>6. Loads(u)'
    <3>1. pc[u] = "load1" => ro[u]
      BY <2>1, Zenon DEF Writing, Acquiring
    <3> QED
      BY <2>2, <2>4, <3>1, Zenon DEF Good, Loads
  <2>7. pc'[u] \notin Locked
    BY <2>1, <2>4, Zenon DEF Writing
  <2> QED
    BY <2>5, <2>6, <2>7, Zenon DEF Good
<1>2. LeakInv'
  BY LeakFrame, Zenon DEF PageInv
<1> QED
  BY <1>1, <1>2, Zenon DEF PageInv

(* A step that leaves the durable places alone. *)
LEMMA QuietStep ==
  ASSUME Sound, NEW t \in Txns, Others(t), Good(t)',
         UNCHANGED <<free, active, tree, pend, leaks>>, pxid' = pxid \/ Writing(t),
         \A p \in Page : Has(t, p)' => Known(p) \/ Has(t, p)
  PROVE  PageKept
<1> SUFFICES ASSUME LockInv, PageInv PROVE PageInv'
  BY Zenon DEF Sound, PageKept
<1>1. ASSUME NEW u \in Txns \ {t} PROVE Good(u)'
  <2>1. Good(u) /\ Slot(u)' = Slot(u)
    BY Zenon DEF PageInv, Others, Slot
  <2>2. Settled(u)' /\ Loads(u)'
    BY <2>1, Zenon DEF Others, Good, Settled, Loads
  <2>3. pc'[u] \in Locked => Holds(u)'
    BY <2>1, Zenon DEF Others, Good, Holds
  <2>4. pc[u] \in Locked => pxid' = pxid
    BY WriterAlone, Zenon DEF Writing
  <2>5. pc'[u] \in Locked => Edits(u)'
    BY <2>1, <2>4, Zenon DEF Others, Good, Edits
  <2> QED
    BY <2>2, <2>3, <2>5, Zenon DEF Good
<1>2. Conserved(t)
  BY Zenon DEF Conserved, Known
<1>3. OneOwner'
  BY Zenon DEF PageInv, OneOwner
<1> QED
  BY <1>1, <1>2, <1>3, LeakFrame, Zenon DEF PageInv

(* The slot of an object that has pages is locked, and is not the writer's. *)
LEMMA PendFrame ==
  ASSUME Sound, NEW t \in Txns, t \in Writers, pc[t] # "none",
         NEW u \in Txns \ {t}, pg[u] # {}
  PROVE  Slot(u) \in Conn /\ Slot(u) # Slot(t) /\ ~Unlocked(Slot(u))
<1> TypeOK /\ LockInv /\ PageInv
  BY Zenon DEF Sound
<1>1. Good(u)
  BY Zenon DEF PageInv
<1>2. u \in Writers /\ pc[u] # "none"
  BY <1>1, Zenon DEF Good, Settled, LockInv, PgInv
<1> QED
  BY <1>2, SlotInConn, TxnAssumption, Zenon DEF Unlocked

-----------------------------------------------------------------------------
LEMMA TxnNewStep ==
  ASSUME Sound, NEW t \in Txns, TxnNew(t)
  PROVE  PageKept
<1> TypeOK /\ LockInv /\ PageInv
  BY Zenon DEF Sound
<1>1. /\ pc[t] = "none" /\ pc'[t] = "closed"
      /\ UNCHANGED <<free, active, tree, pend, leaks, conn, pg, used, gc, hand,
                    view, ro, reset, xid, pxid>>
  BY Zenon DEF TxnNew, hdrVars, connVars, storeVars, procVars, wrVars,
     runVars, Goto, Runs, TypeOK
<1>2. Settled(t) /\ Loads(t) /\ OneOwner
  BY Zenon DEF PageInv, Good
<1>3. Slot(t)' = Slot(t)
  BY <1>1, Zenon DEF Slot
<1>4. Others(t)
  BY <1>1, Zenon DEF TxnNew, Goto, Others, Slot, TypeOK
<1>6. Settled(t)' /\ Loads(t)'
  BY <1>1, <1>2, <1>3, Zenon DEF Settled, Loads, Holds, NoView, DB, Closable, Out,
     Editing, NoActive
<1>7. pc'[t] \notin Locked
  BY <1>1, Zenon DEF Locked
<1>8. \A x \in Page : Has(t, x)' => Known(x) \/ Has(t, x)
  BY <1>1, <1>2, <1>3, Zenon DEF Has, Known, Locked, Settled, Loads, NoView, Pages,
     DB
<1> QED
  BY <1>1, <1>2, <1>4, <1>6, <1>7, <1>8, QuietStep, Zenon DEF Good

LEMMA OpenReadStep ==
  ASSUME Sound, NEW t \in Txns, OpenRead(t)
  PROVE  PageKept
<1> TypeOK /\ LockInv /\ PageInv
  BY Zenon DEF Sound
<1>1. /\ pc[t] = "closed" /\ pc'[t] = "getxid"
      /\ ro'[t] = TRUE
      /\ UNCHANGED <<free, active, tree, pend, leaks, conn, pg, used, gc, hand,
                    view, reset, xid, pxid>>
  BY Zenon DEF OpenRead, hdrVars, connVars, storeVars, procVars, wrVars, Goto,
     Runs, TypeOK
<1>2. Settled(t) /\ Loads(t) /\ OneOwner
  BY Zenon DEF PageInv, Good
<1>3. Slot(t)' = Slot(t)
  BY <1>1, Zenon DEF Slot
<1>4. Others(t)
  BY <1>1, Zenon DEF OpenRead, Goto, Others, Slot, TypeOK
<1>6. Settled(t)' /\ Loads(t)'
  BY <1>1, <1>2, <1>3, Zenon DEF Settled, Loads, Holds, NoView, DB, Closable, Out,
     Editing, NoActive
<1>7. pc'[t] \notin Locked
  BY <1>1, Zenon DEF Locked
<1>8. \A x \in Page : Has(t, x)' => Known(x) \/ Has(t, x)
  BY <1>1, <1>2, <1>3, Zenon DEF Has, Known, Locked, Settled, Loads, NoView, Pages,
     DB
<1> QED
  BY <1>1, <1>2, <1>4, <1>6, <1>7, <1>8, QuietStep, Zenon DEF Good

LEMMA OpenWriteStep ==
  ASSUME Sound, NEW t \in Txns, OpenWrite(t)
  PROVE  PageKept
<1> TypeOK /\ LockInv /\ PageInv
  BY Zenon DEF Sound
<1>1. /\ pc[t] = "closed" /\ pc'[t] = "getxid"
      /\ ro'[t] = FALSE
      /\ UNCHANGED <<free, active, tree, pend, leaks, conn, pg, used, gc, hand,
                    view, reset, xid, pxid>>
  BY Zenon DEF OpenWrite, EdLck, connVars, storeVars, procVars, wrVars, Goto, Runs,
     TypeOK
<1>2. Settled(t) /\ Loads(t) /\ OneOwner
  BY Zenon DEF PageInv, Good
<1>3. Slot(t)' = Slot(t)
  BY <1>1, Zenon DEF Slot
<1>4. Others(t)
  BY <1>1, Zenon DEF OpenWrite, EdLck, Goto, Others, Slot, TypeOK
<1>6. Settled(t)' /\ Loads(t)'
  BY <1>1, <1>2, <1>3, Zenon DEF Settled, Loads, Holds, NoView, DB, Closable, Out,
     Editing, NoActive
<1>7. pc'[t] \notin Locked
  BY <1>1, Zenon DEF Locked
<1>8. \A x \in Page : Has(t, x)' => Known(x) \/ Has(t, x)
  BY <1>1, <1>2, <1>3, Zenon DEF Has, Known, Locked, Settled, Loads, NoView, Pages,
     DB
<1> QED
  BY <1>1, <1>2, <1>4, <1>6, <1>7, <1>8, QuietStep, Zenon DEF Good

LEMMA GetXidStep ==
  ASSUME Sound, NEW t \in Txns, GetXid(t)
  PROVE  PageKept
<1> TypeOK /\ LockInv /\ PageInv
  BY Zenon DEF Sound
<1>1. /\ pc[t] = "getxid" /\ pc'[t] = "setxid"
      /\ UNCHANGED <<free, active, tree, pend, leaks, conn, pg, used, gc, hand,
                    view, ro, reset, xid, pxid>>
  BY Zenon DEF GetXid, hdrVars, connVars, storeVars, procVars, wrVars, Goto,
     Runs, TypeOK
<1>2. Settled(t) /\ Loads(t) /\ OneOwner
  BY Zenon DEF PageInv, Good
<1>3. Slot(t)' = Slot(t)
  BY <1>1, Zenon DEF Slot
<1>4. Others(t)
  BY <1>1, Zenon DEF GetXid, Goto, Others, Slot, TypeOK
<1>6. Settled(t)' /\ Loads(t)'
  BY <1>1, <1>2, <1>3, Zenon DEF Settled, Loads, Holds, NoView, DB, Closable, Out,
     Editing, NoActive
<1>7. pc'[t] \notin Locked
  BY <1>1, Zenon DEF Locked
<1>8. \A x \in Page : Has(t, x)' => Known(x) \/ Has(t, x)
  BY <1>1, <1>2, <1>3, Zenon DEF Has, Known, Locked, Settled, Loads, NoView, Pages,
     DB
<1> QED
  BY <1>1, <1>2, <1>4, <1>6, <1>7, <1>8, QuietStep, Zenon DEF Good

LEMMA SetXidStep ==
  ASSUME Sound, NEW t \in Txns, SetXid(t)
  PROVE  PageKept
<1> TypeOK /\ LockInv /\ PageInv
  BY Zenon DEF Sound
<1>1. /\ pc[t] = "setxid" /\ pc'[t] = "load0"
      /\ UNCHANGED <<free, active, tree, pend, leaks, conn, pg, used, gc, hand,
                    view, ro, reset, xid, pxid>>
  BY Zenon DEF SetXid, hdrVars, storeVars, procVars, wrVars, Goto, Runs,
     TypeOK
<1>2. Settled(t) /\ Loads(t) /\ OneOwner
  BY Zenon DEF PageInv, Good
<1>3. Slot(t)' = Slot(t)
  BY <1>1, Zenon DEF Slot
<1>4. Others(t)
  BY <1>1, Zenon DEF SetXid, Goto, Others, Slot, TypeOK
<1>6. Settled(t)' /\ Loads(t)'
  BY <1>1, <1>2, <1>3, Zenon DEF Settled, Loads, Holds, NoView, DB, Closable, Out,
     Editing, NoActive
<1>7. pc'[t] \notin Locked
  BY <1>1, Zenon DEF Locked
<1>8. \A x \in Page : Has(t, x)' => Known(x) \/ Has(t, x)
  BY <1>1, <1>2, <1>3, Zenon DEF Has, Known, Locked, Settled, Loads, NoView, Pages,
     DB
<1> QED
  BY <1>1, <1>2, <1>4, <1>6, <1>7, <1>8, QuietStep, Zenon DEF Good

LEMMA LoadRoot0Step ==
  ASSUME Sound, NEW t \in Txns, LoadRoot0(t)
  PROVE  PageKept
<1> TypeOK /\ LockInv /\ PageInv
  BY Zenon DEF Sound
<1>1. /\ pc[t] = "load0" /\ pc'[t] = "load1"
      /\ view'[t][0] = tree[0] /\ view'[t][1] = view[t][1]
      /\ UNCHANGED <<free, active, tree, pend, leaks, conn, pg, used, gc, hand,
                    ro, reset, xid, pxid>>
  BY DEF LoadRoot0, hdrVars, connVars, storeVars, procVars, wrVars, runVars,
     Goto, Runs, TypeOK, DB
<1>2. Settled(t) /\ Loads(t) /\ OneOwner
  BY Zenon DEF PageInv, Good
<1>3. Slot(t)' = Slot(t)
  BY <1>1, Zenon DEF Slot
<1>4. Others(t)
  BY <1>1, Zenon DEF LoadRoot0, Goto, Others, Slot, TypeOK
<1>6. Settled(t)' /\ Loads(t)'
  BY <1>1, <1>2, <1>3, Zenon DEF Settled, Loads, Holds, NoView, DB, Closable, Out,
     Editing, NoActive
<1>7. pc'[t] \notin Locked
  BY <1>1, Zenon DEF Locked
<1>8. \A x \in Page : Has(t, x)' => Known(x) \/ Has(t, x)
  BY <1>1, <1>2, <1>3, Zenon DEF Has, Known, Locked, Settled, Loads, NoView, Pages,
     DB
<1> QED
  BY <1>1, <1>2, <1>4, <1>6, <1>7, <1>8, QuietStep, Zenon DEF Good

LEMMA LoadRoot1Step ==
  ASSUME Sound, NEW t \in Txns, LoadRoot1(t)
  PROVE  PageKept
<1> TypeOK /\ LockInv /\ PageInv
  BY Zenon DEF Sound
<1>1. /\ pc[t] = "load1" /\ pc'[t] = IF ro[t] THEN "open" ELSE "recover"
      /\ view'[t][0] = view[t][0] /\ view'[t][1] = tree[1]
      /\ tree \in [DB -> SUBSET Page] /\ view'[t] \in [DB -> SUBSET Page]
      /\ UNCHANGED <<free, active, tree, pend, leaks, conn, pg, used, gc, hand,
                    ro, reset, pxid>>
  BY DEF LoadRoot1, hdrVars, connVars, storeVars, procVars, runVars, Goto,
     Runs, TypeOK, DB
<1>2. Settled(t) /\ Loads(t) /\ OneOwner
  BY Zenon DEF PageInv, Good
<1>3. Slot(t)' = Slot(t)
  BY <1>1, Zenon DEF Slot
<1>4. Others(t)
  BY <1>1 DEF LoadRoot1, Goto, Others, Slot
<1>6. Settled(t)' /\ Loads(t)'
  BY <1>1, <1>2, <1>3, Zenon DEF Settled, Loads, Holds, NoView, DB, Closable, Out,
     Editing, NoActive
<1>7. pc'[t] \in Locked => Holds(t)' /\ Edits(t)'
  <2>1. pc'[t] \in Locked => Holds(t)'
    BY <1>1, <1>2, <1>3, Zenon DEF Holds, Settled, Locked, Disjoint, Out, Editing, NoActive
  <2>2. ASSUME ~ro[t] PROVE view'[t] = tree
    <3>1. \A d \in DB : view'[t][d] = tree[d]
      BY <1>1, <1>2, <2>2, Zenon DEF Loads, DB
    <3> QED
      BY <1>1, <3>1
  <2>3. pc'[t] \in Locked => Edits(t)'
    BY <1>1, <1>2, <2>2, Zenon DEF Edits, Editing, OneOwner, Locked
  <2> QED
    BY <2>1, <2>3, Zenon
<1>8. \A x \in Page : Has(t, x)' => Known(x) \/ Has(t, x)
  BY <1>1, <1>2, <1>3, Zenon DEF Has, Known, Locked, Settled, Loads, NoView, Pages,
     DB
<1> QED
  BY <1>1, <1>2, <1>4, <1>6, <1>7, <1>8, QuietStep, Zenon DEF Good

LEMMA LoadFailsStep ==
  ASSUME Sound, NEW t \in Txns, LoadFails(t)
  PROVE  PageKept
<1> TypeOK /\ LockInv /\ PageInv
  BY Zenon DEF Sound
<1>1. /\ pc[t] \in {"load0", "load1"} /\ pc'[t] = "closed"
      /\ view'[t] = NoView
      /\ ro'[t] = FALSE
      /\ UNCHANGED <<free, active, tree, pend, leaks, conn, pg, used, gc, hand,
                    reset, xid, pxid>>
  BY Zenon DEF LoadFails, hdrVars, storeVars, procVars, wrVars, Goto, Runs,
     TypeOK
<1>2. Settled(t) /\ Loads(t) /\ OneOwner
  BY Zenon DEF PageInv, Good
<1>3. Slot(t)' = Slot(t)
  BY <1>1, Zenon DEF Slot
<1>4. Others(t)
  BY <1>1, Zenon DEF LoadFails, Goto, Others, Slot, TypeOK
<1>6. Settled(t)' /\ Loads(t)'
  BY <1>1, <1>2, <1>3, Zenon DEF Settled, Loads, Holds, NoView, DB, Closable, Out,
     Editing, NoActive
<1>7. pc'[t] \notin Locked
  BY <1>1, Zenon DEF Locked
<1>8. \A x \in Page : Has(t, x)' => Known(x) \/ Has(t, x)
  BY <1>1, <1>2, <1>3, Zenon DEF Has, Known, Locked, Settled, Loads, NoView, Pages,
     DB
<1> QED
  BY <1>1, <1>2, <1>4, <1>6, <1>7, <1>8, QuietStep, Zenon DEF Good

LEMMA RecoverActiveStep ==
  ASSUME Sound, NEW t \in Txns, RecoverActive(t)
  PROVE  PageKept
<1> TypeOK /\ LockInv /\ PageInv
  BY Zenon DEF Sound
<1>1. /\ pc[t] = "recover" /\ pc'[t] = "freeactive"
      /\ hand'[t] = active
      /\ active' = {}
      /\ UNCHANGED <<free, tree, pend, leaks, conn, pg, used, gc, view, ro,
                    reset, xid, pxid>>
  BY Zenon DEF RecoverActive, connVars, storeVars, procVars, runVars, Goto,
     Runs, TypeOK
<1>2. Writing(t) /\ Settled(t) /\ Loads(t) /\ Holds(t) /\ Edits(t) /\ OneOwner
  BY <1>1, Zenon DEF PageInv, Good, Locked, Writing
<1>3. Slot(t) \in Conn /\ Slot(t)' = Slot(t) /\ t \in Writers
  BY <1>1, <1>2, SlotInConn, Zenon DEF Slot, LockInv, WriteInv
<1>4. Others(t)
  BY <1>1, Zenon DEF RecoverActive, Goto, Others, Slot, TypeOK
<1>5. OneOwner'
  BY <1>1, <1>2, <1>3, Zenon DEF OneOwner, Holds, Edits, Disjoint, Pages, Out,
     Editing, NoActive
<1>6. Settled(t)' /\ Loads(t)'
  BY <1>1, <1>2, <1>3, Zenon DEF Settled, Loads, Holds, NoView, DB, Closable, Out,
     Editing, NoActive
<1>7. pc'[t] \in Locked => Holds(t)' /\ Edits(t)'
  <2>1. pc'[t] \in Locked => Holds(t)'
    BY <1>1, <1>2, <1>3, Zenon DEF Holds, OneOwner, Edits, Disjoint, Pages, Settled,
       Loads, Out, Editing, NoActive
  <2>2. pc'[t] \in Locked => Edits(t)'
    BY <1>1, <1>2, <1>3, Zenon DEF Edits, Editing, OneOwner, Holds, Settled, Loads,
       NoView, DB, Disjoint, Pages, Out
  <2> QED
    BY <2>1, <2>2, Zenon
<1>8. Conserved(t)
  BY <1>1, <1>2, <1>3, Zenon DEF Conserved, Has, Known, Locked, Holds, Edits, Pages,
     Out, Editing, NoActive, NoView, DB
<1> QED
  BY <1>2, <1>4, <1>5, <1>6, <1>7, <1>8, WriterStep, Zenon DEF Good

LEMMA FreeActiveStep ==
  ASSUME Sound, NEW t \in Txns, FreeActive(t)
  PROVE  PageKept
<1> TypeOK /\ LockInv /\ PageInv
  BY Zenon DEF Sound
<1>s. free' = free \/ free' = free \cup hand[t]
  BY GiveBackFacts, Zenon DEF FreeActive, GiveBack, TypeOK
<1>1. /\ pc[t] = "freeactive" /\ pc'[t] = "takepending"
      /\ hand'[t] = {}
      /\ free' = free \/ free' = free \cup hand[t]
      /\ UNCHANGED <<active, tree, pend, leaks, conn, pg, used, gc, view, ro,
                    reset, xid>>
  BY <1>s, Zenon DEF FreeActive, hdrVars, connVars, procVars, runVars, Goto,
     Runs, TypeOK
<1>2. Writing(t) /\ Settled(t) /\ Loads(t) /\ Holds(t) /\ Edits(t) /\ OneOwner
  BY <1>1, Zenon DEF PageInv, Good, Locked, Writing
<1>3. Slot(t) \in Conn /\ Slot(t)' = Slot(t) /\ t \in Writers
  BY <1>1, <1>2, SlotInConn, Zenon DEF Slot, LockInv, WriteInv
<1>4. Others(t)
  BY <1>1, Zenon DEF FreeActive, Goto, Others, Slot, TypeOK
<1>5. OneOwner'
  BY <1>1, <1>2, <1>3, Zenon DEF OneOwner, Holds, Edits, Disjoint, Pages, Out,
     Editing, NoActive
<1>6. Settled(t)' /\ Loads(t)'
  BY <1>1, <1>2, <1>3, Zenon DEF Settled, Loads, Holds, NoView, DB, Closable, Out,
     Editing, NoActive
<1>7. pc'[t] \in Locked => Holds(t)' /\ Edits(t)'
  <2>1. pc'[t] \in Locked => Holds(t)'
    BY <1>1, <1>2, <1>3, Zenon DEF Holds, OneOwner, Edits, Disjoint, Pages, Settled,
       Loads, Out, Editing, NoActive
  <2>2. pc'[t] \in Locked => Edits(t)'
    BY <1>1, <1>2, <1>3, Zenon DEF Edits, Editing, OneOwner, Holds, Settled, Loads,
       NoView, DB, Disjoint, Pages, Out
  <2> QED
    BY <2>1, <2>2, Zenon
<1>8. Conserved(t)
  BY <1>1, <1>2, <1>3, Zenon DEF Conserved, Has, Known, Locked, Holds, Edits, Pages,
     Out, Editing, NoActive, NoView, DB
<1> QED
  BY <1>2, <1>4, <1>5, <1>6, <1>7, <1>8, WriterStep, Zenon DEF Good

LEMMA FreeActiveFailsStep ==
  ASSUME Sound, NEW t \in Txns, FreeActiveFails(t)
  PROVE  PageKept
<1> TypeOK /\ LockInv /\ PageInv
  BY Zenon DEF Sound
<1>1. /\ pc[t] = "freeactive" /\ pc'[t] = "closed"
      /\ hand'[t] = {}
      /\ view'[t] = NoView
      /\ active' = hand[t]
      /\ UNCHANGED <<free, tree, pend, leaks, conn, pg, used, gc, ro, reset,
                    xid, pxid>>
  BY Zenon DEF FreeActiveFails, connVars, storeVars, procVars, runVars, Goto,
     Runs, TypeOK
<1>2. Writing(t) /\ Settled(t) /\ Loads(t) /\ Holds(t) /\ Edits(t) /\ OneOwner
  BY <1>1, Zenon DEF PageInv, Good, Locked, Writing
<1>3. Slot(t) \in Conn /\ Slot(t)' = Slot(t) /\ t \in Writers
  BY <1>1, <1>2, SlotInConn, Zenon DEF Slot, LockInv, WriteInv
<1>4. Others(t)
  BY <1>1, Zenon DEF FreeActiveFails, Goto, Others, Slot, TypeOK
<1>5. OneOwner'
  BY <1>1, <1>2, <1>3, Zenon DEF OneOwner, Holds, Edits, Disjoint, Pages, Out,
     Editing, NoActive
<1>6. Settled(t)' /\ Loads(t)'
  BY <1>1, <1>2, <1>3, Zenon DEF Settled, Loads, Holds, NoView, DB, Closable, Out,
     Editing, NoActive
<1>7. pc'[t] \notin Locked
  BY <1>1, Zenon DEF Locked
<1>8. Conserved(t)
  BY <1>1, <1>2, <1>3, Zenon DEF Conserved, Has, Known, Locked, Holds, Edits, Pages,
     Out, Editing, NoActive, NoView, DB
<1> QED
  BY <1>2, <1>4, <1>5, <1>6, <1>7, <1>8, WriterStep, Zenon DEF Good

LEMMA TakePendingStep ==
  ASSUME Sound, NEW t \in Txns, TakePending(t)
  PROVE  PageKept
<1> TypeOK /\ LockInv /\ PageInv
  BY Zenon DEF Sound
<1>s. Slot(t) \in Conn
  BY SlotInConn, Zenon DEF TakePending, Runs
<1>1. /\ pc[t] = "takepending" /\ pc'[t] = "setactive"
      /\ hand'[t] = IF pg[t] = {} THEN pend[Slot(t)] ELSE {}
      /\ pend'[Slot(t)] = {}
      /\ \A c \in Conn \ {Slot(t)} : pend'[c] = pend[c]
      /\ UNCHANGED <<free, active, tree, leaks, conn, pg, used, gc, view, ro,
                    reset, xid, pxid>>
  BY <1>s, Zenon DEF TakePending, hdrVars, storeVars, procVars, runVars,
     Goto, Inactive, Runs, TypeOK
<1>2. Writing(t) /\ Settled(t) /\ Loads(t) /\ Holds(t) /\ Edits(t) /\ OneOwner
  BY <1>1, Zenon DEF PageInv, Good, Locked, Writing
<1>3. Slot(t) \in Conn /\ Slot(t)' = Slot(t) /\ t \in Writers
  BY <1>1, <1>2, SlotInConn, Zenon DEF Slot, LockInv, WriteInv
<1>u. ASSUME NEW u \in Txns \ {t}, pg[u] # {}
      PROVE  pend'[Slot(u)] = pend[Slot(u)]
  <2>1. Slot(u) \in Conn /\ Slot(u) # Slot(t) /\ ~Unlocked(Slot(u))
    BY <1>u, <1>1, <1>3, PendFrame, Zenon
  <2> QED
    BY <2>1, <1>1, Zenon
<1>4. Others(t)
  BY <1>1, <1>u DEF TakePending, Goto, Others
<1>5. OneOwner'
  BY <1>1, <1>2, Zenon DEF OneOwner, Disjoint
<1>6. Settled(t)' /\ Loads(t)'
  BY <1>1, <1>2, <1>3, Zenon DEF Settled, Loads, Holds, NoView, DB, Closable, Out,
     Editing, NoActive
<1>7. pc'[t] \in Locked => Holds(t)' /\ Edits(t)'
  <2>1. pc'[t] \in Locked => Holds(t)'
    BY <1>1, <1>2, <1>3, Zenon DEF Holds, OneOwner, Edits, Disjoint, Pages, Settled,
       Loads, Out, Editing, NoActive
  <2>2. pc'[t] \in Locked => Edits(t)'
    BY <1>1, <1>2, <1>3, Zenon DEF Edits, Editing, OneOwner, Holds, Settled, Loads,
       NoView, DB, Disjoint, Pages, Out
  <2> QED
    BY <2>1, <2>2, Zenon
<1>8. Conserved(t)
  BY <1>1, <1>2, <1>3, Zenon DEF Conserved, Has, Known, Locked, Holds, Edits, Pages,
     Out, Editing, NoActive, NoView, DB
<1> QED
  BY <1>2, <1>4, <1>5, <1>6, <1>7, <1>8, WriterStep, Zenon DEF Good

LEMMA SetActiveStep ==
  ASSUME Sound, NEW t \in Txns, SetActive(t)
  PROVE  PageKept
<1> TypeOK /\ LockInv /\ PageInv
  BY Zenon DEF Sound
<1>s. free' = free \/ free' = free \cup hand[t]
  BY GiveBackFacts, Zenon DEF SetActive, GiveBack, TypeOK
<1>1. /\ pc[t] = "setactive" /\ pc'[t] = "write"
      /\ hand'[t] = {}
      /\ free' = free \/ free' = free \cup hand[t]
      /\ active' = IF pg[t] = {} THEN active ELSE pg[t]
      /\ UNCHANGED <<tree, pend, leaks, conn, pg, used, gc, view, ro, reset, xid>>
  BY <1>s, Zenon DEF SetActive, connVars, procVars, runVars, Goto, Runs,
     TypeOK
<1>2. Writing(t) /\ Settled(t) /\ Loads(t) /\ Holds(t) /\ Edits(t) /\ OneOwner
  BY <1>1, Zenon DEF PageInv, Good, Locked, Writing
<1>3. Slot(t) \in Conn /\ Slot(t)' = Slot(t) /\ t \in Writers
  BY <1>1, <1>2, SlotInConn, Zenon DEF Slot, LockInv, WriteInv
<1>4. Others(t)
  BY <1>1, Zenon DEF SetActive, Goto, Others, Slot, TypeOK
<1>5. OneOwner'
  BY <1>1, <1>2, <1>3, Zenon DEF OneOwner, Holds, Edits, Disjoint, Pages, Out,
     Editing, NoActive
<1>6. Settled(t)' /\ Loads(t)'
  BY <1>1, <1>2, <1>3, Zenon DEF Settled, Loads, Holds, NoView, DB, Closable, Out,
     Editing, NoActive
<1>7. pc'[t] \in Locked => Holds(t)' /\ Edits(t)'
  <2>1. pc'[t] \in Locked => Holds(t)'
    BY <1>1, <1>2, <1>3, Zenon DEF Holds, OneOwner, Edits, Disjoint, Pages, Settled,
       Loads, Out, Editing, NoActive
  <2>2. pc'[t] \in Locked => Edits(t)'
    BY <1>1, <1>2, <1>3, Zenon DEF Edits, Editing, OneOwner, Holds, Settled, Loads,
       NoView, DB, Disjoint, Pages, Out
  <2> QED
    BY <2>1, <2>2, Zenon
<1>8. Conserved(t)
  BY <1>1, <1>2, <1>3, Zenon DEF Conserved, Has, Known, Locked, Holds, Edits, Pages,
     Out, Editing, NoActive, NoView, DB
<1> QED
  BY <1>2, <1>4, <1>5, <1>6, <1>7, <1>8, WriterStep, Zenon DEF Good

-----------------------------------------------------------------------------
LEMMA XminBeginStep ==
  ASSUME Sound, NEW t \in Txns, XminBegin(t)
  PROVE  PageKept
<1> TypeOK /\ LockInv /\ PageInv
  BY Zenon DEF Sound
<1>1. /\ pc[t] = "write" /\ pc'[t] = "alloc"
      /\ UNCHANGED <<free, active, tree, pend, leaks, conn, pg, used, gc, hand,
                    view, ro, reset, xid, pxid>>
  BY Zenon DEF XminBegin, hdrVars, connVars, storeVars, procVars, wrVars,
     Goto, Runs, TypeOK
<1>2. Writing(t) /\ Settled(t) /\ Loads(t) /\ Holds(t) /\ Edits(t) /\ OneOwner
  BY <1>1, Zenon DEF PageInv, Good, Locked, Writing
<1>3. Slot(t) \in Conn /\ Slot(t)' = Slot(t) /\ t \in Writers
  BY <1>1, <1>2, SlotInConn, Zenon DEF Slot, LockInv, WriteInv
<1>4. Others(t)
  BY <1>1, Zenon DEF XminBegin, Goto, Others, Slot, TypeOK
<1>6. Settled(t)' /\ Loads(t)'
  BY <1>1, <1>2, <1>3, Zenon DEF Settled, Loads, Holds, NoView, DB, Closable, Out,
     Editing, NoActive
<1>7. pc'[t] \in Locked => Holds(t)' /\ Edits(t)'
  <2>1. pc'[t] \in Locked => Holds(t)'
    BY <1>1, <1>2, <1>3, Zenon DEF Holds, Settled, Loads, Out, Editing, NoActive
  <2>2. pc'[t] \in Locked => Edits(t)'
    BY <1>1, <1>2, <1>3, Zenon DEF Edits, Editing
  <2> QED
    BY <2>1, <2>2, Zenon
<1>8. \A x \in Page : Has(t, x)' => Known(x) \/ Has(t, x)
  BY <1>1, <1>2, <1>3, Zenon DEF Has, Known, Locked, Settled, Loads, NoView, Pages,
     DB
<1> QED
  BY <1>1, <1>2, <1>4, <1>6, <1>7, <1>8, QuietStep, Zenon DEF Good

LEMMA XminSlotStep ==
  ASSUME Sound, NEW t \in Txns, NEW c \in Conn, XminSlot(t, c)
  PROVE  PageKept
<1> TypeOK /\ LockInv /\ PageInv
  BY Zenon DEF Sound
<1>s. \/ pend' = pend
      \/ pend' = [pend EXCEPT ![c] = {}] /\ Unlocked(c) /\ c # Slot(t)
  BY Zenon DEF XminSlot
<1>1. /\ pc[t] \in {"alloc"} \cup FreePoints /\ pc'[t] = pc[t]
      /\ \A x \in Conn : pend'[x] \subseteq pend[x]
      /\ UNCHANGED <<pc, free, active, tree, leaks, conn, pg, used, gc, hand, view,
                    ro, reset, xid, pxid>>
  BY <1>s, Zenon DEF XminSlot, Scans, hdrVars, storeVars, procVars, wrVars, Runs,
     TypeOK
<1>2. Writing(t) /\ Settled(t) /\ Loads(t) /\ Holds(t) /\ Edits(t) /\ OneOwner
  BY <1>1, Zenon DEF PageInv, Good, Locked, Writing, FreePoints
<1>3. /\ Slot(t) \in Conn /\ Slot(t)' = Slot(t) /\ t \in Writers
      /\ pend'[Slot(t)] = pend[Slot(t)]
  <2>1. Slot(t) \in Conn
    BY <1>1, SlotInConn, Zenon DEF FreePoints
  <2> QED
    BY <2>1, <1>s, <1>1, <1>2, Zenon DEF Slot, LockInv, WriteInv, TypeOK
<1>u. ASSUME NEW u \in Txns \ {t}, pg[u] # {}
      PROVE  pend'[Slot(u)] = pend[Slot(u)]
  <2>1. Slot(u) \in Conn /\ Slot(u) # Slot(t) /\ ~Unlocked(Slot(u))
    BY <1>u, <1>1, <1>3, PendFrame, Zenon DEF FreePoints
  <2> QED
    BY <2>1, <1>s, Zenon DEF TypeOK
<1>4. Others(t)
  BY <1>1, <1>u, Zenon DEF Others
<1>5. OneOwner'
  BY <1>1, <1>2, Zenon DEF OneOwner, Disjoint
<1>6. Settled(t)' /\ Loads(t)'
  BY <1>1, <1>2, <1>3, Zenon DEF Settled, Loads
<1>7. pc'[t] \in Locked => Holds(t)' /\ Edits(t)'
  <2>1. pc'[t] \in Locked => Holds(t)'
    BY <1>1, <1>2, <1>3, Zenon DEF Holds, Disjoint
  <2>2. pc'[t] \in Locked => Edits(t)'
    BY <1>1, <1>2, Zenon DEF Edits, Disjoint
  <2> QED
    BY <2>1, <2>2, Zenon
<1>8. Conserved(t)
  BY <1>1, <1>2, <1>3, Zenon DEF Conserved, Has, Known, Locked, Holds, Edits, Pages,
     Out, Editing, NoActive, NoView, DB
<1> QED
  BY <1>2, <1>4, <1>5, <1>6, <1>7, <1>8, WriterStep, Zenon DEF Good

LEMMA TakeStep ==
  ASSUME Sound, NEW t \in Txns, Take(t)
  PROVE  PageKept
<1> TypeOK /\ LockInv /\ PageInv
  BY Zenon DEF Sound
<1>1. /\ pc[t] = "alloc" /\ pc'[t] = "record"
      /\ \E S \in SUBSET free : free' = free \ S /\ hand'[t] = S
      /\ UNCHANGED <<active, tree, pend, leaks, conn, pg, used, gc, view, ro,
                    reset, xid, pxid>>
  BY DEF Take, hdrVars, connVars, procVars, Goto, Runs, TypeOK,
     TakePages, PageStoreTypeOK
<1>2. Writing(t) /\ Settled(t) /\ Loads(t) /\ Holds(t) /\ Edits(t) /\ OneOwner
  BY <1>1, Zenon DEF PageInv, Good, Locked, Writing
<1>3. Slot(t) \in Conn /\ Slot(t)' = Slot(t) /\ t \in Writers
  BY <1>1, <1>2, SlotInConn, Zenon DEF Slot, LockInv, WriteInv
<1>4. Others(t)
  BY <1>1, Zenon DEF Take, Goto, Others, Slot, TypeOK
<1>5. OneOwner'
  BY <1>1, <1>2, <1>3, Zenon DEF OneOwner, Holds, Edits, Disjoint, Pages, Out,
     Editing, NoActive
<1>6. Settled(t)' /\ Loads(t)'
  BY <1>1, <1>2, <1>3, Zenon DEF Settled, Loads, Holds, NoView, DB, Closable, Out,
     Editing, NoActive
<1>7. pc'[t] \in Locked => Holds(t)' /\ Edits(t)'
  <2>s. hand'[t] \subseteq free /\ free' = free \ hand'[t]
    BY <1>1, Zenon
  <2>1. pc'[t] \in Locked => Holds(t)'
    <3>1. Disjoint(hand[t], free \cup active \cup Pages(tree) \cup pg[t])'
      BY <1>1, <1>2, <2>s, Zenon DEF Holds, OneOwner, Disjoint, Out
    <3>2. \A c \in Conn : Disjoint(hand[t], pend[c])'
      BY <1>1, <1>2, <2>s, Zenon DEF OneOwner, Disjoint
    <3>3. Disjoint(pg[t], free \cup Pages(tree))'
      BY <1>1, <1>2, <2>s, Zenon DEF Holds, Disjoint, Out
    <3> QED
      BY <1>1, <1>2, <1>3, <3>1, <3>2, <3>3, Zenon DEF Holds, Out, Editing, NoActive
  <2>2. pc'[t] \in Locked => Edits(t)'
    BY <1>1, <1>2, <1>3, Zenon DEF Edits, Editing, OneOwner, Holds, Settled, Loads,
       NoView, DB, Disjoint, Pages, Out
  <2> QED
    BY <2>1, <2>2, Zenon
<1>8. Conserved(t)
  BY <1>1, <1>2, <1>3, Zenon DEF Conserved, Has, Known, Locked, Holds, Edits, Pages,
     Out, Editing, NoActive, NoView, DB
<1> QED
  BY <1>2, <1>4, <1>5, <1>6, <1>7, <1>8, WriterStep, Zenon DEF Good

LEMMA AllocFailsStep ==
  ASSUME Sound, NEW t \in Txns, AllocFails(t)
  PROVE  PageKept
<1> TypeOK /\ LockInv /\ PageInv
  BY Zenon DEF Sound
<1>1. /\ pc[t] = "alloc" /\ pc'[t] = "error"
      /\ UNCHANGED <<free, active, tree, pend, leaks, conn, pg, used, gc, hand,
                    view, ro, reset, xid, pxid>>
  BY Zenon DEF AllocFails, hdrVars, connVars, storeVars, procVars, wrVars,
     Goto, Runs, TypeOK
<1>2. Writing(t) /\ Settled(t) /\ Loads(t) /\ Holds(t) /\ Edits(t) /\ OneOwner
  BY <1>1, Zenon DEF PageInv, Good, Locked, Writing
<1>3. Slot(t) \in Conn /\ Slot(t)' = Slot(t) /\ t \in Writers
  BY <1>1, <1>2, SlotInConn, Zenon DEF Slot, LockInv, WriteInv
<1>4. Others(t)
  BY <1>1, Zenon DEF AllocFails, Goto, Others, Slot, TypeOK
<1>6. Settled(t)' /\ Loads(t)'
  BY <1>1, <1>2, <1>3, Zenon DEF Settled, Loads, Holds, NoView, DB, Closable, Out,
     Editing, NoActive
<1>7. pc'[t] \in Locked => Holds(t)' /\ Edits(t)'
  <2>1. pc'[t] \in Locked => Holds(t)'
    BY <1>1, <1>2, <1>3, Zenon DEF Holds, Settled, Loads, Out, Editing, NoActive
  <2>2. pc'[t] \in Locked => Edits(t)'
    BY <1>1, <1>2, <1>3, Zenon DEF Edits, Editing
  <2> QED
    BY <2>1, <2>2, Zenon
<1>8. \A x \in Page : Has(t, x)' => Known(x) \/ Has(t, x)
  BY <1>1, <1>2, <1>3, Zenon DEF Has, Known, Locked, Settled, Loads, NoView, Pages,
     DB
<1> QED
  BY <1>1, <1>2, <1>4, <1>6, <1>7, <1>8, QuietStep, Zenon DEF Good

LEMMA RecordStep ==
  ASSUME Sound, NEW t \in Txns, Record(t)
  PROVE  PageKept
<1> TypeOK /\ LockInv /\ PageInv
  BY Zenon DEF Sound
<1>1. /\ pc[t] = "record" /\ pc'[t] = "write"
      /\ hand'[t] = {}
      /\ pg'[t] = pg[t] \cup hand[t]
      /\ active \subseteq active' /\ active' \subseteq active \cup hand[t]
      /\ UNCHANGED <<free, tree, pend, leaks, conn, used, gc, view, ro, reset,
                    xid, pxid>>
  BY Zenon DEF Record, connVars, storeVars, procVars, runVars, Goto, Runs,
     TypeOK
<1>2. Writing(t) /\ Settled(t) /\ Loads(t) /\ Holds(t) /\ Edits(t) /\ OneOwner
  BY <1>1, Zenon DEF PageInv, Good, Locked, Writing
<1>3. Slot(t) \in Conn /\ Slot(t)' = Slot(t) /\ t \in Writers
  BY <1>1, <1>2, SlotInConn, Zenon DEF Slot, LockInv, WriteInv
<1>4. Others(t)
  BY <1>1, Zenon DEF Record, Goto, Others, Slot, TypeOK
<1>5. OneOwner'
  BY <1>1, <1>2, <1>3, Zenon DEF OneOwner, Holds, Edits, Disjoint, Pages, Out,
     Editing, NoActive
<1>6. Settled(t)' /\ Loads(t)'
  BY <1>1, <1>2, <1>3, Zenon DEF Settled, Loads, Holds, NoView, DB, Closable, Out,
     Editing, NoActive
<1>7. pc'[t] \in Locked => Holds(t)' /\ Edits(t)'
  <2>1. pc'[t] \in Locked => Holds(t)'
    BY <1>1, <1>2, <1>3, Zenon DEF Holds, OneOwner, Edits, Disjoint, Pages, Settled,
       Loads, Out, Editing, NoActive
  <2>2. pc'[t] \in Locked => Edits(t)'
    BY <1>1, <1>2, <1>3, Zenon DEF Edits, Editing, OneOwner, Holds, Settled, Loads,
       NoView, DB, Disjoint, Pages, Out
  <2> QED
    BY <2>1, <2>2, Zenon
<1>8. Conserved(t)
  BY <1>1, <1>2, <1>3, Zenon DEF Conserved, Has, Known, Locked, Holds, Edits, Pages,
     Out, Editing, NoActive, NoView, DB
<1> QED
  BY <1>2, <1>4, <1>5, <1>6, <1>7, <1>8, WriterStep, Zenon DEF Good

-----------------------------------------------------------------------------
(* Work on the trees. *)

LEMMA ViewAt ==
  ASSUME TypeOK, NEW t \in Txns, NEW d \in DB, NEW v,
         view' = [view EXCEPT ![t][d] = v]
  PROVE  \/ d = 0 /\ view'[t][0] = v /\ view'[t][1] = view[t][1]
         \/ d = 1 /\ view'[t][1] = v /\ view'[t][0] = view[t][0]
<1>1. view \in [Txns -> [DB -> SUBSET Page]]
  BY Zenon DEF TypeOK
<1> QED
  BY <1>1 DEF DB

LEMMA CloneStep ==
  ASSUME Sound, NEW t \in Txns, NEW d \in DB, NEW n \in Page, NEW p \in Page,
         Clone(t, d, n, p)
  PROVE  PageKept
<1> TypeOK /\ LockInv /\ PageInv
  BY Zenon DEF Sound
<1>1. /\ pc[t] = "write" /\ pc'[t] = "write"
      /\ used'[t] = used[t] \cup {p}
      /\ gc'[t] = gc[t] \cup {n}
      /\ p \in pg[t] \ used[t]
      /\ \/ d = 0 /\ view'[t][0] = (view[t][0] \ {n}) \cup {p} /\ view'[t][1] = view[t][1]
         \/ d = 1 /\ view'[t][1] = (view[t][1] \ {n}) \cup {p} /\ view'[t][0] = view[t][0]
      /\ pxid'[p] = xid[t] /\ \A x \in Page \ {p} : pxid'[x] = pxid[x]
      /\ UNCHANGED <<free, active, tree, pend, leaks, conn, pg, hand, ro, reset,
                    xid>>
  <2>1. view' = [view EXCEPT ![t][d] = (view[t][d] \ {n}) \cup {p}]
    BY Zenon DEF Clone
  <2>2. PICK v : v = (view[t][d] \ {n}) \cup {p}
    BY Zenon
  <2>3. view' = [view EXCEPT ![t][d] = v]
    BY <2>1, <2>2, Zenon
  <2>4. \/ d = 0 /\ view'[t][0] = v /\ view'[t][1] = view[t][1]
        \/ d = 1 /\ view'[t][1] = v /\ view'[t][0] = view[t][0]
    BY <2>3, ViewAt, Zenon
  <2> QED
    BY <2>2, <2>4, Zenon DEF Clone, ReplacedBy, hdrVars, connVars, storeVars, procVars, runVars,
       Runs, TypeOK
<1>2. Writing(t) /\ Settled(t) /\ Loads(t) /\ Holds(t) /\ Edits(t) /\ OneOwner
  BY <1>1, Zenon DEF PageInv, Good, Locked, Writing
<1>3. Slot(t) \in Conn /\ Slot(t)' = Slot(t) /\ t \in Writers
  BY <1>1, <1>2, SlotInConn, Zenon DEF Slot, LockInv, WriteInv
<1>4. Others(t)
  BY <1>1 DEF Clone, ReplacedBy, Others, Slot, TypeOK
<1>6. Settled(t)' /\ Loads(t)'
  BY <1>1, <1>2, <1>3, Zenon DEF Settled, Loads, Holds, NoView, DB, Closable, Out,
     Editing, NoActive
<1>7. Holds(t)'
  BY <1>1, <1>2, <1>3, Zenon DEF Holds, Out, Editing, NoActive
<1>n. n \in view[t][d] \ used[t]
  <2>1. n \in view[t][d] /\ pxid[n] < xid[t] /\ xid[t] \in Nat
    BY Zenon DEF Clone, MustClone, TypeOK
  <2>2. n \in used[t] => pxid[n] = xid[t]
    BY <1>1, <1>2, Zenon DEF Edits, Editing
  <2> QED
    BY <2>1, <2>2
<1>p. p \notin Pages(tree) /\ p \notin Pages(view[t])
  BY <1>1, <1>2, Zenon DEF Holds, Edits, Disjoint, Out, Editing
<1>e. Edits(t)'
  <2>1. /\ Disjoint(view[t][0], view[t][1])
        /\ Pages(view[t]) \subseteq Pages(tree) \cup used[t]
        /\ gc[t] \subseteq Pages(tree) \ Pages(view[t])
    BY <1>1, <1>2, Zenon DEF Edits, Editing
  <2>a. Disjoint(view[t][0], view[t][1])'
    <3>1. p \notin view[t][0] /\ p \notin view[t][1]
      BY <1>p, Zenon DEF Pages
    <3>2. \/ /\ \A x \in view'[t][0] : x = p \/ x \in view[t][0]
             /\ \A x \in view'[t][1] : x \in view[t][1]
          \/ /\ \A x \in view'[t][1] : x = p \/ x \in view[t][1]
             /\ \A x \in view'[t][0] : x \in view[t][0]
      BY <1>1, Zenon
    <3> QED
      BY <2>1, <3>1, <3>2, Zenon DEF Disjoint
  <2>b. Pages(view[t])' \subseteq Pages(tree)' \cup used'[t]
    BY <1>1, <2>1, Zenon DEF Pages
  <2>c. gc'[t] \subseteq Pages(tree)' \ Pages(view[t])'
    <3>1. ASSUME NEW x \in Pages(view'[t]) PROVE x = p \/ (x \in Pages(view[t]) /\ x # n)
      <4>1. CASE /\ d = 0 /\ view'[t][0] = (view[t][0] \ {n}) \cup {p}
                 /\ view'[t][1] = view[t][1]
        <5>1. n \notin view[t][1]
          BY <1>n, <2>1, <4>1, Zenon DEF Disjoint
        <5> QED
          BY <4>1, <5>1, Zenon DEF Pages
      <4>2. CASE /\ d = 1 /\ view'[t][1] = (view[t][1] \ {n}) \cup {p}
                 /\ view'[t][0] = view[t][0]
        <5>1. n \notin view[t][0]
          BY <1>n, <2>1, <4>2, Zenon DEF Disjoint
        <5> QED
          BY <4>2, <5>1, Zenon DEF Pages
      <4> QED
        BY <1>1, <4>1, <4>2, Zenon
    <3>2. n \in Pages(tree)
      BY <1>1, <1>n, <2>1, Zenon DEF Pages
    <3>3. Pages(tree)' = Pages(tree) /\ Pages(view[t])' = Pages(view'[t])
      BY <1>1, Zenon DEF Pages
    <3> QED
      BY <1>1, <1>p, <2>1, <3>1, <3>2, <3>3, Zenon
  <2>2. used'[t] \subseteq pg'[t] /\ \A x \in used'[t] : pxid'[x] = xid'[t]
    BY <1>1, <1>2, Zenon DEF Edits, Editing, TypeOK
  <2> QED
    BY <1>1, <2>a, <2>b, <2>c, <2>2, Zenon DEF Edits, Editing
<1>8. \A x \in Page : Has(t, x)' => Known(x) \/ Has(t, x)
  <2>1. n \in Pages(view[t])
    BY <1>1, <1>n, Zenon DEF Pages
  <2> QED
    BY <1>1, <2>1 DEF Has, Locked, Pages
<1> QED
  BY <1>1, <1>2, <1>4, <1>6, <1>7, <1>8, <1>e, QuietStep, Zenon DEF Good

LEMMA NewNodeStep ==
  ASSUME Sound, NEW t \in Txns, NEW d \in DB, NEW p \in Page, NewNode(t, d, p)
  PROVE  PageKept
<1> TypeOK /\ LockInv /\ PageInv
  BY Zenon DEF Sound
<1>1. /\ pc[t] = "write" /\ pc'[t] = "write"
      /\ used'[t] = used[t] \cup {p}
      /\ p \in pg[t] \ used[t]
      /\ \/ d = 0 /\ view'[t][0] = view[t][0] \cup {p} /\ view'[t][1] = view[t][1]
         \/ d = 1 /\ view'[t][1] = view[t][1] \cup {p} /\ view'[t][0] = view[t][0]
      /\ pxid'[p] = xid[t] /\ \A x \in Page \ {p} : pxid'[x] = pxid[x]
      /\ UNCHANGED <<free, active, tree, pend, leaks, conn, pg, gc, hand, ro,
                    reset, xid>>
  <2>1. view' = [view EXCEPT ![t][d] = view[t][d] \cup {p}]
    BY Zenon DEF NewNode
  <2>2. PICK v : v = view[t][d] \cup {p}
    BY Zenon
  <2>3. view' = [view EXCEPT ![t][d] = v]
    BY <2>1, <2>2, Zenon
  <2>4. \/ d = 0 /\ view'[t][0] = v /\ view'[t][1] = view[t][1]
        \/ d = 1 /\ view'[t][1] = v /\ view'[t][0] = view[t][0]
    BY <2>3, ViewAt, Zenon
  <2> QED
    BY <2>2, <2>4, Zenon DEF NewNode, hdrVars, connVars, storeVars, procVars, runVars,
       Runs, TypeOK
<1>2. Writing(t) /\ Settled(t) /\ Loads(t) /\ Holds(t) /\ Edits(t) /\ OneOwner
  BY <1>1, Zenon DEF PageInv, Good, Locked, Writing
<1>3. Slot(t) \in Conn /\ Slot(t)' = Slot(t) /\ t \in Writers
  BY <1>1, <1>2, SlotInConn, Zenon DEF Slot, LockInv, WriteInv
<1>4. Others(t)
  BY <1>1 DEF NewNode, Others, Slot, TypeOK
<1>6. Settled(t)' /\ Loads(t)'
  BY <1>1, <1>2, <1>3, Zenon DEF Settled, Loads, Holds, NoView, DB, Closable, Out,
     Editing, NoActive
<1>7. Holds(t)'
  BY <1>1, <1>2, <1>3, Zenon DEF Holds, Out, Editing, NoActive
<1>p. p \notin Pages(tree) /\ p \notin Pages(view[t])
  BY <1>1, <1>2, Zenon DEF Holds, Edits, Disjoint, Out, Editing
<1>e. Edits(t)'
  <2>1. /\ Disjoint(view[t][0], view[t][1])
        /\ Pages(view[t]) \subseteq Pages(tree) \cup used[t]
        /\ gc[t] \subseteq Pages(tree) \ Pages(view[t])
    BY <1>1, <1>2, Zenon DEF Edits, Editing
  <2>a. Disjoint(view[t][0], view[t][1])'
    <3>1. p \notin view[t][0] /\ p \notin view[t][1]
      BY <1>p, Zenon DEF Pages
    <3>2. \/ /\ \A x \in view'[t][0] : x = p \/ x \in view[t][0]
             /\ \A x \in view'[t][1] : x \in view[t][1]
          \/ /\ \A x \in view'[t][1] : x = p \/ x \in view[t][1]
             /\ \A x \in view'[t][0] : x \in view[t][0]
      BY <1>1, Zenon
    <3> QED
      BY <2>1, <3>1, <3>2, Zenon DEF Disjoint
  <2>b. Pages(view[t])' \subseteq Pages(tree)' \cup used'[t]
    BY <1>1, <2>1, Zenon DEF Pages
  <2>c. gc'[t] \subseteq Pages(tree)' \ Pages(view[t])'
    BY <1>1, <1>p, <2>1, Zenon DEF Disjoint, Pages
  <2>2. used'[t] \subseteq pg'[t] /\ \A x \in used'[t] : pxid'[x] = xid'[t]
    BY <1>1, <1>2, Zenon DEF Edits, Editing, TypeOK
  <2> QED
    BY <1>1, <2>a, <2>b, <2>c, <2>2, Zenon DEF Edits, Editing
<1>8. \A x \in Page : Has(t, x)' => Known(x) \/ Has(t, x)
  <2>1. \A x \in Page : x \in Pages(view'[t]) => x = p \/ x \in Pages(view[t])
    BY <1>1, Zenon DEF Pages
  <2> QED
    BY <1>1, <2>1, Zenon DEF Has, Locked
<1> QED
  BY <1>1, <1>2, <1>4, <1>6, <1>7, <1>8, <1>e, QuietStep, Zenon DEF Good

LEMMA WriteInPlaceStep ==
  ASSUME Sound, NEW t \in Txns, NEW d \in DB, NEW n \in Page, WriteInPlace(t, d, n)
  PROVE  PageKept
<1> TypeOK /\ LockInv /\ PageInv
  BY Zenon DEF Sound
<1>1. /\ pc[t] = "write" /\ pc'[t] = "write"
      /\ UNCHANGED <<free, active, tree, pend, leaks, conn, pg, used, gc, hand,
                    view, ro, reset, xid, pxid>>
  BY Zenon DEF WriteInPlace, hdrVars, connVars, storeVars, procVars, runVars,
     Runs, TypeOK
<1>2. Writing(t) /\ Settled(t) /\ Loads(t) /\ Holds(t) /\ Edits(t) /\ OneOwner
  BY <1>1, Zenon DEF PageInv, Good, Locked, Writing
<1>3. Slot(t) \in Conn /\ Slot(t)' = Slot(t) /\ t \in Writers
  BY <1>1, <1>2, SlotInConn, Zenon DEF Slot, LockInv, WriteInv
<1>4. Others(t)
  BY <1>1, Zenon DEF WriteInPlace, Others, Slot, TypeOK
<1>6. Settled(t)' /\ Loads(t)'
  BY <1>1, <1>2, <1>3, Zenon DEF Settled, Loads, Holds, NoView, DB, Closable, Out,
     Editing, NoActive
<1>7. pc'[t] \in Locked => Holds(t)' /\ Edits(t)'
  <2>1. pc'[t] \in Locked => Holds(t)'
    BY <1>1, <1>2, <1>3, Zenon DEF Holds, Settled, Loads, Out, Editing, NoActive
  <2>2. pc'[t] \in Locked => Edits(t)'
    BY <1>1, <1>2, <1>3, Zenon DEF Edits, Editing
  <2> QED
    BY <2>1, <2>2, Zenon
<1>8. \A x \in Page : Has(t, x)' => Known(x) \/ Has(t, x)
  BY <1>1, <1>2, <1>3, Zenon DEF Has, Known, Locked, Settled, Loads, NoView, Pages,
     DB
<1> QED
  BY <1>1, <1>2, <1>4, <1>6, <1>7, <1>8, QuietStep, Zenon DEF Good

LEMMA CommitBeginStep ==
  ASSUME Sound, NEW t \in Txns, CommitBegin(t)
  PROVE  PageKept
<1> TypeOK /\ LockInv /\ PageInv
  BY Zenon DEF Sound
<1>1. /\ pc[t] = "write" /\ pc'[t] = "tree"
      /\ pg'[t] = pg[t] \ used[t]
      /\ used'[t] = {}
      /\ active' = {}
      /\ UNCHANGED <<free, tree, pend, leaks, conn, gc, hand, view, ro, reset,
                    xid, pxid>>
  BY Zenon DEF CommitBegin, connVars, storeVars, procVars, runVars, Goto,
     Runs, TypeOK
<1>2. Writing(t) /\ Settled(t) /\ Loads(t) /\ Holds(t) /\ Edits(t) /\ OneOwner
  BY <1>1, Zenon DEF PageInv, Good, Locked, Writing
<1>3. Slot(t) \in Conn /\ Slot(t)' = Slot(t) /\ t \in Writers
  BY <1>1, <1>2, SlotInConn, Zenon DEF Slot, LockInv, WriteInv
<1>4. Others(t)
  BY <1>1, Zenon DEF CommitBegin, Goto, Others, Slot, TypeOK
<1>5. OneOwner'
  BY <1>1, <1>2, <1>3, Zenon DEF OneOwner, Holds, Edits, Disjoint, Pages, Out,
     Editing, NoActive
<1>6. Settled(t)' /\ Loads(t)'
  BY <1>1, <1>2, <1>3, Zenon DEF Settled, Loads, Holds, NoView, DB, Closable, Out,
     Editing, NoActive
<1>7. pc'[t] \in Locked => Holds(t)' /\ Edits(t)'
  <2>1. pc'[t] \in Locked => Holds(t)'
    BY <1>1, <1>2, <1>3, Zenon DEF Holds, OneOwner, Edits, Disjoint, Pages, Settled,
       Loads, Out, Editing, NoActive
  <2>2. pc'[t] \in Locked => Edits(t)'
    BY <1>1, <1>2, <1>3, Zenon DEF Edits, Editing, OneOwner, Holds, Settled, Loads,
       NoView, DB, Disjoint, Pages, Out
  <2> QED
    BY <2>1, <2>2, Zenon
<1>8. Conserved(t)
  BY <1>1, <1>2, <1>3, Zenon DEF Conserved, Has, Known, Locked, Holds, Edits, Pages,
     Out, Editing, NoActive, NoView, DB
<1> QED
  BY <1>2, <1>4, <1>5, <1>6, <1>7, <1>8, WriterStep, Zenon DEF Good

LEMMA StoreTreeStep ==
  ASSUME Sound, NEW t \in Txns, StoreTree(t)
  PROVE  PageKept
<1> TypeOK /\ LockInv /\ PageInv
  BY Zenon DEF Sound
<1>1. /\ pc[t] = "tree" /\ pc'[t] = "xid"
      /\ tree' = view[t]
      /\ UNCHANGED <<free, active, pend, leaks, conn, pg, used, gc, hand, view,
                    ro, reset, xid, pxid>>
  BY Zenon DEF StoreTree, connVars, storeVars, procVars, wrVars, runVars,
     Goto, Runs, TypeOK
<1>2. Writing(t) /\ Settled(t) /\ Loads(t) /\ Holds(t) /\ Edits(t) /\ OneOwner
  BY <1>1, Zenon DEF PageInv, Good, Locked, Writing
<1>3. Slot(t) \in Conn /\ Slot(t)' = Slot(t) /\ t \in Writers
  BY <1>1, <1>2, SlotInConn, Zenon DEF Slot, LockInv, WriteInv
<1>4. Others(t)
  BY <1>1, Zenon DEF StoreTree, Goto, Others, Slot, TypeOK
<1>5. OneOwner'
  BY <1>1, <1>2, <1>3, Zenon DEF OneOwner, Holds, Edits, Disjoint, Pages, Out,
     Editing, NoActive
<1>6. Settled(t)' /\ Loads(t)'
  BY <1>1, <1>2, <1>3, Zenon DEF Settled, Loads, Holds, NoView, DB, Closable, Out,
     Editing, NoActive
<1>7. pc'[t] \in Locked => Holds(t)' /\ Edits(t)'
  <2>1. pc'[t] \in Locked => Holds(t)'
    BY <1>1, <1>2, <1>3, Zenon DEF Holds, OneOwner, Edits, Disjoint, Pages, Settled,
       Loads, Out, Editing, NoActive
  <2>2. pc'[t] \in Locked => Edits(t)'
    BY <1>1, <1>2, <1>3, Zenon DEF Edits, Editing, OneOwner, Holds, Settled, Loads,
       NoView, DB, Disjoint, Pages, Out
  <2> QED
    BY <2>1, <2>2, Zenon
<1>8. Conserved(t)
  BY <1>1, <1>2, <1>3, Zenon DEF Conserved, Has, Known, Locked, Holds, Edits, Pages,
     Out, Editing, NoActive, NoView, DB
<1> QED
  BY <1>2, <1>4, <1>5, <1>6, <1>7, <1>8, WriterStep, Zenon DEF Good

LEMMA StoreXidStep ==
  ASSUME Sound, NEW t \in Txns, StoreXid(t)
  PROVE  PageKept
<1> TypeOK /\ LockInv /\ PageInv
  BY Zenon DEF Sound
<1>1. /\ pc[t] = "xid" /\ pc'[t] = "discard"
      /\ UNCHANGED <<free, active, tree, pend, leaks, conn, pg, used, gc, hand,
                    view, ro, reset, xid, pxid>>
  BY Zenon DEF StoreXid, connVars, storeVars, procVars, wrVars, runVars,
     Goto, Runs, TypeOK
<1>2. Writing(t) /\ Settled(t) /\ Loads(t) /\ Holds(t) /\ Edits(t) /\ OneOwner
  BY <1>1, Zenon DEF PageInv, Good, Locked, Writing
<1>3. Slot(t) \in Conn /\ Slot(t)' = Slot(t) /\ t \in Writers
  BY <1>1, <1>2, SlotInConn, Zenon DEF Slot, LockInv, WriteInv
<1>4. Others(t)
  BY <1>1, Zenon DEF StoreXid, Goto, Others, Slot, TypeOK
<1>6. Settled(t)' /\ Loads(t)'
  BY <1>1, <1>2, <1>3, Zenon DEF Settled, Loads, Holds, NoView, DB, Closable, Out,
     Editing, NoActive
<1>7. pc'[t] \in Locked => Holds(t)' /\ Edits(t)'
  <2>1. pc'[t] \in Locked => Holds(t)'
    BY <1>1, <1>2, <1>3, Zenon DEF Holds, Settled, Loads, Out, Editing, NoActive
  <2>2. pc'[t] \in Locked => Edits(t)'
    BY <1>1, <1>2, <1>3, Zenon DEF Edits, Editing
  <2> QED
    BY <2>1, <2>2, Zenon
<1>8. \A x \in Page : Has(t, x)' => Known(x) \/ Has(t, x)
  BY <1>1, <1>2, <1>3, Zenon DEF Has, Known, Locked, Settled, Loads, NoView, Pages,
     DB
<1> QED
  BY <1>1, <1>2, <1>4, <1>6, <1>7, <1>8, QuietStep, Zenon DEF Good

LEMMA DiscardStep ==
  ASSUME Sound, NEW t \in Txns, Discard(t)
  PROVE  PageKept
<1> TypeOK /\ LockInv /\ PageInv
  BY Zenon DEF Sound
<1>s. free' = free \/ free' = free \cup gc[t]
  BY GiveBackFacts, Zenon DEF Discard, GiveBack, TypeOK
<1>1. /\ pc[t] = "discard" /\ pc'[t] = "closing"
      /\ gc'[t] = {}
      /\ free' = free \/ free' = free \cup gc[t]
      /\ UNCHANGED <<active, tree, pend, leaks, conn, pg, used, hand, view, ro,
                    reset, xid>>
  BY <1>s, Zenon DEF Discard, hdrVars, connVars, procVars, runVars, Goto,
     Runs, TypeOK
<1>2. Writing(t) /\ Settled(t) /\ Loads(t) /\ Holds(t) /\ Edits(t) /\ OneOwner
  BY <1>1, Zenon DEF PageInv, Good, Locked, Writing
<1>3. Slot(t) \in Conn /\ Slot(t)' = Slot(t) /\ t \in Writers
  BY <1>1, <1>2, SlotInConn, Zenon DEF Slot, LockInv, WriteInv
<1>4. Others(t)
  BY <1>1, Zenon DEF Discard, Goto, Others, Slot, TypeOK
<1>5. OneOwner'
  BY <1>1, <1>2, <1>3, Zenon DEF OneOwner, Holds, Edits, Disjoint, Pages, Out,
     Editing, NoActive
<1>6. Settled(t)' /\ Loads(t)'
  BY <1>1, <1>2, <1>3, Zenon DEF Settled, Loads, Holds, NoView, DB, Closable, Out,
     Editing, NoActive
<1>7. pc'[t] \in Locked => Holds(t)' /\ Edits(t)'
  <2>1. pc'[t] \in Locked => Holds(t)'
    BY <1>1, <1>2, <1>3, Zenon DEF Holds, OneOwner, Edits, Disjoint, Pages, Settled,
       Loads, Out, Editing, NoActive
  <2>2. pc'[t] \in Locked => Edits(t)'
    BY <1>1, <1>2, <1>3, Zenon DEF Edits, Editing, OneOwner, Holds, Settled, Loads,
       NoView, DB, Disjoint, Pages, Out
  <2> QED
    BY <2>1, <2>2, Zenon
<1>8. Conserved(t)
  BY <1>1, <1>2, <1>3, Zenon DEF Conserved, Has, Known, Locked, Holds, Edits, Pages,
     Out, Editing, NoActive, NoView, DB
<1> QED
  BY <1>2, <1>4, <1>5, <1>6, <1>7, <1>8, WriterStep, Zenon DEF Good

LEMMA CloseLockedStep ==
  ASSUME Sound, NEW t \in Txns, NEW r \in BOOLEAN, CloseLocked(t, r)
  PROVE  PageKept
<1> TypeOK /\ LockInv /\ PageInv
  BY Zenon DEF Sound
<1>1. /\ pc'[t] = "flush"
      /\ view'[t] = NoView
      /\ used'[t] = {}
      /\ gc'[t] = {}
      /\ ro'[t] = FALSE
      /\ pc[t] \in Closable
      /\ UNCHANGED <<free, active, tree, pend, leaks, conn, pg, hand, pxid>>
  BY Zenon DEF CloseLocked, EdLck, storeVars, procVars, Goto, Forget, Closable,
     Runs, TypeOK
<1>2. /\ Settled(t) /\ Loads(t) /\ OneOwner /\ Slot(t) \in Conn
      /\ pc[t] \in Locked => Holds(t)
  BY <1>1, SlotInConn, Zenon DEF PageInv, Good, Closable
<1>3. Slot(t)' = Slot(t)
  BY <1>1, Zenon DEF Slot
<1>4. Others(t)
  BY <1>1, Zenon DEF CloseLocked, EdLck, Goto, Forget, Others, Slot, TypeOK
<1>6. Settled(t)' /\ Loads(t)'
  BY <1>1, <1>2, <1>3, Zenon DEF Settled, Loads, Holds, NoView, DB, Closable, Out,
     Editing, NoActive
<1>7. pc'[t] \in Locked => Holds(t)' /\ Edits(t)'
  <2>1. pc'[t] \in Locked => Holds(t)'
    BY <1>1, <1>2, <1>3, Zenon DEF Holds, OneOwner, Edits, Disjoint, Pages, Settled,
       Locked, Closable, Loads, Out, Editing, NoActive
  <2>2. pc'[t] \in Locked => Edits(t)'
    BY <1>1, <1>2, <1>3, Zenon DEF Edits, Editing, OneOwner, Loads, Disjoint, Pages,
       NoView, DB, Locked
  <2> QED
    BY <2>1, <2>2, Zenon
<1>8. \A x \in Page : Has(t, x)' => Known(x) \/ Has(t, x)
  BY <1>1, <1>2, <1>3, Zenon DEF Has, Known, Locked, Settled, Loads, NoView, Pages,
     DB
<1> QED
  BY <1>1, <1>2, <1>4, <1>6, <1>7, <1>8, QuietStep, Zenon DEF Good

LEMMA CloseUnlockedStep ==
  ASSUME Sound, NEW t \in Txns, NEW r \in BOOLEAN, CloseUnlocked(t, r)
  PROVE  PageKept
<1> TypeOK /\ LockInv /\ PageInv
  BY Zenon DEF Sound
<1>1. /\ pc'[t] = IF r THEN "closed" ELSE "none"
      /\ view'[t] = NoView
      /\ used'[t] = {}
      /\ gc'[t] = {}
      /\ ro'[t] = FALSE
      /\ pg'[t] = IF r THEN pg[t] ELSE {}
      /\ pc[t] \in {"closed", "open"}
      /\ UNCHANGED <<free, active, tree, pend, leaks, conn, hand, reset, pxid>>
  BY Zenon DEF CloseUnlocked, hdrVars, storeVars, procVars, Goto, Forget,
     Runs, TypeOK
<1>2. Settled(t) /\ Loads(t) /\ OneOwner
  BY Zenon DEF PageInv, Good
<1>3. Slot(t)' = Slot(t)
  BY <1>1, Zenon DEF Slot
<1>4. Others(t)
  BY <1>1 DEF CloseUnlocked, Goto, Forget, Others, Slot, TypeOK
<1>6. Settled(t)' /\ Loads(t)'
  BY <1>1, <1>2, <1>3, Zenon DEF Settled, Loads, Holds, NoView, DB, Closable, Out,
     Editing, NoActive
<1>7. pc'[t] \notin Locked
  BY <1>1, Zenon DEF Locked
<1>8. \A x \in Page : Has(t, x)' => Known(x) \/ Has(t, x)
  BY <1>1, <1>2, <1>3, Zenon DEF Has, Known, Locked, Settled, Loads, NoView, Pages,
     DB
<1> QED
  BY <1>1, <1>2, <1>4, <1>6, <1>7, <1>8, QuietStep, Zenon DEF Good

LEMMA FlushActiveStep ==
  ASSUME Sound, NEW t \in Txns, FlushActive(t)
  PROVE  PageKept
<1> TypeOK /\ LockInv /\ PageInv
  BY Zenon DEF Sound
<1>1. /\ pc[t] = "flush" /\ pc'[t] = "pending"
      /\ active' = {}
      /\ UNCHANGED <<free, tree, pend, leaks, conn, pg, used, gc, hand, view,
                    ro, reset, xid, pxid>>
  BY Zenon DEF FlushActive, connVars, storeVars, procVars, wrVars, runVars,
     Goto, Runs, TypeOK
<1>2. Writing(t) /\ Settled(t) /\ Loads(t) /\ Holds(t) /\ Edits(t) /\ OneOwner
  BY <1>1, Zenon DEF PageInv, Good, Locked, Writing
<1>3. Slot(t) \in Conn /\ Slot(t)' = Slot(t) /\ t \in Writers
  BY <1>1, <1>2, SlotInConn, Zenon DEF Slot, LockInv, WriteInv
<1>4. Others(t)
  BY <1>1, Zenon DEF FlushActive, Goto, Others, Slot, TypeOK
<1>5. OneOwner'
  BY <1>1, <1>2, <1>3, Zenon DEF OneOwner, Holds, Edits, Disjoint, Pages, Out,
     Editing, NoActive
<1>6. Settled(t)' /\ Loads(t)'
  BY <1>1, <1>2, <1>3, Zenon DEF Settled, Loads, Holds, NoView, DB, Closable, Out,
     Editing, NoActive
<1>7. pc'[t] \in Locked => Holds(t)' /\ Edits(t)'
  <2>1. pc'[t] \in Locked => Holds(t)'
    BY <1>1, <1>2, <1>3, Zenon DEF Holds, OneOwner, Edits, Disjoint, Pages, Settled,
       Loads, Out, Editing, NoActive
  <2>2. pc'[t] \in Locked => Edits(t)'
    BY <1>1, <1>2, <1>3, Zenon DEF Edits, Editing, OneOwner, Holds, Settled, Loads,
       NoView, DB, Disjoint, Pages, Out
  <2> QED
    BY <2>1, <2>2, Zenon
<1>8. Conserved(t)
  BY <1>1, <1>2, <1>3, Zenon DEF Conserved, Has, Known, Locked, Holds, Edits, Pages,
     Out, Editing, NoActive, NoView, DB
<1> QED
  BY <1>2, <1>4, <1>5, <1>6, <1>7, <1>8, WriterStep, Zenon DEF Good

LEMMA StorePendingStep ==
  ASSUME Sound, NEW t \in Txns, StorePending(t)
  PROVE  PageKept
<1> TypeOK /\ LockInv /\ PageInv
  BY Zenon DEF Sound
<1>s. Slot(t) \in Conn
  BY SlotInConn, Zenon DEF StorePending, Runs
<1>1. /\ pc[t] = "pending" /\ pc'[t] = "unlock"
      /\ \E keep \in SUBSET pg[t] :
           /\ pend'[Slot(t)] = keep /\ pg'[t] = keep /\ hand'[t] = pg[t] \ keep
           /\ ~reset[t] => keep = {}
      /\ \A c \in Conn \ {Slot(t)} : pend'[c] = pend[c]
      /\ UNCHANGED <<free, active, tree, leaks, conn, used, gc, view, ro, reset,
                    xid, pxid>>
  BY <1>s DEF StorePending, hdrVars, storeVars, procVars, runVars,
     Goto, Runs, TypeOK
<1>2. Writing(t) /\ Settled(t) /\ Loads(t) /\ Holds(t) /\ Edits(t) /\ OneOwner
  BY <1>1, Zenon DEF PageInv, Good, Locked, Writing
<1>3. Slot(t) \in Conn /\ Slot(t)' = Slot(t) /\ t \in Writers
  BY <1>1, <1>2, SlotInConn, Zenon DEF Slot, LockInv, WriteInv
<1>u. ASSUME NEW u \in Txns \ {t}, pg[u] # {}
      PROVE  pend'[Slot(u)] = pend[Slot(u)]
  <2>1. Slot(u) \in Conn /\ Slot(u) # Slot(t) /\ ~Unlocked(Slot(u))
    BY <1>u, <1>1, <1>3, PendFrame, Zenon
  <2> QED
    BY <2>1, <1>1, Zenon
<1>4. Others(t)
  BY <1>1, <1>u DEF StorePending, Goto, Others, TypeOK
<1>k. /\ pend'[Slot(t)] = pg'[t] /\ pg'[t] \subseteq pg[t]
      /\ hand'[t] = pg[t] \ pg'[t]
  BY <1>1, Zenon
<1>h. /\ active = {} /\ Disjoint(pg[t], free \cup Pages(tree))
      /\ \A c \in Conn \ {Slot(t)} : Disjoint(pg[t], pend[c])
  BY <1>1, <1>2, Zenon DEF Holds, Out, NoActive
<1>5. OneOwner'
  <2>1. ASSUME NEW c \in Conn
        PROVE  /\ Disjoint(pend[c], free)' /\ Disjoint(pend[c], active)'
               /\ Disjoint(pend[c], Pages(tree))'
               /\ \A b \in Conn \ {c} : Disjoint(pend[c], pend[b])'
    BY <1>1, <1>2, <1>3, <1>k, <1>h, Zenon DEF OneOwner, Disjoint
  <2> QED
    BY <1>1, <1>2, <2>1, Zenon DEF OneOwner
<1>6. Settled(t)' /\ Loads(t)'
  BY <1>1, <1>2, <1>3, Zenon DEF Settled, Loads, Holds, NoView, DB, Closable, Out,
     Editing, NoActive
<1>7. pc'[t] \in Locked => Holds(t)' /\ Edits(t)'
  <2>1. pc'[t] \in Locked => Holds(t)'
    BY <1>1, <1>2, <1>3, <1>k, <1>h, Zenon DEF Holds, Disjoint, Out, Editing, NoActive
  <2>2. pc'[t] \in Locked => Edits(t)'
    BY <1>1, <1>2, Zenon DEF Edits, Editing
  <2> QED
    BY <2>1, <2>2, Zenon
<1>8. Conserved(t)
  BY <1>1, <1>3, <1>k, Zenon DEF Conserved, Has, Known, Locked
<1> QED
  BY <1>2, <1>4, <1>5, <1>6, <1>7, <1>8, WriterStep, Zenon DEF Good

LEMMA UnlockStep ==
  ASSUME Sound, NEW t \in Txns, Unlock(t)
  PROVE  PageKept
<1> TypeOK /\ LockInv /\ PageInv
  BY Zenon DEF Sound
<1>s. free' = free \/ free' = free \cup hand[t]
  BY GiveBackFacts, Zenon DEF Unlock, GiveBack, TypeOK
<1>1. /\ pc[t] = "unlock" /\ pc'[t] = IF reset[t] THEN "closed" ELSE "none"
      /\ hand'[t] = {}
      /\ free' = free \/ free' = free \cup hand[t]
      /\ UNCHANGED <<active, tree, pend, leaks, conn, pg, used, gc, view, ro,
                    xid>>
  BY <1>s, Zenon DEF Unlock, connVars, procVars, Goto, Runs, TypeOK
<1>2. Writing(t) /\ Settled(t) /\ Loads(t) /\ Holds(t) /\ Edits(t) /\ OneOwner
  BY <1>1, Zenon DEF PageInv, Good, Locked, Writing
<1>3. Slot(t) \in Conn /\ Slot(t)' = Slot(t) /\ t \in Writers
  BY <1>1, <1>2, SlotInConn, Zenon DEF Slot, LockInv, WriteInv
<1>4. Others(t)
  BY <1>1, Zenon DEF Unlock, Goto, Others, Slot, TypeOK
<1>5. OneOwner'
  <2>1. /\ Disjoint(hand[t], active) /\ Disjoint(hand[t], Pages(tree))
        /\ \A c \in Conn : Disjoint(hand[t], pend[c])
    BY <1>2, Zenon DEF Holds, Disjoint
  <2> QED
    BY <1>1, <1>2, <2>1, Zenon DEF OneOwner, Disjoint
<1>6. Settled(t)' /\ Loads(t)'
  BY <1>1, <1>2, <1>3, Zenon DEF Settled, Loads, Out, Editing
<1>7. pc'[t] \notin Locked
  BY <1>1, Zenon DEF Locked
<1>8. Conserved(t)
  BY <1>1, <1>2, <1>3, Zenon DEF Conserved, Has, Known, Locked, Holds, Edits, Pages,
     Out, Editing, NoActive, NoView, DB
<1> QED
  BY <1>2, <1>4, <1>5, <1>6, <1>7, <1>8, WriterStep, Zenon DEF Good

LEMMA SameTxn ==
  ASSUME NEW t \in Txns, Good(t),
         UNCHANGED <<pc[t], ro[t], reset[t], xid[t], pg[t], used[t], gc[t], hand[t],
                     view[t]>>,
         UNCHANGED <<free, active, tree, pend, pxid>>,
         pc[t] # "none" => Slot(t)' = Slot(t)
  PROVE  Good(t)'
<1>1. Settled(t)' /\ Loads(t)'
  BY Zenon DEF Good, Settled, Loads
<1>2. pc[t] \in Locked => Slot(t)' = Slot(t)
  BY Zenon DEF Locked
<1>3. pc'[t] \in Locked => Holds(t)'
  BY <1>2, Zenon DEF Good, Holds
<1>4. pc'[t] \in Locked => Edits(t)'
  BY Zenon DEF Good, Edits
<1> QED
  BY <1>1, <1>3, <1>4, Zenon DEF Good

(* The allocation of a gc page moves no page of the lists. *)
LEMMA GcStep ==
  ASSUME Sound, NEW t \in Txns, GcBegin(t) \/ GcTake(t)
  PROVE  PageKept
<1> SUFFICES ASSUME TypeOK, LockInv, PageInv PROVE PageInv'
  BY Zenon DEF Sound, PageKept
<1>1. UNCHANGED <<pc, ro, reset, xid, pg, used, gc, hand, view, free, active,
                  tree, pend, leaks, pxid, conn>>
  BY Zenon DEF GcBegin, GcTake, RecyclePages, hdrVars, connVars, storeVars, procVars,
     wrVars
<1>2. \A u \in Txns : Good(u)'
  BY <1>1, SameTxn, Zenon DEF PageInv, Slot
<1> QED
  BY <1>1, <1>2, Zenon DEF PageInv, OneOwner, LeakInv, Known, Has

(* Every step of a transaction object keeps every page in one place. *)
LEMMA TxnPageStep ==
  ASSUME Sound, NEW t \in Txns, TxnStep(t)
  PROVE  PageKept
BY TxnNewStep, OpenReadStep, OpenWriteStep, GetXidStep, SetXidStep,
   LoadRoot0Step, LoadRoot1Step, LoadFailsStep, RecoverActiveStep,
   FreeActiveStep, FreeActiveFailsStep, TakePendingStep, SetActiveStep,
   XminBeginStep, XminSlotStep, TakeStep, AllocFailsStep, RecordStep,
   CloneStep, NewNodeStep, WriteInPlaceStep, CommitBeginStep,
   StoreTreeStep, StoreXidStep, DiscardStep, CloseLockedStep,
   CloseUnlockedStep, FlushActiveStep, StorePendingStep, UnlockStep,
   GcStep, Zenon
   DEF TxnStep, Progress, Work, Close

-----------------------------------------------------------------------------
(* Steps of a process: opening and closing the index, accounting, repair and
   crashes. *)

(* Without a writer nothing but the durable places and the pending pages of
   idle objects holds a page. *)
LEMMA NobodyWrites ==
  ASSUME Sound, lock = NoProc, NEW t \in Txns
  PROVE  pc[t] \notin Locked /\ \A p \in Page : Has(t, p) => Known(p)
<1> TypeOK /\ LockInv /\ PageInv
  BY Zenon DEF Sound
<1>1. pc[t] \notin Locked
  BY TxnAssumption, Zenon DEF LockInv, WriteInv, Writing
<1>2. Settled(t)
  BY Zenon DEF PageInv, Good
<1>3. hand[t] = {} /\ gc[t] = {} /\ (pg[t] = {} \/ pg[t] \subseteq pend[Slot(t)])
  BY <1>1, <1>2, Zenon DEF Settled, Locked, Out, Editing
<1>4. pg[t] # {} => Slot(t) \in Conn
  BY <1>2, SlotInConn, Zenon DEF Settled
<1> QED
  BY <1>1, <1>3, <1>4, Zenon DEF Has, Known

LEMMA PendMarked == \A c \in Conn : pend[c] \subseteq Marked
BY Zenon DEF Marked

LEMMA ProcPageStep ==
  ASSUME \A q, r \in Repairers : q = r,
         Sound, NEW q \in Proc, ProcStep(q)
  PROVE  PageKept
<1> USE TxnAssumption
<1> TypeOK /\ LockInv /\ PageInv
  BY Zenon DEF Sound
<1>1. ASSUME NEW c \in Conn, IdxOpen(q, c) PROVE PageKept
  <2> SUFFICES PageInv'
    BY Zenon DEF PageKept
  <2>1. /\ UNCHANGED <<pc, ro, reset, xid, pg, used, gc, hand, view>>
        /\ UNCHANGED <<free, active, tree, pend, leaks, pxid>>
    BY <1>1, Zenon DEF IdxOpen, hdrVars, storeVars, wrVars, runVars
  <2>2. \A t \in Txns : pc[t] # "none" => Slot(t)' = Slot(t)
    BY <1>1, Zenon DEF IdxOpen, Slot, LockInv, ConnInv, TypeOK
  <2>3. \A t \in Txns : Good(t)'
    BY <2>1, <2>2, SameTxn, Zenon DEF PageInv
  <2> QED
    BY <2>1, <2>3, Zenon DEF PageInv, OneOwner, LeakInv, Known, Has
<1>2. ASSUME IdxClose(q) PROVE PageKept
  <2> SUFFICES PageInv'
    BY Zenon DEF PageKept
  <2>1. /\ UNCHANGED <<pc, ro, reset, xid, pg, used, gc, hand, view>>
        /\ UNCHANGED <<free, active, tree, pend, pxid>>
        /\ \A r \in Proc : leaks'[r] \subseteq leaks[r]
    BY <1>2, Zenon DEF IdxClose, storeVars, wrVars, runVars, TypeOK
  <2>2. \A t \in Txns : pc[t] # "none" => Slot(t)' = Slot(t)
    BY <1>2, Zenon DEF IdxClose, Slot, TypeOK
  <2>3. \A t \in Txns : Good(t)'
    BY <2>1, <2>2, SameTxn, Zenon DEF PageInv
  <2> QED
    BY <2>1, <2>3, Zenon DEF PageInv, OneOwner, LeakInv, Known, Has
<1>3. ASSUME Stat(q) PROVE PageKept
  <2> SUFFICES PageInv'
    BY Zenon DEF PageKept
  <2>1. /\ UNCHANGED <<pc, ro, reset, xid, pg, used, gc, hand, view>>
        /\ UNCHANGED <<free, active, tree, pend, conn, pxid>>
        /\ q \in Repairers /\ leaks'[q] = Leaked
        /\ \A r \in Proc \ {q} : leaks'[r] = leaks[r]
    BY <1>3, Zenon DEF Stat, hdrVars, storeVars, wrVars, runVars, TypeOK
  <2>2. \A t \in Txns : Good(t)'
    BY <2>1, SameTxn, Zenon DEF PageInv, Slot
  <2>3. ASSUME NEW p \in Leaked PROVE ~Known(p)
    <3>1. ASSUME NEW c \in Conn PROVE p \notin pend[c]
      BY PendMarked, Zenon DEF Leaked
    <3> QED
      BY <3>1, Zenon DEF Leaked, Marked, Known
  <2>4. \A p \in Leaked, t \in Txns : ~Has(t, p)
    BY <1>3, <2>3, NobodyWrites, Zenon DEF Stat, Leaked
  <2>5. LeakInv'
    BY <2>1, <2>3, <2>4 DEF PageInv, LeakInv, Known, Has
  <2> QED
    BY <2>1, <2>2, <2>5, Zenon DEF PageInv, OneOwner
<1>4. ASSUME Repair(q) PROVE PageKept
  <2> SUFFICES PageInv'
    BY Zenon DEF PageKept
  <2>1. /\ UNCHANGED <<pc, ro, reset, xid, pg, used, gc, hand, view>>
        /\ UNCHANGED <<active, tree, pend, conn>>
        /\ free' = free \cup leaks[q] /\ leaks'[q] = {}
        /\ \A r \in Proc \ {q} : leaks'[r] = leaks[r]
    BY <1>4, Zenon DEF Repair, FreePages, PutPages, hdrVars, connVars, wrVars, runVars,
       TypeOK
  <2>2. \A p \in leaks[q] : q \in Repairers /\ ~Known(p) /\ \A t \in Txns : ~Has(t, p)
    BY Zenon DEF PageInv, LeakInv, TypeOK
  <2>3. OneOwner'
    BY <2>1, <2>2, Zenon DEF PageInv, OneOwner, Known, Disjoint
  <2>4. ASSUME NEW t \in Txns PROVE Good(t)'
    <3>1. pc[t] \notin Locked /\ Settled(t) /\ Loads(t) /\ Slot(t)' = Slot(t)
      BY <1>4, <2>1, NobodyWrites, Zenon DEF Repair, PageInv, Good, Slot
    <3> QED
      BY <2>1, <3>1, Zenon DEF Good, Settled, Loads
  <2>5. \A r \in Proc \ {q} : leaks[r] = {}
    <3>1. leaks[q] # {}
      BY <1>4, Zenon DEF Repair
    <3> QED
      BY <2>2, <3>1, Zenon DEF PageInv, LeakInv, TypeOK
  <2>6. LeakInv'
    BY <2>1, <2>5, Zenon DEF LeakInv
  <2> QED
    BY <2>3, <2>4, <2>6, Zenon DEF PageInv
<1>5. ASSUME Crash(q) PROVE PageKept
  <2> SUFFICES PageInv'
    BY Zenon DEF PageKept
  <2>1. /\ UNCHANGED <<free, active, tree, pend, pxid>>
        /\ \A r \in Proc : leaks'[r] \subseteq leaks[r]
        /\ \A r \in Proc \ {q} : conn'[r] = conn[r]
    BY <1>5, Zenon DEF Crash, storeVars, TypeOK
  <2>2. ASSUME NEW t \in Txns, Owner[t] = q
        PROVE  /\ pc'[t] = "none" /\ view'[t] = NoView
               /\ pg'[t] = {} /\ used'[t] = {} /\ gc'[t] = {} /\ hand'[t] = {}
    BY <1>5, <2>2, Zenon DEF Crash
  <2>3. ASSUME NEW t \in Txns, Owner[t] # q
        PROVE  UNCHANGED <<pc[t], ro[t], reset[t], xid[t], pg[t], used[t], gc[t],
                           hand[t], view[t]>> /\ Slot(t)' = Slot(t)
    BY <1>5, <2>1, <2>3, Zenon DEF Crash, Slot
  <2>4. \A t \in Txns : Good(t)'
    <3>1. ASSUME NEW t \in Txns, Owner[t] = q PROVE Good(t)'
      BY <2>2, <3>1, Zenon DEF Good, Settled, Loads, Locked
    <3>2. ASSUME NEW t \in Txns, Owner[t] # q PROVE Good(t)'
      BY <2>1, <2>3, <3>2, SameTxn, Zenon DEF PageInv
    <3> QED
      BY <3>1, <3>2, Zenon
  <2>5. \A t \in Txns, p \in Page : Has(t, p)' => Has(t, p)
    <3>1. ASSUME NEW t \in Txns, NEW p \in Page, Owner[t] = q PROVE ~Has(t, p)'
      BY <2>2, <3>1, Zenon DEF Has, Locked
    <3>2. ASSUME NEW t \in Txns, NEW p \in Page, Owner[t] # q
          PROVE  Has(t, p)' = Has(t, p)
      BY <2>3, <3>2, Zenon DEF Has
    <3> QED
      BY <3>1, <3>2, Zenon
  <2> QED
    BY <2>1, <2>4, <2>5, Zenon DEF PageInv, OneOwner, LeakInv, Known
<1> QED
  BY <1>1, <1>2, <1>3, <1>4, <1>5, Zenon DEF ProcStep

LEMMA PageStep ==
  ASSUME \A q, r \in Repairers : q = r
  PROVE  Sound /\ [Next]_vars => PageKept
<1> SUFFICES ASSUME Sound, [Next]_vars PROVE PageKept
  BY Zenon
<1>1. CASE Next
  BY <1>1, TxnPageStep, ProcPageStep, Zenon DEF Next
<1>2. CASE UNCHANGED vars
  <2> SUFFICES ASSUME PageInv PROVE PageInv'
    BY Zenon DEF Sound, PageKept
  <2>1. UNCHANGED <<pc, ro, reset, xid, pg, used, gc, hand, view, free, active,
                    tree, pend, leaks, pxid, conn>>
    BY <1>2, Zenon DEF vars, hdrVars, connVars, storeVars, procVars, wrVars, runVars
  <2>2. \A t \in Txns : Good(t)'
    BY <2>1, SameTxn, Zenon DEF PageInv, Slot
  <2> QED
    BY <2>1, <2>2, Zenon DEF PageInv, OneOwner, LeakInv, Known, Has
<1> QED
  BY <1>1, <1>2, Zenon

LEMMA PageInit == Init => PageInv
<1> SUFFICES ASSUME Init PROVE PageInv
  BY Zenon
<1>1. OneOwner /\ LeakInv
  BY Zenon DEF Init, PageStoreInit, OneOwner, Disjoint, Pages, NoView, DB, LeakInv
<1>2. \A t \in Txns : Good(t)
  BY Zenon DEF Init, Good, Settled, Loads, Locked
<1> QED
  BY <1>1, <1>2, Zenon DEF PageInv

LEMMA SoundInit == Init => Sound
BY InitInv, PageInit, Zenon DEF Sound

LEMMA SoundStep ==
  ASSUME \A q, r \in Repairers : q = r
  PROVE  Sound /\ [Next]_vars => Sound'
<1> SUFFICES ASSUME Sound, [Next]_vars PROVE Sound'
  BY Zenon
<1>1. TypeOK /\ LockInv
  BY Zenon DEF Sound
<1>2. TypeOK' /\ LockInv'
  BY <1>1, TypeStep, LockStep, Zenon
<1>3. PageInv'
  BY PageStep, Zenon DEF PageKept
<1> QED
  BY <1>2, <1>3, Zenon DEF Sound

(* Every reachable state has a page in at most one place, for any processes,
   slots and pages, any lengths of the lists, any failing calls and any number
   of crashes at any point, as long as at most one process runs
   ed_idx_repair_leaks and it never finds as many leaks as its buffer holds
   (64): beyond that the code frees a batch twice, which Repair leaves out. *)
THEOREM OneOwnerTheorem ==
  ASSUME \A q, r \in Repairers : q = r
  PROVE  Spec /\ [](\A q \in Proc : FewLeaks(q)) => []OneOwner
<1>1. Sound => OneOwner
  BY Zenon DEF Sound, PageInv
<1> QED
  BY <1>1, SoundInit, SoundStep, PTL DEF Spec

-----------------------------------------------------------------------------
(* What a step of t leaves to the other transaction objects. *)
Apart(t) ==
  \A u \in Txns \ {t} :
    /\ pc'[u] = pc[u] /\ xid'[u] = xid[u] /\ inplace'[u] = inplace[u]
    /\ view'[u] = view[u] /\ used'[u] = used[u] /\ gc'[u] = gc[u]
    /\ pg'[u] = pg[u] /\ hand'[u] = hand[u] /\ ro'[u] = ro[u] /\ lx'[u] = lx[u]
    /\ xmin'[u] = xmin[u] /\ todo'[u] = todo[u] /\ gcpage'[u] = gcpage[u]

LEMMA StepApart ==
  ASSUME TypeOK, NEW t \in Txns, TxnStep(t)
  PROVE  Apart(t)
<1>1. CASE TxnNew(t)
  BY <1>1, Zenon DEF TxnNew, Apart, Goto, TypeOK, connVars, procVars, wrVars, runVars
<1>2. CASE OpenRead(t)
  BY <1>2, Zenon DEF OpenRead, Apart, Goto, TypeOK, connVars, procVars, wrVars, runVars
<1>3. CASE OpenWrite(t)
  BY <1>3, Zenon DEF OpenWrite, Apart, Goto, TypeOK, connVars, procVars, wrVars, runVars
<1>4. CASE CommitBegin(t)
  BY <1>4, Zenon DEF CommitBegin, Apart, Goto, TypeOK, connVars, procVars, wrVars, runVars
<1>5. CASE GetXid(t)
  BY <1>5, Zenon DEF GetXid, Apart, Goto, TypeOK, connVars, procVars, wrVars, runVars
<1>6. CASE SetXid(t)
  BY <1>6, Zenon DEF SetXid, Apart, Goto, TypeOK, connVars, procVars, wrVars, runVars
<1>7. CASE LoadRoot0(t)
  BY <1>7, Zenon DEF LoadRoot0, Apart, Goto, TypeOK, connVars, procVars, wrVars, runVars
<1>8. CASE LoadRoot1(t)
  BY <1>8, Zenon DEF LoadRoot1, Apart, Goto, TypeOK, connVars, procVars, wrVars, runVars
<1>9. CASE LoadFails(t)
  BY <1>9, Zenon DEF LoadFails, Apart, Goto, TypeOK, connVars, procVars, wrVars, runVars
<1>10. CASE RecoverActive(t)
  BY <1>10, Zenon DEF RecoverActive, Apart, Goto, TypeOK, connVars, procVars, wrVars, runVars
<1>11. CASE FreeActive(t)
  BY <1>11, Zenon DEF FreeActive, GcReady, Apart, Goto, TypeOK, connVars, procVars, wrVars, runVars
<1>12. CASE FreeActiveFails(t)
  BY <1>12, Zenon DEF FreeActiveFails, GcReady, Apart, Goto, TypeOK, connVars, procVars, wrVars, runVars
<1>13. CASE TakePending(t)
  BY <1>13, Zenon DEF TakePending, Apart, Goto, TypeOK, connVars, procVars, wrVars, runVars
<1>14. CASE SetActive(t)
  BY <1>14, Zenon DEF SetActive, GcReady, Apart, Goto, TypeOK, connVars, procVars, wrVars, runVars
<1>15. CASE Take(t)
  BY <1>15, Zenon DEF Take, Apart, Goto, TypeOK, connVars, procVars, wrVars, runVars
<1>16. CASE AllocFails(t)
  BY <1>16, Zenon DEF AllocFails, Apart, Goto, TypeOK, connVars, procVars, wrVars, runVars
<1>17. CASE Record(t)
  BY <1>17, Zenon DEF Record, Apart, Goto, TypeOK, connVars, procVars, wrVars, runVars
<1>18. CASE GcBegin(t)
  BY <1>18, Zenon DEF GcBegin, Apart, Goto, TypeOK, connVars, procVars, wrVars, runVars
<1>19. CASE GcTake(t)
  BY <1>19, Zenon DEF GcTake, Apart, Goto, TypeOK, connVars, procVars, wrVars, runVars
<1>20. CASE StoreTree(t)
  BY <1>20, Zenon DEF StoreTree, Apart, Goto, TypeOK, connVars, procVars, wrVars, runVars
<1>21. CASE StoreXid(t)
  BY <1>21, Zenon DEF StoreXid, Apart, Goto, TypeOK, connVars, procVars, wrVars, runVars
<1>22. CASE Discard(t)
  BY <1>22, Zenon DEF Discard, GcReady, Apart, Goto, TypeOK, connVars, procVars, wrVars, runVars
<1>23. CASE FlushActive(t)
  BY <1>23, Zenon DEF FlushActive, Apart, Goto, TypeOK, connVars, procVars, wrVars, runVars
<1>24. CASE StorePending(t)
  <2>1. PICK keep \in SUBSET pg[t] : /\ pg' = [pg EXCEPT ![t] = keep]
                                     /\ hand' = [hand EXCEPT ![t] = pg[t] \ keep]
    BY <1>24, Zenon DEF StorePending
  <2> QED
    BY <1>24, <2>1, Zenon DEF StorePending, Apart, Goto, TypeOK, runVars
<1>25. CASE Unlock(t)
  BY <1>25, Zenon DEF Unlock, GcReady, Apart, Goto, TypeOK, connVars, procVars, wrVars, runVars
<1>26. ASSUME NEW c \in Conn, XminSlot(t, c) PROVE Apart(t)
  BY <1>26, Zenon DEF XminSlot, Apart, Goto, TypeOK, connVars, procVars, wrVars, runVars
<1>27. CASE XminBegin(t)
  BY <1>27, Zenon DEF XminBegin, Apart, Goto, TypeOK, connVars, procVars, wrVars, runVars
<1>28. ASSUME NEW d \in DB, NEW n \in Page, NEW p \in Page, Clone(t, d, n, p)
      PROVE  Apart(t)
  BY <1>28, Zenon DEF Clone, Apart, Goto, TypeOK, connVars, procVars, wrVars, runVars
<1>29. ASSUME NEW d \in DB, NEW p \in Page, NewNode(t, d, p) PROVE Apart(t)
  BY <1>29, Zenon DEF NewNode, Apart, Goto, TypeOK, connVars, procVars, wrVars, runVars
<1>30. ASSUME NEW d \in DB, NEW n \in Page, WriteInPlace(t, d, n) PROVE Apart(t)
  BY <1>30, Zenon DEF WriteInPlace, Apart, Goto, TypeOK, connVars, procVars, wrVars, runVars
<1>31. ASSUME NEW r \in BOOLEAN, CloseLocked(t, r) PROVE Apart(t)
  BY <1>31, Zenon DEF CloseLocked, Forget, Apart, Goto, TypeOK, connVars, procVars, wrVars, runVars
<1>32. ASSUME NEW r \in BOOLEAN, CloseUnlocked(t, r) PROVE Apart(t)
  BY <1>32, Zenon DEF CloseUnlocked, Forget, Apart, Goto, TypeOK, connVars, procVars, wrVars, runVars
<1> QED
  BY <1>1, <1>2, <1>3, <1>4, <1>5, <1>6, <1>7, <1>8, <1>9, <1>10, <1>11,
     <1>12, <1>13, <1>14, <1>15, <1>16, <1>17, <1>18, <1>19, <1>20, <1>21,
     <1>22, <1>23, <1>24, <1>25, <1>26, <1>27, <1>28, <1>29, <1>30, <1>31,
     <1>32, Zenon DEF TxnStep, Progress, Work, Close

(* While one transaction holds the write lock no other does. *)
LEMMA OtherIdle ==
  ASSUME LockInv, NEW t \in Txns, pc[t] \in Locked, NEW u \in Txns \ {t}
  PROVE  pc[u] \notin Locked
BY WriterAlone, Zenon DEF Writing

(* Points from the snapshot of a writer to the store of its id. *)
Numbered == {"recover", "freeactive", "takepending", "setactive", "write",
             "alloc", "record", "error", "tree", "xid"}
=============================================================================
