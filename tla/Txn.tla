-------------------------------- MODULE Txn --------------------------------
(***************************************************************************)
(* Transactions over the shared index: lib/txn.c, the connection slots and *)
(* snapshots of lib/idx.c, the write lock of lib/lck.c and the accounting  *)
(* of lib/stat.c, used by several processes that map the same file and may *)
(* be killed at any step.                                                  *)
(*                                                                         *)
(* A tree is abstracted to the set of pages it is made of, and an          *)
(* operation on it to the pages it clones, adds or overwrites.  What stays *)
(* exact is the order of every store another process or a later recovery   *)
(* can observe: header fields, connection slots, the active and pending    *)
(* page lists, and the free pages of PageStore.                            *)
(***************************************************************************)
EXTENDS PageStore, FiniteSets

CONSTANTS
  Proc,            \* processes that open the index
  NoProc,          \* the holder of a lock nobody holds
  Conn,            \* connection slots in the header (hdr->nconns)
  NoConn,          \* the slot of a process that has not opened the index
  Txns,            \* transaction objects
  Owner,           \* the process of each transaction object
  Writers,         \* the objects opened for writing (cache->txn; an EdList only reads)
  ActiveMax,       \* length of hdr->active (255)
  PendingMax,      \* length of conn->pending (11)
  XLag,            \* age in transactions after which a slot is probed (16)
  GcFills,         \* whether a free may find the gc page full
  AllocSizes,      \* sizes of the batches ed_txn_alloc asks for
  MaxXid,          \* bound: no write transaction is opened at this hdr->xid
  MaxUsed,         \* bound on the pages one transaction uses
  CrashAt,         \* the program points at which a process may be killed
  MaxCrashes,      \* bound on the number of processes killed
  Fails,           \* the calls that may fail: "free", "map" and "lock"
  Repairers        \* processes that may call ed_stat_new / ed_idx_repair_leaks

ASSUME TxnAssumption ==
  /\ NoProc \notin Proc
  /\ Conn \subseteq Nat /\ NoConn \in Nat \ Conn
  /\ Owner \in [Txns -> Proc] /\ Writers \subseteq Txns
  /\ \A t, u \in Writers : Owner[t] = Owner[u] => t = u
  /\ ActiveMax \in Nat /\ PendingMax \in Nat /\ XLag \in Nat
  /\ AllocSizes \subseteq Nat \ {0}
  /\ MaxXid \in Nat /\ MaxUsed \in Nat /\ MaxCrashes \in Nat
  /\ Fails \subseteq {"free", "map", "lock"}
  /\ Repairers \subseteq Proc

ASSUME GcAssumption == GcFills \in BOOLEAN

DB == {0, 1}       \* ED_DB_KEYS and ED_DB_BLOCKS

VARIABLES
  \* the mapped header
  hxid,            \* hdr->xid
  tree,            \* hdr->tree: the pages of each committed tree
  active,          \* hdr->active
  lock,            \* the process holding the write lock (a thread lock too)
  \* the connection slots
  clock,           \* the process holding the slot's lock
  cpid,            \* whether c->pid is set
  cxid,            \* c->xid
  pend,            \* c->pending
  crashes,         \* processes killed so far (only to bound them)
  \* page contents
  pxid,            \* the transaction id stamped on a tree page, 0 once it is freed
  \* memory of the processes
  conn,            \* the slot a process acquired
  leaks,           \* the pages its last EdStat reported as leaked
  pc,              \* where each transaction object is
  ro,              \* txn->isrdonly
  reset,           \* ED_FRESET was given to the close in progress
  lx,              \* hdr->xid as read, before it is stored in the slot
  xid,             \* txn->xid
  xmin,            \* the minimum ed_idx_xmin found so far, while in ed_alloc
  todo,            \* the slots it has not looked at yet
  gcpage,          \* whether the free that comes next allocates a gc page
  view,            \* the pages of each tree as this transaction sees it
  pg,              \* txn->pg: pages allocated to the transaction object
  used,            \* the first npgused of them
  gc,              \* txn->gc: replaced pages
  hand,            \* pages held by a local variable between two stores
  inplace          \* pages overwritten that this transaction did not allocate

hdrVars == <<hxid, tree, active, lock>>
connVars == <<clock, cpid, cxid, pend>>
storeVars == <<free, gate>>
procVars == <<conn, leaks, crashes>>
wrVars == <<xid, pg, used, gc, hand, inplace>>
runVars == <<ro, reset, lx, xmin, todo, gcpage>>
vars == <<hdrVars, connVars, storeVars, procVars, wrVars, runVars,
          pxid, pc, view>>

NoView == [d \in DB |-> {}]
Pages(v) == v[0] \cup v[1]
Slot(t) == conn[Owner[t]]
Siblings(t) == {u \in Txns : Owner[u] = Owner[t]} \ {t}

Points == {"none", "closed", "getxid", "setxid", "load0", "load1", "open",
           "recover", "freeactive", "takepending", "setactive", "write",
           "alloc", "record", "error", "tree", "xid", "discard", "closing",
           "flush", "pending", "unlock"}

(* The allocation of a gc page within a free: not begun, looking at the slots,
   done. *)
GcSteps == {"no", "scan", "done"}

(* Points between two API calls: other transactions of the process may run. *)
Idle == {"none", "closed", "open"}

(* One handle is used by one thread at a time. *)
Runs(t, at) == pc[t] = at /\ \A u \in Siblings(t) : pc[u] \in Idle

Goto(t, at) == pc' = [pc EXCEPT ![t] = at]

TypeOK ==
  /\ PageStoreTypeOK
  /\ hxid \in Nat /\ tree \in [DB -> SUBSET Page] /\ active \in SUBSET Page
  /\ lock \in Proc \cup {NoProc}
  /\ clock \in [Conn -> Proc \cup {NoProc}] /\ cpid \in [Conn -> BOOLEAN]
  /\ cxid \in [Conn -> Nat] /\ pend \in [Conn -> SUBSET Page]
  /\ pxid \in [Page -> Nat] /\ crashes \in Nat
  /\ conn \in [Proc -> Conn \cup {NoConn}] /\ leaks \in [Proc -> SUBSET Page]
  /\ pc \in [Txns -> Points] /\ ro \in [Txns -> BOOLEAN]
  /\ reset \in [Txns -> BOOLEAN]
  /\ lx \in [Txns -> Nat] /\ xid \in [Txns -> Nat] /\ xmin \in [Txns -> Int]
  /\ todo \in [Txns -> SUBSET Conn]
  /\ gcpage \in [Txns -> GcSteps]
  /\ view \in [Txns -> [DB -> SUBSET Page]]
  /\ pg \in [Txns -> SUBSET Page] /\ used \in [Txns -> SUBSET Page]
  /\ gc \in [Txns -> SUBSET Page] /\ hand \in [Txns -> SUBSET Page]
  /\ inplace \in [Txns -> SUBSET Page]

(* ed_idx_open with ED_FREPLACE: the header is INDEX_DEFAULT. *)
Init ==
  /\ PageStoreInit
  /\ hxid = 1 /\ tree = NoView /\ active = {} /\ lock = NoProc
  /\ clock = [c \in Conn |-> NoProc] /\ cpid = [c \in Conn |-> FALSE]
  /\ cxid = [c \in Conn |-> 0] /\ pend = [c \in Conn |-> {}]
  /\ pxid = [p \in Page |-> 0] /\ crashes = 0
  /\ conn = [q \in Proc |-> NoConn] /\ leaks = [q \in Proc |-> {}]
  /\ pc = [t \in Txns |-> "none"] /\ ro = [t \in Txns |-> FALSE]
  /\ reset = [t \in Txns |-> FALSE]
  /\ lx = [t \in Txns |-> 0] /\ xid = [t \in Txns |-> 0]
  /\ xmin = [t \in Txns |-> 0] /\ todo = [t \in Txns |-> {}]
  /\ gcpage = [t \in Txns |-> "no"]
  /\ view = [t \in Txns |-> NoView]
  /\ pg = [t \in Txns |-> {}] /\ used = [t \in Txns |-> {}]
  /\ gc = [t \in Txns |-> {}] /\ hand = [t \in Txns |-> {}]
  /\ inplace = [t \in Txns |-> {}]

(* ed_free_pgno: the allocator takes the pages, their contents are dead. *)
FreePages(S, x) ==
  /\ PutPages(S, x)
  /\ pxid' = [p \in Page |-> IF p \in S THEN 0 ELSE pxid[p]]

(* Mutant: the pages are dropped. *)
DropPages(S, x) == UNCHANGED <<storeVars, pxid>>

(* The same for callers that ignore its result: when it fails, the pages are
   lost. *)
GiveBack(S, x) ==
  \/ FreePages(S, x)
  \/ "free" \in Fails /\ S # {} /\ UNCHANGED <<storeVars, pxid>>

(* The free of this step comes after the gc page it may have needed. *)
GcReady(t) ==
  /\ gcpage[t] # "scan"
  /\ gcpage' = [gcpage EXCEPT ![t] = "no"]

-----------------------------------------------------------------------------
(* Opening and closing the index: connection slots.                        *)

Unlocked(c) == clock[c] = NoProc

(* Slots the first pass of conn_acquire tries: closed ones, and ones whose
   transaction id is too old to be trusted. *)
Preferred(c) ==
  LET oldest == IF hxid > XLag THEN hxid - XLag ELSE 0
  IN  ~(cpid[c] /\ (cxid[c] = 0 \/ cxid[c] >= oldest))

(* conn_acquire: the first preferred slot that can be locked, else the first
   slot that can be locked. *)
Acquirable(c) ==
  LET ok == {b \in Conn : Unlocked(b) /\ Preferred(b)}
      S == IF ok # {} THEN ok ELSE {b \in Conn : Unlocked(b)}
  IN  c \in S /\ \A b \in S : c <= b

(* ed_idx_open, conn_acquire.  The pending pages of a dead owner stay in the
   slot. *)
IdxOpen(q, c) ==
  /\ conn[q] = NoConn
  /\ Acquirable(c)
  /\ clock' = [clock EXCEPT ![c] = q]
  /\ cpid' = [cpid EXCEPT ![c] = TRUE]
  /\ cxid' = [cxid EXCEPT ![c] = 0]
  /\ conn' = [conn EXCEPT ![q] = c]
  /\ UNCHANGED <<hdrVars, pend, storeVars, leaks, crashes, wrVars, runVars,
                 pxid, pc, view>>

(* ed_idx_close, conn_release: once every transaction object is gone. *)
IdxClose(q) ==
  /\ conn[q] # NoConn
  /\ \A t \in Txns : Owner[t] = q => pc[t] = "none"
  /\ clock' = [clock EXCEPT ![conn[q]] = NoProc]
  /\ cpid' = [cpid EXCEPT ![conn[q]] = FALSE]
  /\ cxid' = [cxid EXCEPT ![conn[q]] = 0]
  /\ conn' = [conn EXCEPT ![q] = NoConn]
  /\ leaks' = [leaks EXCEPT ![q] = {}]
  /\ lock' = IF lock = q THEN NoProc ELSE lock
  /\ UNCHANGED <<hxid, tree, active, pend, storeVars, crashes, wrVars, runVars,
                 pxid, pc, view>>

(* ed_txn_new *)
TxnNew(t) ==
  /\ Slot(t) # NoConn
  /\ Runs(t, "none")
  /\ Goto(t, "closed")
  /\ UNCHANGED <<hdrVars, connVars, storeVars, procVars, wrVars, runVars, pxid,
                 view>>

(* Mutant: the write lock is taken over from its holder. *)
StealLck(t) == lock' = Owner[t]

(* ed_lck with ED_LCK_EX; the caller waits until it is enabled. *)
EdLck(t) == lock = NoProc /\ lock' = Owner[t]

-----------------------------------------------------------------------------
(* ed_txn_open                                                             *)

OpenRead(t) ==
  /\ Runs(t, "closed")
  /\ Goto(t, "getxid")
  /\ ro' = [ro EXCEPT ![t] = TRUE]
  /\ UNCHANGED <<hdrVars, connVars, storeVars, procVars, wrVars, reset, lx,
                 xmin, todo, gcpage, pxid, view>>

(* A writer holds the write lock from here until it closes. *)
OpenWrite(t) ==
  /\ t \in Writers
  /\ Runs(t, "closed")
  /\ hxid < MaxXid
  /\ EdLck(t)
  /\ Goto(t, "getxid")
  /\ ro' = [ro EXCEPT ![t] = FALSE]
  /\ UNCHANGED <<hxid, tree, active, connVars, storeVars, procVars, wrVars,
                 reset, lx, xmin, todo, gcpage, pxid, view>>

(* ed_idx_acquire_xid: the load of hdr->xid ... *)
GetXid(t) ==
  /\ Runs(t, "getxid")
  /\ lx' = [lx EXCEPT ![t] = hxid]
  /\ Goto(t, "setxid")
  /\ UNCHANGED <<hdrVars, connVars, storeVars, procVars, wrVars, ro, reset,
                 xmin, todo, gcpage, pxid, view>>

(* ... and its store into the slot, after which the snapshot is protected. *)
SetXid(t) ==
  /\ Runs(t, "setxid")
  /\ cxid' = [cxid EXCEPT ![Slot(t)] = lx[t]]
  /\ lx' = [lx EXCEPT ![t] = 0]
  /\ Goto(t, "load0")
  /\ UNCHANGED <<hdrVars, clock, cpid, pend, storeVars, procVars, wrVars, ro,
                 reset, xmin, todo, gcpage, pxid, view>>

(* ed_idx_acquire_snapshot reads the two roots one after the other. *)
LoadRoot0(t) ==
  /\ Runs(t, "load0")
  /\ view' = [view EXCEPT ![t][0] = tree[0]]
  /\ Goto(t, "load1")
  /\ UNCHANGED <<hdrVars, connVars, storeVars, procVars, wrVars, runVars,
                 pxid>>

LoadRoot1(t) ==
  /\ Runs(t, "load1")
  /\ view' = [view EXCEPT ![t][1] = tree[1]]
  /\ Goto(t, IF ro[t] THEN "open" ELSE "recover")
  /\ xid' = [xid EXCEPT ![t] = IF ro[t] THEN 0 ELSE hxid + 1]
  /\ UNCHANGED <<hdrVars, connVars, storeVars, procVars, pg, used, gc, hand,
                 inplace, runVars, pxid>>

(* A root that cannot be mapped: the snapshot is released and ed_txn_open
   returns, a writer with the write lock still held. *)
LoadFails(t) ==
  /\ "map" \in Fails
  /\ Runs(t, "load0") \/ Runs(t, "load1")
  /\ cxid' = [cxid EXCEPT ![Slot(t)] = 0]
  /\ view' = [view EXCEPT ![t] = NoView]
  /\ ro' = [ro EXCEPT ![t] = FALSE]
  /\ Goto(t, "closed")
  /\ UNCHANGED <<hdrVars, clock, cpid, pend, storeVars, procVars, wrVars,
                 reset, lx, xmin, todo, gcpage, pxid>>

(* The pages an abandoned transaction left in hdr->active leave that list
   before they enter the free list, so that no crash puts them in both. *)
RecoverActive(t) ==
  /\ Runs(t, "recover")
  /\ hand' = [hand EXCEPT ![t] = active]
  /\ active' = {}
  /\ Goto(t, "freeactive")
  /\ UNCHANGED <<hxid, tree, lock, connVars, storeVars, procVars, xid, pg,
                 used, gc, inplace, runVars, pxid, view>>

FreeActive(t) ==
  /\ Runs(t, "freeactive")
  /\ GcReady(t)
  /\ FreePages(hand[t], 0)
  /\ hand' = [hand EXCEPT ![t] = {}]
  /\ Goto(t, "takepending")
  /\ UNCHANGED <<hdrVars, connVars, procVars, xid, pg, used, gc, inplace, ro,
                 reset, lx, xmin, todo, view>>

(* Mutant: the lock is not released when the free fails. *)
FreeActiveFailsLocked(t) ==
  /\ "free" \in Fails
  /\ Runs(t, "freeactive")
  /\ GcReady(t)
  /\ hand[t] # {}
  /\ active' = hand[t]
  /\ hand' = [hand EXCEPT ![t] = {}]
  /\ view' = [view EXCEPT ![t] = NoView]
  /\ Goto(t, "closed")
  /\ UNCHANGED <<hxid, tree, lock, connVars, storeVars, procVars, xid, pg, used,
                 gc, inplace, ro, reset, lx, xmin, todo, pxid>>

(* ed_free_pgno failed: the active list is restored, the lock released; the
   slot keeps its transaction id. *)
FreeActiveFails(t) ==
  /\ "free" \in Fails
  /\ Runs(t, "freeactive")
  /\ GcReady(t)
  /\ hand[t] # {}
  /\ active' = hand[t]
  /\ hand' = [hand EXCEPT ![t] = {}]
  /\ view' = [view EXCEPT ![t] = NoView]
  /\ lock' = NoProc
  /\ Goto(t, "closed")
  /\ UNCHANGED <<hxid, tree, connVars, storeVars, procVars, xid, pg, used, gc,
                 inplace, ro, reset, lx, xmin, todo, pxid>>

(* Mutant: pages the object holds are returned to the free list too. *)
InactiveAll(t) == pend[Slot(t)]

(* The pending pages the object does not hold itself.  The inner loop of the
   code stops at the first page it compares, so this is all of them or none. *)
Inactive(t) == IF pg[t] = {} THEN pend[Slot(t)] ELSE {}

TakePending(t) ==
  /\ Runs(t, "takepending")
  /\ hand' = [hand EXCEPT ![t] = Inactive(t)]
  /\ pend' = [pend EXCEPT ![Slot(t)] = {}]
  /\ Goto(t, "setactive")
  /\ UNCHANGED <<hdrVars, clock, cpid, cxid, storeVars, procVars, xid, pg,
                 used, gc, inplace, runVars, pxid, view>>

SetActive(t) ==
  /\ Runs(t, "setactive")
  /\ GcReady(t)
  /\ GiveBack(hand[t], 0)
  /\ hand' = [hand EXCEPT ![t] = {}]
  /\ active' = IF pg[t] = {} THEN active ELSE pg[t]
  /\ Goto(t, "write")
  /\ UNCHANGED <<hxid, tree, lock, connVars, procVars, xid, pg, used, gc,
                 inplace, ro, reset, lx, xmin, todo, view>>

-----------------------------------------------------------------------------
(* ed_txn_alloc, and the tree operations that use it.                      *)

(* ed_alloc begins: the newest snapshot a reader could still lack. *)
XminBegin(t) ==
  /\ Runs(t, "write")
  /\ pg[t] = used[t]
  /\ Cardinality(used[t]) < MaxUsed
  /\ xmin' = [xmin EXCEPT ![t] = hxid - 1]
  /\ todo' = [todo EXCEPT ![t] = Conn]
  /\ Goto(t, "alloc")
  /\ UNCHANGED <<hdrVars, connVars, storeVars, procVars, wrVars, ro, reset, lx,
                 gcpage, pxid, view>>

(* A slot whose snapshot ed_idx_xmin has to respect unless its owner is dead. *)
InUse(c) == cpid[c] /\ cxid[c] # 0
Lagging(c) == hxid - 1 > XLag /\ cxid[c] < hxid - 1 - XLag

(* ed_free_pgno finds the gc page full and calls ed_alloc for another one. *)
FreePoints == {"freeactive", "setactive", "discard", "unlock"}
Scans(t) == gcpage[t] = "scan" /\ \E at \in FreePoints : Runs(t, at)

GcBegin(t) ==
  /\ GcFills
  /\ \E at \in FreePoints : Runs(t, at) /\ (IF at = "discard" THEN gc[t] ELSE hand[t]) # {}
  /\ gcpage[t] = "no"
  /\ gcpage' = [gcpage EXCEPT ![t] = "scan"]
  /\ xmin' = [xmin EXCEPT ![t] = hxid - 1]
  /\ todo' = [todo EXCEPT ![t] = Conn]
  /\ UNCHANGED <<hdrVars, connVars, storeVars, procVars, wrVars, ro, reset, lx,
                 pxid, pc, view>>

(* The pages it gets stay with the allocator; nothing gates them any more. *)
GcTake(t) ==
  /\ Scans(t)
  /\ todo[t] = {}
  /\ \E S \in SUBSET free : RecyclePages(S, xmin[t])
  /\ gcpage' = [gcpage EXCEPT ![t] = "done"]
  /\ xmin' = [xmin EXCEPT ![t] = 0]
  /\ UNCHANGED <<hdrVars, connVars, procVars, wrVars, ro, reset, lx, todo,
                 pxid, pc, view>>

(* ed_idx_xmin, one slot.  A slot that lags is probed, and one that was active
   in the last seconds may be; a probed slot nobody holds is wiped, its
   pending pages included. *)
XminSlot(t, c) ==
  /\ Runs(t, "alloc") \/ Scans(t)
  /\ c \in todo[t] /\ \A b \in todo[t] : c <= b
  /\ todo' = [todo EXCEPT ![t] = @ \ {c}]
  /\ \/ /\ InUse(c) /\ c # Slot(t) /\ Unlocked(c)
        /\ cpid' = [cpid EXCEPT ![c] = FALSE]
        /\ cxid' = [cxid EXCEPT ![c] = 0]
        /\ pend' = [pend EXCEPT ![c] = {}]
        /\ UNCHANGED xmin
     \/ /\ InUse(c) /\ (c = Slot(t) \/ ~Unlocked(c) \/ ~Lagging(c))
        /\ xmin' = [xmin EXCEPT ![t] = IF cxid[c] < @ THEN cxid[c] ELSE @]
        /\ UNCHANGED <<cpid, cxid, pend>>
     \/ /\ ~InUse(c)
        /\ UNCHANGED <<xmin, cpid, cxid, pend>>
  /\ UNCHANGED <<hdrVars, clock, storeVars, procVars, wrVars, ro, reset, lx,
                 gcpage, pxid, pc, view>>

(* ed_alloc ends: the pages are nowhere but in txn->pg. *)
Take(t) ==
  /\ Runs(t, "alloc")
  /\ todo[t] = {}
  /\ \E S \in SUBSET free :
       /\ Cardinality(S) \in AllocSizes
       /\ TakePages(S, xmin[t])
       /\ hand' = [hand EXCEPT ![t] = S]
  /\ xmin' = [xmin EXCEPT ![t] = 0]
  /\ Goto(t, "record")
  /\ UNCHANGED <<hdrVars, connVars, procVars, xid, pg, used, gc, inplace, ro,
                 reset, lx, todo, gcpage, pxid, view>>

(* ed_alloc finds no room (the file cannot grow) or cannot map a page: the
   transaction is in error and can only be closed. *)
AllocFails(t) ==
  /\ Runs(t, "alloc")
  /\ todo[t] = {}
  /\ \/ "map" \in Fails
     \/ \E n \in AllocSizes :
          ~\E S \in SUBSET {p \in free : Reusable(p, xmin[t])} : Cardinality(S) = n
  /\ xmin' = [xmin EXCEPT ![t] = 0]
  /\ Goto(t, "error")
  /\ UNCHANGED <<hdrVars, connVars, storeVars, procVars, wrVars, ro, reset, lx,
                 todo, gcpage, pxid, view>>

(* As many of them as fit are recorded in hdr->active. *)
Record(t) ==
  /\ Runs(t, "record")
  /\ \E S \in SUBSET hand[t] :
       /\ Cardinality(active) + Cardinality(S) <= ActiveMax
       /\ S # hand[t] => Cardinality(active) + Cardinality(S) = ActiveMax
       /\ active' = active \cup S
  /\ pg' = [pg EXCEPT ![t] = @ \cup hand[t]]
  /\ hand' = [hand EXCEPT ![t] = {}]
  /\ Goto(t, "write")
  /\ UNCHANGED <<hxid, tree, lock, connVars, storeVars, procVars, xid, used,
                 gc, inplace, runVars, pxid, view>>

(* Mutant: nodes of the last commit count as the transaction's own. *)
MustCloneOlder(t, n) == pxid[n] < xid[t] - 1

(* The tree code replaces a node in place when its stamp is not older than
   the transaction, and a copy of it otherwise. *)
MustClone(t, n) == pxid[n] < xid[t]

(* ed_txn_discard: the replaced page is queued for the free list. *)
ReplacedBy(t, n) == gc[t] \cup {n}

(* ed_txn_clone: page p takes the place of page n in tree d, and n is queued
   for the free list (ed_txn_discard). *)
Clone(t, d, n, p) ==
  /\ Runs(t, "write")
  /\ Cardinality(used[t]) < MaxUsed
  /\ n \in view[t][d] /\ MustClone(t, n)
  /\ p \in pg[t] \ used[t]
  /\ used' = [used EXCEPT ![t] = @ \cup {p}]
  /\ pxid' = [pxid EXCEPT ![p] = xid[t]]
  /\ view' = [view EXCEPT ![t][d] = (@ \ {n}) \cup {p}]
  /\ gc' = [gc EXCEPT ![t] = ReplacedBy(t, n)]
  /\ UNCHANGED <<hdrVars, connVars, storeVars, procVars, xid, pg, hand,
                 inplace, runVars, pc>>

(* ed_txn_alloc for a first leaf, a split or a new root. *)
NewNode(t, d, p) ==
  /\ Runs(t, "write")
  /\ Cardinality(used[t]) < MaxUsed
  /\ p \in pg[t] \ used[t]
  /\ used' = [used EXCEPT ![t] = @ \cup {p}]
  /\ pxid' = [pxid EXCEPT ![p] = xid[t]]
  /\ view' = [view EXCEPT ![t][d] = @ \cup {p}]
  /\ UNCHANGED <<hdrVars, connVars, storeVars, procVars, xid, pg, gc, hand,
                 inplace, runVars, pc>>

(* The same code path taken for a page the transaction did not allocate. *)
WriteInPlace(t, d, n) ==
  /\ Runs(t, "write")
  /\ n \in view[t][d] \ used[t] /\ ~MustClone(t, n)
  /\ inplace' = [inplace EXCEPT ![t] = @ \cup {n}]
  /\ UNCHANGED <<hdrVars, connVars, storeVars, procVars, xid, pg, used, gc,
                 hand, runVars, pxid, pc, view>>

-----------------------------------------------------------------------------
(* ed_txn_commit                                                           *)

(* flush_active; the unused pages are shifted to the front of txn->pg. *)
CommitBegin(t) ==
  /\ Runs(t, "write")
  /\ active' = {}
  /\ pg' = [pg EXCEPT ![t] = @ \ used[t]]
  /\ used' = [used EXCEPT ![t] = {}]
  /\ Goto(t, "tree")
  /\ UNCHANGED <<hxid, tree, lock, connVars, storeVars, procVars, xid, gc,
                 hand, inplace, runVars, pxid, view>>

(* hdr->vtree: both roots in one store. *)
StoreTree(t) ==
  /\ Runs(t, "tree")
  /\ tree' = view[t]
  /\ Goto(t, "xid")
  /\ UNCHANGED <<hxid, active, lock, connVars, storeVars, procVars, wrVars,
                 runVars, pxid, view>>

StoreXid(t) ==
  /\ Runs(t, "xid")
  /\ hxid' = xid[t]
  /\ Goto(t, "discard")
  /\ UNCHANGED <<tree, active, lock, connVars, storeVars, procVars, wrVars,
                 runVars, pxid, view>>

(* The replaced pages are freed under the new transaction id; when that
   fails they are leaked. *)
Discard(t) ==
  /\ Runs(t, "discard")
  /\ GcReady(t)
  /\ GiveBack(gc[t], xid[t])
  /\ gc' = [gc EXCEPT ![t] = {}]
  /\ Goto(t, "closing")
  /\ UNCHANGED <<hdrVars, connVars, procVars, xid, pg, used, hand, inplace, ro,
                 reset, lx, xmin, todo, view>>

-----------------------------------------------------------------------------
(* ed_txn_close: r stands for ED_FRESET, which keeps the object for reuse. *)

Closable == {"closed", "open", "write", "error", "closing"}

(* Mutant: a transaction in error is not seen as holding the lock. *)
HasLockNoError(t) == pc[t] \in {"write", "closing"}

(* Whether the closing transaction is a writer that holds the write lock. *)
HasLock(t) == pc[t] \in {"write", "error", "closing"}

(* The object forgets its snapshot and the work of the transaction. *)
Forget(t) ==
  /\ view' = [view EXCEPT ![t] = NoView]
  /\ used' = [used EXCEPT ![t] = {}]
  /\ gc' = [gc EXCEPT ![t] = {}]
  /\ inplace' = [inplace EXCEPT ![t] = {}]
  /\ xid' = [xid EXCEPT ![t] = 0]
  /\ ro' = [ro EXCEPT ![t] = FALSE]

(* ed_idx_release_xid; a reset of an object that is not open skips it. *)
ReleaseXid(t, r) ==
  cxid' = IF r /\ pc[t] = "closed" THEN cxid ELSE [cxid EXCEPT ![Slot(t)] = 0]

(* A writer, or an object that still holds pages: the pages are settled under
   the write lock. *)
CloseLocked(t, r) ==
  /\ \E at \in Closable : Runs(t, at)
  /\ \/ HasLock(t) /\ UNCHANGED lock
     \/ ~HasLock(t) /\ pg[t] # {} /\ EdLck(t)
  /\ reset' = [reset EXCEPT ![t] = r]
  /\ ReleaseXid(t, r)
  /\ Forget(t)
  /\ Goto(t, "flush")
  /\ UNCHANGED <<hxid, tree, active, clock, cpid, pend, storeVars, procVars,
                 pg, hand, lx, xmin, todo, gcpage, pxid>>

(* A reader without pages, or an object that does not get the lock: its own
   process kept it after LoadFails, or with ED_FNOBLOCK ("lock" may fail)
   another one has it. *)
CloseUnlocked(t, r) ==
  /\ Runs(t, "closed") \/ Runs(t, "open")
  /\ pg[t] # {} => lock = Owner[t] \/ ("lock" \in Fails /\ lock # NoProc)
  /\ ReleaseXid(t, r)
  /\ Forget(t)
  /\ pg' = [pg EXCEPT ![t] = IF r THEN @ ELSE {}]
  /\ Goto(t, IF r THEN "closed" ELSE "none")
  /\ UNCHANGED <<hdrVars, clock, cpid, pend, storeVars, procVars, hand, reset,
                 lx, xmin, todo, gcpage, pxid>>

(* flush_active *)
FlushActive(t) ==
  /\ Runs(t, "flush")
  /\ active' = {}
  /\ Goto(t, "pending")
  /\ UNCHANGED <<hxid, tree, lock, connVars, storeVars, procVars, wrVars,
                 runVars, pxid, view>>

(* Pages kept for the next transaction are recorded in the slot, up to its
   capacity; the others are about to be freed. *)
StorePending(t) ==
  /\ Runs(t, "pending")
  /\ \E keep \in SUBSET pg[t] :
       /\ Cardinality(keep) <= PendingMax
       /\ IF reset[t]
          THEN keep # pg[t] => Cardinality(keep) = PendingMax
          ELSE keep = {}
       /\ pend' = [pend EXCEPT ![Slot(t)] = keep]
       /\ pg' = [pg EXCEPT ![t] = keep]
       /\ hand' = [hand EXCEPT ![t] = pg[t] \ keep]
  /\ Goto(t, "unlock")
  /\ UNCHANGED <<hdrVars, clock, cpid, cxid, storeVars, procVars, xid, used,
                 gc, inplace, runVars, pxid, view>>

Unlock(t) ==
  /\ Runs(t, "unlock")
  /\ GcReady(t)
  /\ GiveBack(hand[t], 0)
  /\ hand' = [hand EXCEPT ![t] = {}]
  /\ lock' = NoProc
  /\ reset' = [reset EXCEPT ![t] = FALSE]
  /\ Goto(t, IF reset[t] THEN "closed" ELSE "none")
  /\ UNCHANGED <<hxid, tree, active, connVars, procVars, xid, pg, used, gc,
                 inplace, ro, lx, xmin, todo, view>>

-----------------------------------------------------------------------------
(* Accounting, repair and crashes.                                         *)

(* Mutant: the pending lists of the slots are not marked. *)
MarkedNoPending == free \cup active \cup Pages(tree)

(* What ed_stat_new marks: every page the file can still account for. *)
Marked ==
  free \cup active \cup Pages(tree) \cup UNION {pend[c] : c \in Conn}

Leaked == Page \ Marked

(* ed_stat_new, from its lock to its unlock; it ends by releasing the slot's
   transaction id. *)
Stat(q) ==
  /\ q \in Repairers /\ conn[q] # NoConn
  /\ lock = NoProc
  /\ \A t \in Txns : Owner[t] = q => pc[t] \in Idle
  /\ leaks' = [leaks EXCEPT ![q] = Leaked]
  /\ cxid' = [cxid EXCEPT ![conn[q]] = 0]
  /\ UNCHANGED <<hdrVars, clock, cpid, pend, storeVars, conn, crashes, wrVars,
                 runVars, pxid, pc, view>>

(* The buffer of ed_idx_repair_leaks (leaks[64]).  The code does not empty it
   after a batch: with as many leaks as it holds the batch is freed again, and
   with more the code writes past its end.  Neither is modelled. *)
LeakMax == 64
FewLeaks(q) == Cardinality(leaks[q]) < LeakMax

(* ed_idx_repair_leaks, where one batch takes all leaks. *)
Repair(q) ==
  /\ leaks[q] # {} /\ conn[q] # NoConn
  /\ FewLeaks(q)
  /\ lock = NoProc
  /\ \A t \in Txns : Owner[t] = q => pc[t] \in Idle
  /\ FreePages(leaks[q], 0)
  /\ leaks' = [leaks EXCEPT ![q] = {}]
  /\ UNCHANGED <<hdrVars, connVars, conn, crashes, wrVars, runVars, pc, view>>

(* A process is killed: its memory is lost and the kernel drops its locks;
   the mapped file keeps what was stored. *)
Crash(q) ==
  LET dead(t) == Owner[t] = q
      wipe(f, v) == [t \in Txns |-> IF dead(t) THEN v ELSE f[t]]
  IN
  /\ conn[q] # NoConn
  /\ crashes < MaxCrashes
  /\ \A t \in Txns : dead(t) => pc[t] \in CrashAt
  /\ lock' = IF lock = q THEN NoProc ELSE lock
  /\ clock' = [clock EXCEPT ![conn[q]] = NoProc]
  /\ conn' = [conn EXCEPT ![q] = NoConn]
  /\ leaks' = [leaks EXCEPT ![q] = {}]
  /\ pc' = wipe(pc, "none")
  /\ view' = wipe(view, NoView)
  /\ pg' = wipe(pg, {}) /\ used' = wipe(used, {}) /\ gc' = wipe(gc, {})
  /\ hand' = wipe(hand, {}) /\ inplace' = wipe(inplace, {})
  /\ xid' = wipe(xid, 0) /\ lx' = wipe(lx, 0) /\ ro' = wipe(ro, FALSE)
  /\ reset' = wipe(reset, FALSE) /\ xmin' = wipe(xmin, 0) /\ todo' = wipe(todo, {})
  /\ gcpage' = wipe(gcpage, "no")
  /\ crashes' = crashes + 1
  /\ UNCHANGED <<hxid, tree, active, cpid, cxid, pend, storeVars, pxid>>

-----------------------------------------------------------------------------
(* The steps a transaction object takes once a call is under way. *)
Progress(t) ==
  \/ GetXid(t) \/ SetXid(t) \/ LoadRoot0(t) \/ LoadRoot1(t) \/ LoadFails(t)
  \/ RecoverActive(t) \/ FreeActive(t) \/ FreeActiveFails(t)
  \/ TakePending(t) \/ SetActive(t)
  \/ GcBegin(t) \/ GcTake(t)
  \/ \E c \in Conn : XminSlot(t, c)
  \/ Take(t) \/ AllocFails(t) \/ Record(t)
  \/ StoreTree(t) \/ StoreXid(t) \/ Discard(t)
  \/ FlushActive(t) \/ StorePending(t) \/ Unlock(t)

Close(t) == \E r \in BOOLEAN : CloseLocked(t, r) \/ CloseUnlocked(t, r)

(* The calls the application makes on an open write transaction. *)
Work(t) ==
  \/ XminBegin(t)
  \/ \E d \in DB, p \in Page : NewNode(t, d, p)
  \/ \E d \in DB, n, p \in Page : Clone(t, d, n, p)
  \/ \E d \in DB, n \in Page : WriteInPlace(t, d, n)

TxnStep(t) ==
  \/ TxnNew(t) \/ OpenRead(t) \/ OpenWrite(t)
  \/ Progress(t) \/ Work(t) \/ CommitBegin(t) \/ Close(t)

ProcStep(q) ==
  \/ \E c \in Conn : IdxOpen(q, c)
  \/ IdxClose(q) \/ Stat(q) \/ Repair(q) \/ Crash(q)

Next == (\E t \in Txns : TxnStep(t)) \/ (\E q \in Proc : ProcStep(q))

Spec == Init /\ [][Next]_vars

-----------------------------------------------------------------------------
(* Properties.                                                             *)

(* The durable places a page can be in. *)
Disjoint(A, B) == \A p \in A : p \notin B

(* Every page is in at most one of the free list, the active list, one slot's
   pending list and the committed trees, whatever was interrupted: "These
   pages MUST NOT be allowed in both the free list AND the active list at the
   same time" (ed_txn_open), and the same for every other pair of places,
   since a page in two of them is handed out while something still uses it. *)
OneOwner ==
  /\ Disjoint(free, active) /\ Disjoint(free, Pages(tree))
  /\ Disjoint(tree[0], tree[1])
  /\ Disjoint(active, Pages(tree))
  /\ \A c \in Conn :
       /\ Disjoint(pend[c], free) /\ Disjoint(pend[c], active)
       /\ Disjoint(pend[c], Pages(tree))
       /\ \A b \in Conn \ {c} : Disjoint(pend[c], pend[b])

(* The transactions that look at a snapshot of the trees. *)
Looking == {t \in Txns : pc[t] \in Points \ {"none", "closed"}}

(* A page of a snapshot some transaction still reads is not handed out to
   another transaction, and if it is already in the free list its gate is
   newer than the id in the reader's slot, so that ed_alloc's test against
   ed_idx_xmin keeps it there.  This is also why the trees are stored before
   hdr->xid: a reader may hold an id older than its trees, "however, the
   opposite is not" a valid state (ed_txn_commit). *)
SnapshotPagesKept ==
  \A t \in Looking :
    /\ \A u \in Txns \ {t} : Disjoint(Pages(view[t]), pg[u] \cup hand[u])
    /\ \A p \in Pages(view[t]) \cap free : gate[p] > cxid[Slot(t)]

(* No page that belongs to a committed tree is overwritten: a node that the
   transaction did not allocate is copied first (the tree->xid < txn->xid
   tests of lib/bpt.c). *)
CopyOnWrite == \A t \in Txns : Disjoint(inplace[t], Pages(tree))

(* A writer works on the latest committed trees and nobody commits under it:
   the committed pages are those it still uses and those it replaced. *)
NoLostUpdate ==
  \A t \in Txns :
    pc[t] \in {"write", "alloc", "record"} =>
      Pages(tree) = (Pages(view[t]) \ used[t]) \cup gc[t]

(* Without a crash and without a failing call no page is lost: whenever the
   write lock is free, ed_stat_new accounts for every page. *)
NoLeak ==
  crashes = 0 /\ "free" \notin Fails /\ lock = NoProc => Leaked = {}

-----------------------------------------------------------------------------
(* Liveness.  A call that was entered runs to its end, and an application
   closes or commits the transactions it opened. *)
Fairness ==
  \A t \in Txns :
    /\ WF_vars(Progress(t))
    /\ WF_vars(CommitBegin(t) \/ (pc[t] # "closed" /\ Close(t)))

FairSpec == Spec /\ Fairness

(* A call that ends, ed_txn_open with an error included, leaves the write lock
   free.  One path is excepted: an ed_txn_open for writing that cannot map a
   root returns with the lock held (lib/txn.c:120-121). *)
Over(t) == pc[t] \in {"none", "closed"}

LockNotKept ==
  [][\A t \in Txns :
       lock = Owner[t] /\ ~ro[t] /\ ~Over(t) /\ Over(t)' =>
         lock' # Owner[t] \/ LoadFails(t)]_vars

(* Whoever takes the write lock gives it up again or is killed, whatever fails
   on the way through open, alloc, commit and close; or it ends its call with
   the lock held, which LockNotKept allows to a failed ed_txn_open alone. *)
WriteLockReleased ==
  \A q \in Proc :
    lock = q ~> lock # q \/ \A t \in Writers : Owner[t] = q => Over(t)
=============================================================================
