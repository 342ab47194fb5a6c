------------------------------- MODULE Cache -------------------------------
(* lib/cache.c: objects in the circular slab.  Processes create, write,      *)
(* close, open, discard, expire and list objects; they meet in the slab, in  *)
(* the index, and in the record locks that each holds on parts of the slab.  *)
(* The index is the pair of tables that a commit publishes at once (Txn and  *)
(* Bpt are about how).  A key stands for its hash: no two keys collide.      *)
EXTENDS Time, FiniteSets

CONSTANTS
  Proc, NoProc,  \* processes; nobody
  Handle,        \* places for an open object, each in one process
  Owner,         \* Handle -> Proc
  Key, NoKey,    \* keys; the key of a block that holds no header
  BlockCount,    \* slab_block_count
  Epoch,         \* epoch of the index
  Checksum,      \* ED_FCHECKSUM without ED_FNOVERIFY
  Loads,         \* states to start in, with what is asked of them: see Init
  MaxXid,        \* a transaction id beyond those of all loads
  MaxVno,        \* bound on the search of obj_reserve
  MaxCrashes     \* bound on the changes cut short

ASSUME BlockAssumption ==
  BlockCount \in Nat \ {0} /\ Owner \in [Handle -> Proc] /\ Epoch \in Nat /\ MaxXid \in Nat

Blk == 0 .. BlockCount - 1
Span(no, n) == {b \in Blk : no <= b /\ b < no + n}
Slot(vno) == vno % BlockCount

NoHdr == [key |-> NoKey, val |-> 0, count |-> 0, exp |-> ED_TIME_DELETE, xid |-> 0, crc |-> 0]

StartSlab(l) ==
  [b \in Blk |-> IF b \in DOMAIN l.slab THEN l.slab[b] ELSE [hdr |-> NoHdr, val |-> 0]]

(* obj_overlap *)
Overlap(b, start, end) == b.no < end /\ start < b.no + b.count

(* obj_verify *)
Whole(s, no) ==
  LET hdr == s[no].hdr
  IN  hdr.crc = hdr.val /\ \A b \in Span(no, hdr.count) : s[b].val = hdr.val

(* Index i leads to finished objects of slab s only. *)
Matches(i, s) ==
  /\ \A e \in i.keys :
       LET hdr == s[Slot(e.vno)].hdr IN
       /\ hdr.key = e.key /\ hdr.count = e.count /\ Whole(s, Slot(e.vno))
       /\ \E b \in i.blocks : b.no = Slot(e.vno) /\ b.count = e.count
  /\ \A b, c \in i.blocks : b # c => ~Overlap(b, c.no, c.no + c.count)

(* A key has one object. *)
OneEach(i) == \A e, f \in i.keys : e.key = f.key => e = f

Inside(v, no, n) == no < v /\ v < no + n

Index ==
  [keys : SUBSET [key : Key, vno : Nat, count : Nat \ {0}, exp : Int],
   blocks : SUBSET [no : Blk, count : Nat \ {0}, xid : Nat], vno : Nat, xid : Nat]
Block ==
  [hdr : [key : Key \cup {NoKey}, val : 0 .. MaxXid, count : Nat, exp : Int, xid : Nat, crc : Nat],
   val : Nat]

(* What eddy leaves behind, and asks of its users: an index that matches the
   slab and writes next between two objects, objects that fit in the slab. *)
Consistent(l) ==
  /\ l.idx \in Index /\ StartSlab(l) \in [Blk -> Block]
  /\ Matches(l.idx, StartSlab(l)) /\ OneEach(l.idx)
  /\ \A b \in l.idx.blocks : ~Inside(Slot(l.idx.vno), b.no, b.count)
  /\ l.ask.sizes \subseteq 1 .. BlockCount /\ l.ask.ttls \subseteq Int /\ l.ask.last \in 0 .. MaxXid

ASSUME LoadAssumption == NoProc \notin Proc /\ \A l \in Loads : Consistent(l)

VARIABLES
  slab,    \* block -> the object header at its start, and whose data it has
  lck,     \* process -> block -> the record lock held
  idx,     \* the committed index: both tables, hdr->vno and hdr->xid
  wlock,   \* the process with the write lock
  proc,    \* process -> the call it is in
  obj,     \* handle -> EdObject
  list,    \* an EdList
  now,     \* ed_now_unix
  load,    \* what is asked of the cache
  crashes  \* changes cut short so far: processes killed, commits failed

vars == <<slab, lck, idx, wlock, proc, obj, list, now, load, crashes>>

NoObj == [open |-> FALSE]
NoList == [pc |-> "none"]
Idle == [pc |-> "idle"]
Unlocked == [b \in Blk |-> "un"]

(* A load: the index and slab to start with, and what is asked of them: the
   handles in use, those that create objects, the sizes and times to live they
   ask for, the seconds that pass, the calls that fail or are given up, where
   processes are killed, and the last transaction. *)
Init ==
  /\ \E l \in Loads :
       /\ load = l.ask
       /\ idx = l.idx
       /\ slab = StartSlab(l)
  /\ lck = [p \in Proc |-> Unlocked]
  /\ wlock = NoProc
  /\ proc = [p \in Proc |-> Idle]
  /\ obj = [h \in Handle |-> NoObj]
  /\ list = NoList
  /\ now = Epoch + 1
  /\ crashes = 0

-----------------------------------------------------------------------------
(* Record locks (ed_flck): those of other processes are in the way, those of
   the process itself are replaced. *)

(* Mutant: asks for a shared lock to write. *)
CanLockShared(p, type, S) == \A q \in Proc \ {p}, b \in S : lck[q][b] # "ex"

CanLock(p, type, S) ==
  \A q \in Proc \ {p}, b \in S : lck[q][b] = "un" \/ (type = "sh" /\ lck[q][b] = "sh")

Locked(p, type, S) == [lck EXCEPT ![p] = [b \in Blk |-> IF b \in S THEN type ELSE @[b]]]

At(B, no) == {b \in B : b.no = no}

(* The block entry ed_bpt_next moves to from position no, around the end of the
   table; none if the table is empty. *)
NextBlock(B, no) ==
  LET up == {b \in B : b.no > no}
      C == IF up = {} THEN B ELSE up
  IN  {b \in C : \A c \in C : b.no <= c.no}

HasHdr(b, key) == slab[b].hdr.key = key

-----------------------------------------------------------------------------
(* ed_create                                                               *)

CanStart(h) == h \in load.handles /\ ~obj[h].open /\ proc[Owner[h]].pc = "idle"
CanChange == wlock = NoProc /\ idx.xid < load.last
Go(p, call) == proc' = [proc EXCEPT ![p] = call]

CreateBegin(h, k, n) ==
  /\ CanStart(h) /\ CanChange /\ h \in load.writers
  /\ wlock' = Owner[h]
  /\ Go(Owner[h], [pc |-> "reserve", h |-> h, key |-> k, n |-> n, txn |-> idx,
                   vno |-> idx.vno, no |-> Slot(idx.vno), start |-> Slot(idx.vno)])
  /\ UNCHANGED <<slab, lck, idx, obj, list, now, load, crashes>>

(* Mutant: goes on to the start without a step of vno to the next round. *)
WrappedSameRound(c) == IF c.start + c.n <= BlockCount THEN c
  ELSE [c EXCEPT !.start = 0, !.no = 0]

(* A range that sticks out past the end is searched at the beginning. *)
Wrapped(c) ==
  LET v == c.vno + BlockCount - c.no
  IN  IF c.start + c.n <= BlockCount THEN c
      ELSE [c EXCEPT !.start = 0, !.vno = v, !.no = Slot(v)]

(* The lock of the range is refused: on to the next block entry. *)
ReserveSkip(p) ==
  LET c == Wrapped(proc[p]) IN
  /\ proc[p].pc = "reserve"
  /\ ~CanLock(p, "ex", Span(c.start, c.n))
  /\ \E b \in NextBlock(c.txn.blocks, c.no) :
       /\ c.vno + b.count <= MaxVno
       /\ Go(p, [c EXCEPT !.vno = @ + b.count, !.no = b.no, !.start = b.no])
  /\ UNCHANGED <<slab, lck, idx, wlock, obj, list, now, load, crashes>>

(* Mutant: the key entries of replaced objects stay. *)
WithoutBlocksOnly(txn, D) == [txn EXCEPT !.blocks = @ \ D]

(* The index without the block entries D and the key entries of their objects. *)
WithoutObjects(txn, D) ==
  [txn EXCEPT !.blocks = @ \ D,
              !.keys = {e \in @ : \A b \in D : ~(e.key = slab[b.no].hdr.key /\ Slot(e.vno) = b.no)}]

(* How far behind position no the walk through the block table meets entry b. *)
Turn(b, no) == IF b.no < no THEN b.no - no + BlockCount ELSE b.no - no

(* The loop over the entries from position no on (the one found there, or else
   the next one), up to the first that is not in the way of the range. *)
Replaced(B, no, end) ==
  {b \in B : \A c \in B : Turn(c, no) <= Turn(b, no) => Overlap(c, no, end)}

ClearedFor(c) == WithoutObjects(c.txn, Replaced(c.txn.blocks, c.no, c.no + c.n))

(* Without block entries there is no next one (a null pointer); a table that
   loses its last entry yields it again, and the second removal moves memory
   of negative length (Bpt's CursorInLeaf).  Both end the process. *)
Fatal(p, c) ==
  IF CanLock(p, "ex", Span(c.start, c.n)) THEN c.txn.blocks # {} /\ ClearedFor(c).blocks = {}
  ELSE c.txn.blocks = {}

(* The lock is granted: the range is ours, and what it held leaves the index
   with the commit of ed_create. *)
ReserveTake(p) ==
  LET c == Wrapped(proc[p])
  IN
  /\ proc[p].pc = "reserve"
  /\ CanLock(p, "ex", Span(c.start, c.n)) /\ ~Fatal(p, c)
  /\ lck' = Locked(p, "ex", Span(c.start, c.n))
  /\ Go(p, [pc |-> "commit", h |-> c.h, key |-> c.key, n |-> c.n, vno |-> c.vno,
            txn |-> [ClearedFor(c) EXCEPT !.vno = c.vno + c.n]])
  /\ UNCHANGED <<slab, idx, wlock, obj, list, now, load, crashes>>

Commit(txn) == idx' = [txn EXCEPT !.xid = @ + 1] /\ wlock' = NoProc

CreateCommit(p) ==
  /\ proc[p].pc = "commit"
  /\ Commit(proc[p].txn)
  /\ Go(p, [proc[p] EXCEPT !.pc = "init", !.txn = idx.xid + 1])
  /\ UNCHANGED <<slab, lck, obj, list, now, load, crashes>>

(* The mapping or the commit fails.  The transaction is closed; "locked" is
   never set in ed_create, so the lock of the range stays. *)
CreateFails(p) ==
  /\ proc[p].pc = "commit" /\ "create" \in load.faults
  /\ wlock' = NoProc
  /\ Go(p, Idle)
  /\ UNCHANGED <<slab, lck, idx, obj, list, now, load, crashes>>

(* After the commit: the new header, and the object.  The id of the
   transaction identifies what will be written. *)
CreateInit(p) ==
  LET c == proc[p]
      no == Slot(c.vno)
  IN
  /\ c.pc = "init"
  /\ slab' = [slab EXCEPT ![no].hdr = [key |-> c.key, val |-> c.txn, count |-> c.n,
                                       exp |-> ED_TIME_DELETE, xid |-> 0, crc |-> 0]]
  /\ obj' = [obj EXCEPT ![c.h] =
       [open |-> TRUE, rdonly |-> FALSE, key |-> c.key, vno |-> c.vno, no |-> no,
        count |-> c.n, val |-> c.txn, exp |-> ED_TIME_INF, seek |-> 0]]
  /\ Go(p, Idle)
  /\ UNCHANGED <<lck, idx, wlock, list, now, load, crashes>>

-----------------------------------------------------------------------------
(* ed_write, ed_set_ttl, ed_close, ed_discard                              *)

Writing(h) == obj[h].open /\ ~obj[h].rdonly /\ proc[Owner[h]].pc = "idle"

(* The data of the next block; with the last one the checksum is stored.  Only
   the first block keeps a header. *)
Write(h) ==
  LET o == obj[h]
      last == o.seek + 1 = o.count
      Wrote(b) == [hdr |-> IF b = o.no THEN slab[b].hdr ELSE NoHdr, val |-> o.val]
      Summed(blk) == [blk EXCEPT !.hdr.crc = IF last THEN o.val ELSE @]
  IN
  /\ Writing(h) /\ o.seek < o.count
  /\ slab' = [b \in Blk |->
                LET blk == IF b = o.no + o.seek THEN Wrote(b) ELSE slab[b]
                IN  IF b = o.no THEN Summed(blk) ELSE blk]
  /\ obj' = [obj EXCEPT ![h].seek = @ + 1]
  /\ UNCHANGED <<lck, idx, wlock, proc, list, now, load, crashes>>

SetTtl(h, ttl) ==
  /\ Writing(h)
  /\ obj' = [obj EXCEPT ![h].exp = ed_expiry_at(Epoch, ttl, now)]
  /\ UNCHANGED <<slab, lck, idx, wlock, proc, list, now, load, crashes>>

(* The key entries of hash k whose object has key key. *)
Entries(txn, k, key) == {e \in txn.keys : e.key = k /\ HasHdr(Slot(e.vno), key)}

(* Mutant: adds a key entry without a look for one to replace. *)
UpsertedAgain(txn, o, k, old) ==
  [txn EXCEPT !.blocks = {b \in @ : b.no # o.no} \cup {[no |-> o.no, count |-> o.count, xid |-> txn.xid + 1]},
              !.keys = @ \cup {[key |-> k, vno |-> o.vno, count |-> o.count, exp |-> o.exp]}]

(* obj_upsert: both entries of object o; old is the key entry it replaces. *)
Upserted(txn, o, k, old) ==
  [txn EXCEPT !.blocks = {b \in @ : b.no # o.no} \cup {[no |-> o.no, count |-> o.count, xid |-> txn.xid + 1]},
              !.keys = (@ \ old) \cup {[key |-> k, vno |-> o.vno, count |-> o.count, exp |-> o.exp]}]

(* Mutant: the header of the replaced object is left alone. *)
FinishedOnly(o, old) ==
  [slab EXCEPT ![o.no].hdr.exp = o.exp, ![o.no].hdr.xid = idx.xid + 1]

(* The stores of ed_close into the slab: the replaced object is marked as
   deleted, the header of the new one gets its expiry and its id. *)
Finished(o, old) ==
  [b \in Blk |->
     IF b = o.no THEN [slab[b] EXCEPT !.hdr.exp = o.exp, !.hdr.xid = idx.xid + 1]
     ELSE IF \E e \in old : Slot(e.vno) = b THEN [slab[b] EXCEPT !.hdr.exp = ED_TIME_DELETE]
     ELSE slab[b]]

(* The lock of the range is given up before the commit. *)
CloseBegin(h) ==
  LET o == obj[h]
      k == slab[o.no].hdr.key
  IN
  /\ Writing(h) /\ o.seek = o.count /\ CanChange
  /\ \E old \in {S \in SUBSET Entries(idx, k, o.key) : Cardinality(S) <= 1} :
       /\ old = {} => Entries(idx, k, o.key) = {}
       /\ slab' = Finished(o, old)
       /\ Go(Owner[h], [pc |-> "closing", txn |-> Upserted(idx, o, k, old)])
  /\ wlock' = Owner[h]
  /\ lck' = Locked(Owner[h], "un", Span(o.no, o.count))
  /\ obj' = [obj EXCEPT ![h] = NoObj]
  /\ UNCHANGED <<idx, list, now, load, crashes>>

CloseCommit(p) ==
  /\ proc[p].pc = "closing"
  /\ Commit(proc[p].txn)
  /\ Go(p, Idle)
  /\ UNCHANGED <<slab, lck, obj, list, now, load, crashes>>

CloseFails(p) ==
  /\ proc[p].pc = "closing" /\ "close" \in load.faults /\ crashes < MaxCrashes
  /\ wlock' = NoProc
  /\ Go(p, Idle)
  /\ crashes' = crashes + 1
  /\ UNCHANGED <<slab, lck, idx, obj, list, now, load>>

Dispose(h) ==
  /\ lck' = Locked(Owner[h], "un", Span(obj[h].no, obj[h].count))
  /\ obj' = [obj EXCEPT ![h] = NoObj]
  /\ UNCHANGED <<slab, idx, wlock, proc, list, now, load, crashes>>

(* ed_discard of a new object; ed_close before all of it was written. *)
Discard(h) == Writing(h) /\ "discard" \in load.faults /\ Dispose(h)

(* ed_close or ed_discard of an object that was opened. *)
CloseRead(h) == obj[h].open /\ obj[h].rdonly /\ proc[Owner[h]].pc = "idle" /\ Dispose(h)

-----------------------------------------------------------------------------
(* ed_open                                                                 *)

(* The snapshot of the key entries of the hash. *)
OpenBegin(h, k) ==
  /\ CanStart(h)
  /\ Go(Owner[h], [pc |-> "open", h |-> h, key |-> k, found |-> {e \in idx.keys : e.key = k}])
  /\ UNCHANGED <<slab, lck, idx, wlock, obj, list, now, load, crashes>>

(* The object at block no, under the lock of n blocks.  An object that fails
   its checksum is freed; its lock is not. *)
Opened(p, h, no, n, vno, exp) ==
  LET hdr == slab[no].hdr
      o == [open |-> TRUE, rdonly |-> TRUE, key |-> hdr.key, vno |-> vno, no |-> no,
            count |-> hdr.count, val |-> hdr.val, exp |-> exp, seek |-> 0]
  IN
  /\ lck' = Locked(p, "sh", Span(no, n))
  /\ obj' = [obj EXCEPT ![h] = IF Checksum /\ ~Whole(slab, no) THEN NoObj ELSE o]

Lockable(p, e) == CanLock(p, "sh", Span(Slot(e.vno), e.count))

(* open_key: the entries of the snapshot that are not expired and can be
   locked; of these, one whose object has the key. *)
OpenKey(p) ==
  LET c == proc[p]
      tried == {e \in c.found : ~ed_expired_at(Epoch, e.exp, now) /\ Lockable(p, e)}
      match == {e \in tried : HasHdr(Slot(e.vno), c.key)}
  IN
  /\ c.pc = "open"
  /\ IF match # {}
     THEN \E e \in match : Opened(p, c.h, Slot(e.vno), e.count, e.vno, e.exp)
     ELSE /\ lck' = Locked(p, "un", UNION {Span(Slot(e.vno), e.count) : e \in tried})
          /\ UNCHANGED obj
  /\ Go(p, Idle)
  /\ UNCHANGED <<slab, idx, wlock, list, now, load, crashes>>

(* open_id, for the id of a transaction and a position. *)
OpenIdBegin(h, xid, vno) ==
  /\ CanStart(h) /\ xid <= idx.xid /\ vno <= idx.vno
  /\ \E b \in At(idx.blocks, Slot(vno)) :
       /\ b.xid = xid
       /\ Go(Owner[h], [pc |-> "openid", h |-> h, b |-> b, vno |-> vno])
  /\ UNCHANGED <<slab, lck, idx, wlock, obj, list, now, load, crashes>>

OpenId(p) ==
  LET c == proc[p]
  IN
  /\ c.pc = "openid"
  /\ IF CanLock(p, "sh", Span(c.b.no, c.b.count))
     THEN Opened(p, c.h, c.b.no, c.b.count, c.vno, slab[c.b.no].hdr.exp)
     ELSE UNCHANGED <<lck, obj>>
  /\ Go(p, Idle)
  /\ UNCHANGED <<slab, idx, wlock, list, now, load, crashes>>

-----------------------------------------------------------------------------
(* ed_update_ttl, ed_update_expiry                                         *)

WithExpiry(no, exp) == [slab EXCEPT ![no].hdr.exp = exp]

UpdateBegin(p, k, exp, restore) ==
  /\ proc[p].pc = "idle" /\ CanChange /\ \E h \in load.handles : Owner[h] = p
  /\ \E e \in Entries(idx, k, k) :
       /\ restore \/ ~ed_expired_at(Epoch, e.exp, now)
       /\ slab' = WithExpiry(Slot(e.vno), exp)
       /\ Go(p, [pc |-> "update", txn |-> [idx EXCEPT !.keys = (@ \ {e}) \cup {[e EXCEPT !.exp = exp]}]])
  /\ wlock' = p
  /\ UNCHANGED <<lck, idx, obj, list, now, load, crashes>>

UpdateCommit(p) ==
  /\ proc[p].pc = "update"
  /\ Commit(proc[p].txn)
  /\ Go(p, Idle)
  /\ UNCHANGED <<slab, lck, obj, list, now, load, crashes>>

-----------------------------------------------------------------------------
(* ed_list_open, ed_list_next, ed_list_close.  A list reads the block table
   of its own snapshot and the headers that are in the slab by then. *)

Oldest == -1

(* from is Oldest, or the position of an id from the last round. *)
ListOpen(from) ==
  /\ load.lists /\ list = NoList
  /\ from = Oldest \/ (from < idx.vno /\ from + BlockCount >= idx.vno)
  /\ list' = [pc |-> "start", blocks |-> idx.blocks, from |-> from]
  /\ UNCHANGED <<slab, lck, idx, wlock, proc, obj, now, load, crashes>>

(* hdr->vno is read after the snapshot.  Where no object starts, ed_bpt_next
   returns 0 and the list is taken to be at its end. *)
ListStart ==
  LET vmax == idx.vno
      vmin == IF list.from # Oldest THEN list.from
              ELSE IF vmax > BlockCount THEN vmax - BlockCount ELSE 0
      at == IF At(list.blocks, Slot(vmin)) = {} THEN vmax ELSE vmin
  IN
  /\ list.pc = "start"
  /\ list' = [pc |-> "walk", blocks |-> list.blocks, vmax |-> vmax, vcur |-> at,
              start |-> Slot(at), loops |-> 0, inc |-> list.from = Oldest, now |-> now,
              from |-> list.from, n |-> 0, seen |-> {}]
  /\ UNCHANGED <<slab, lck, idx, wlock, proc, obj, now, load, crashes>>

(* Mutant: the walk ends by its position only. *)
LoopsForever(loops) == FALSE

Looped(loops) == loops > 1

(* Whether the header in block no passes for one that is not expired; the data
   of an object that was written over it may. *)
Passes(no) ==
  IF HasHdr(no, NoKey) THEN BOOLEAN
  ELSE {~ed_expired_at(Epoch, slab[no].hdr.exp, list.now)}

(* One turn of the loop; the header is yielded unless it is the one of the id
   or is expired. *)
ListNext ==
  LET no == Slot(list.vcur) IN
  /\ list.pc = "walk" /\ list.vcur < list.vmax
  /\ \E b \in NextBlock(list.blocks, no), live \in Passes(no) :
       LET yield == list.inc /\ live
           loops == list.loops + IF b.no = list.start THEN 1 ELSE 0 IN
       list' = IF Looped(loops) THEN [list EXCEPT !.vcur = list.vmax]
               ELSE [list EXCEPT !.vcur = @ + (b.no - no) + IF b.no < no THEN BlockCount ELSE 0,
                                 !.loops = loops, !.inc = TRUE,
                                 !.n = IF yield THEN @ + 1 ELSE @,
                                 !.seen = IF yield THEN @ \cup {no} ELSE @]
  /\ UNCHANGED <<slab, lck, idx, wlock, proc, obj, now, load, crashes>>

ListClose ==
  /\ list # NoList
  /\ list' = NoList
  /\ UNCHANGED <<slab, lck, idx, wlock, proc, obj, now, load, crashes>>

-----------------------------------------------------------------------------
Tick ==
  /\ now < Epoch + 1 + load.ticks
  /\ now' = now + 1
  /\ UNCHANGED <<slab, lck, idx, wlock, proc, obj, list, load, crashes>>

(* The kernel frees the locks of a process that ends; the next transaction
   starts from the committed index. *)
Die(p) ==
  /\ lck' = [lck EXCEPT ![p] = Unlocked]
  /\ obj' = [h \in Handle |-> IF Owner[h] = p THEN NoObj ELSE obj[h]]
  /\ wlock' = IF wlock = p THEN NoProc ELSE wlock
  /\ Go(p, Idle)
  /\ crashes' = crashes + 1
  /\ UNCHANGED <<slab, idx, list, now, load>>

ReserveDies(p) ==
  /\ proc[p].pc = "reserve" /\ Fatal(p, Wrapped(proc[p])) /\ crashes < MaxCrashes
  /\ Die(p)

Point(p) ==
  IF proc[p].pc # "idle" THEN proc[p].pc
  ELSE IF \E h \in Handle : Owner[h] = p /\ Writing(h) THEN "writing"
  ELSE IF lck[p] # Unlocked THEN "locking" ELSE "idle"

Crash(p) == Point(p) \in load.crash /\ crashes < MaxCrashes /\ Die(p)

Next ==
  \/ \E h \in Handle, k \in Key :
       \/ \E n \in load.sizes : CreateBegin(h, k, n)
       \/ OpenBegin(h, k)
  \/ \E h \in Handle :
       \/ Write(h) \/ CloseBegin(h) \/ Discard(h) \/ CloseRead(h)
       \/ \E ttl \in load.ttls : SetTtl(h, ttl)
       \/ \E xid \in 1 .. idx.xid, no \in Blk : OpenIdBegin(h, xid, no)
  \/ \E p \in Proc :
       \/ ReserveSkip(p) \/ ReserveTake(p) \/ ReserveDies(p)
       \/ CreateCommit(p) \/ CreateFails(p) \/ CreateInit(p)
       \/ CloseCommit(p) \/ CloseFails(p) \/ OpenKey(p) \/ OpenId(p)
       \/ \E k \in Key, ttl \in load.ttls, restore \in BOOLEAN :
            UpdateBegin(p, k, ed_expiry_at(Epoch, ttl, now), restore)
       \/ UpdateCommit(p) \/ Crash(p)
  \/ \E from \in {Oldest} \cup 0 .. idx.vno : ListOpen(from)
  \/ ListStart \/ ListNext \/ ListClose \/ Tick

Spec == Init /\ [][Next]_vars

-----------------------------------------------------------------------------
(* The properties.                                                           *)

(* The committed index never leads to anything but a finished object: behind
   every key entry is a whole object of that key and size, which the block
   table has too, and no two objects of the block table share a block.  It
   holds at every moment, so a process that is killed, an object that is given
   up and a commit that fails leave nothing to repair. *)
IndexMatchesSlab == Matches(idx, slab)

(* While obj_reserve searches, its virtual number and its block number mean the
   same place: it locks and clears by the one what ed_create maps and writes by
   the other.  A refused lock can undo it (line 186: the count of an entry is
   not the distance to it), so all that is said here of several processes and the
   slab holds up to there. *)
InStep == \A p \in Proc : proc[p].pc = "reserve" => Slot(proc[p].vno) = proc[p].no

(* The blocks a call of ed_create has taken, until its object is closed. *)
Taken ==
  {[p |-> Owner[h], no |-> obj[h].no, n |-> obj[h].count] :
     h \in {g \in Handle : obj[g].open /\ ~obj[g].rdonly}}
  \cup {[p |-> p, no |-> Slot(proc[p].vno), n |-> proc[p].n] :
          p \in {q \in Proc : proc[q].pc = "init"}}

(* An object that is being written is alone on its blocks: its process has
   them locked, they are inside the slab, the committed index has nothing
   there, and no other object is being written there.  obj_reserve, which locks
   by byte offset and clears by block number, and ed_create, which maps by
   virtual number, mean the same blocks. *)
ReservedApart ==
  \A r \in Taken :
    /\ r.no + r.n <= BlockCount
    /\ \A b \in Span(r.no, r.n) : lck[r.p][b] = "ex"
    /\ \A b \in idx.blocks : ~Overlap(b, r.no, r.no + r.n)
    /\ \A s \in Taken : s # r => Span(s.no, s.n) \cap Span(r.no, r.n) = {}

(* "Active entries (those opened in an active transaction) are not evicted":
   from ed_open to ed_close the slab holds all of the object that was opened,
   and none of its blocks is taken by ed_create.  It holds with checksums and
   until obj_reserve is out of step.  Without checksums, a lookup that is
   overtaken by a create which is then given up opens what that left there. *)
ActiveNotEvicted ==
  \A h \in Handle :
    LET o == obj[h] IN
    o.open /\ o.rdonly =>
      /\ slab[o.no].hdr.key = o.key /\ slab[o.no].hdr.val = o.val
      /\ \A b \in Span(o.no, o.count) : slab[b].val = o.val
      /\ \A r \in Taken : Span(o.no, o.count) \cap Span(r.no, r.n) = {}

(* Between two changes, and unless one was cut short, the header of an object
   has the expiry of its key entry, and the header of an object that lost its
   key entry to a newer one is marked as deleted: lists, which look at headers
   only, and lookups by key agree. *)
ExpiryAgrees ==
  wlock = NoProc /\ crashes = 0 =>
    \A b \in idx.blocks :
      LET es == {e \in idx.keys : Slot(e.vno) = b.no} IN
      IF es = {} THEN slab[b.no].hdr.exp = ED_TIME_DELETE
      ELSE \A e \in es : slab[b.no].hdr.exp = e.exp

(* A list from the oldest object yields at most one header for each place of
   the block table of its snapshot, although the position it ends at is read
   later than the snapshot.  Which header it yields there is another matter: the
   one that is in the slab by then, perhaps of a newer object.  (A list from an
   id may start a round earlier and yield a place twice.) *)
ListOnce ==
  list.pc = "walk" /\ list.from = Oldest => list.n = Cardinality(list.seen)

Map == INSTANCE CacheMap WITH
  Val <- 0 .. MaxXid,
  map <- [k \in Key |-> {slab[Slot(e.vno)].hdr.val : e \in {f \in idx.keys : f.key = k}}]

(* To those who look up keys the cache is a map: a key has one object, the one
   last closed for it, until it is evicted; closing an object removes no other
   and eviction never brings an older object back. *)
ImplementsMap == Map!Spec
=============================================================================
