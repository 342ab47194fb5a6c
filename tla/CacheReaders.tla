---------------------------- MODULE CacheReaders ----------------------------
(***************************************************************************)
(* Proofs about those who look at the cache: that the index, the calls and *)
(* the lists have their types, what an open object relies on, and that a   *)
(* list yields every place once.                                           *)
(***************************************************************************)
EXTENDS Cache, TLAPS

-----------------------------------------------------------------------------
(* The types a list relies on.  They hold even where obj_reserve has lost its
   position. *)

(* A key entry for an object of a size in S. *)
Keyed(e, S) == e \in [key : {e.key}, vno : Nat, count : S, exp : {e.exp}]

(* An index of objects in the slab, of sizes in S. *)
Tabled(i, S) ==
  /\ i \in [keys : {i.keys}, blocks : {i.blocks}, vno : Nat, xid : {i.xid}]
  /\ \A b \in i.blocks : b.no \in Blk /\ b.count \in S
  /\ \A e \in i.keys : Keyed(e, S)

Searching(c, S) ==
  /\ c \in [pc : {"reserve"}, h : Handle, key : {c.key}, n : S, txn : {c.txn},
            vno : Nat, no : Blk, start : Blk]
  /\ Tabled(c.txn, S)

Committing(c, S) ==
  /\ c \in [pc : {"commit"}, h : Handle, key : {c.key}, n : S, vno : Nat, txn : {c.txn}]
  /\ Tabled(c.txn, S)

Typed(c, S) ==
  /\ c.pc = "reserve" => Searching(c, S)
  /\ c.pc = "commit" => Committing(c, S)
  /\ c.pc = "init" => c.h \in Handle /\ c.n \in S /\ c.vno \in Nat
  /\ c.pc \in {"closing", "update"} => Tabled(c.txn, S)
  /\ c.pc = "open" => \A e \in c.found : Keyed(e, S)
  /\ c.pc = "openid" => c.b.no \in Blk /\ c.b.count \in S

Written(o, S) ==
  o.open /\ ~o.rdonly =>
    o \in [open : {TRUE}, rdonly : {FALSE}, key : {o.key}, vno : Nat, no : Blk, count : S,
           val : {o.val}, exp : {o.exp}, seek : {o.seek}]

(* Every object, and every object asked for, has a size in S. *)
TypeInv(S) ==
  /\ DOMAIN proc = Proc /\ DOMAIN obj = Handle /\ load.sizes \subseteq S
  /\ Tabled(idx, S) /\ (\A p \in Proc : Typed(proc[p], S)) /\ \A h \in Handle : Written(obj[h], S)

LEMMA InSlab == ASSUME NEW v \in Nat PROVE Slot(v) \in Blk
BY BlockAssumption DEF Slot, Blk

LEMMA TabledNext ==
  ASSUME NEW S \in SUBSET Nat, NEW i, Tabled(i, S), NEW j, j = [i EXCEPT !.xid = @ + 1]
  PROVE  Tabled(j, S)
<1>1. PICK x : x = i.xid + 1
  BY Zenon
<1>2. i \in [keys : {i.keys}, blocks : {i.blocks}, vno : Nat, xid : {i.xid}]
  BY Zenon DEF Tabled
<1>3. j = [i EXCEPT !.xid = x]
  BY <1>1, Zenon
<1>4. j \in [keys : {i.keys}, blocks : {i.blocks}, vno : Nat, xid : {x}]
  BY <1>2, <1>3, Zenon
<1>5. j.keys = i.keys /\ j.blocks = i.blocks /\ j.xid = x
  BY <1>4, Zenon
<1> QED
  BY <1>4, <1>5, Zenon DEF Tabled

(* A change of the entries. *)
LEMMA TabledWith ==
  ASSUME NEW S \in SUBSET Nat, NEW i, Tabled(i, S), NEW B, NEW K,
         NEW j, j = [i EXCEPT !.blocks = B, !.keys = K],
         \A b \in B : b.no \in Blk /\ b.count \in S, \A e \in K : Keyed(e, S)
  PROVE  Tabled(j, S)
<1>1. i \in [keys : {i.keys}, blocks : {i.blocks}, vno : Nat, xid : {i.xid}]
  BY Zenon DEF Tabled
<1>2. j \in [keys : {K}, blocks : {B}, vno : Nat, xid : {i.xid}]
  BY <1>1, Zenon
<1>3. j.keys = K /\ j.blocks = B /\ j.xid = i.xid
  BY <1>2, Zenon
<1> QED
  BY <1>2, <1>3, Zenon DEF Tabled

LEMMA TabledAt ==
  ASSUME NEW S \in SUBSET Nat, NEW i, Tabled(i, S), NEW v \in Nat, NEW j, j = [i EXCEPT !.vno = v]
  PROVE  Tabled(j, S)
<1>1. i \in [keys : {i.keys}, blocks : {i.blocks}, vno : Nat, xid : {i.xid}]
  BY Zenon DEF Tabled
<1>2. j \in [keys : {i.keys}, blocks : {i.blocks}, vno : Nat, xid : {i.xid}]
  BY <1>1, Zenon
<1>3. j.keys = i.keys /\ j.blocks = i.blocks /\ j.xid = i.xid
  BY <1>2, Zenon
<1> QED
  BY <1>2, <1>3, Zenon DEF Tabled

LEMMA SearchingFrom ==
  ASSUME NEW S \in SUBSET Nat, NEW c, Searching(c, S), NEW v \in Nat, NEW no \in Blk, NEW start \in Blk,
         NEW d, d = [c EXCEPT !.vno = v, !.no = no, !.start = start]
  PROVE  Searching(d, S)
<1>1. c \in [pc : {"reserve"}, h : Handle, key : {c.key}, n : S, txn : {c.txn},
             vno : Nat, no : Blk, start : Blk]
  BY Zenon DEF Searching
<1>2. d \in [pc : {"reserve"}, h : Handle, key : {c.key}, n : S, txn : {c.txn},
             vno : Nat, no : Blk, start : Blk]
  BY <1>1, Zenon
<1>3. d.key = c.key /\ d.txn = c.txn
  BY <1>2, Zenon
<1> QED
  BY <1>2, <1>3, Zenon DEF Searching

LEMMA WrappedSearching ==
  ASSUME NEW S \in SUBSET Nat, NEW c, Searching(c, S)
  PROVE  Searching(Wrapped(c), S)
<1>1. c.vno \in Nat /\ c.no \in Blk
  BY Zenon DEF Searching
<1>2. PICK v : v = c.vno + BlockCount - c.no
  BY Zenon
<1>3. v \in Nat /\ 0 \in Blk
  BY <1>1, <1>2, BlockAssumption DEF Blk
<1>4. PICK no : no = Slot(v)
  BY Zenon
<1>5. no \in Blk
  BY <1>3, <1>4, InSlab, Zenon
<1>6. PICK d : d = [c EXCEPT !.start = 0, !.vno = v, !.no = no]
  BY Zenon
<1>7. PICK e : e = [c EXCEPT !.vno = v, !.no = no, !.start = 0]
  BY Zenon
<1>8. Searching(e, S)
  BY <1>3, <1>5, <1>7, SearchingFrom, Zenon
<1>9. d = e
  BY <1>6, <1>7, Zenon
<1>10. Wrapped(c) = c \/ Wrapped(c) = d
  BY <1>2, <1>4, <1>6, Zenon DEF Wrapped
<1> QED
  BY <1>8, <1>9, <1>10, Zenon

(* A step of one process. *)
LEMMA TypeStep ==
  ASSUME NEW S \in SUBSET Nat, TypeInv(S), NEW p \in Proc, NEW c, Go(p, c), Typed(c, S),
         load' = load, Tabled(idx', S), DOMAIN obj' = Handle, \A h \in Handle : obj'[h] = obj[h] \/ Written(obj'[h], S)
  PROVE  TypeInv(S)'
<1>1. DOMAIN proc' = Proc /\ proc'[p] = c /\ \A q \in Proc : q # p => proc'[q] = proc[q]
  BY Zenon DEF TypeInv, Go
<1>2. \A q \in Proc : Typed(proc'[q], S)
  BY <1>1, Zenon DEF TypeInv
<1>3. \A h \in Handle : Written(obj'[h], S)
  BY Zenon DEF TypeInv
<1>4. load'.sizes \subseteq S
  BY Zenon DEF TypeInv
<1> QED
  BY <1>1, <1>2, <1>3, <1>4, Zenon DEF TypeInv

LEMMA IdleTyped == ASSUME NEW S PROVE Typed(Idle, S) /\ Written(NoObj, S)
<1>1. Idle.pc = "idle" /\ ~NoObj.open
  BY DEF Idle, NoObj
<1> QED
  BY <1>1, Zenon DEF Typed, Written

-----------------------------------------------------------------------------
(* The steps. *)

LEMMA CreateTyped ==
  ASSUME NEW S \in SUBSET Nat, TypeInv(S), NEW h \in Handle, NEW k, NEW n \in load.sizes, CreateBegin(h, k, n)
  PROVE  TypeInv(S)'
<1>1. PICK p \in Proc : p = Owner[h]
  BY BlockAssumption, Zenon
<1>2. PICK i, v, no : i = idx /\ v = idx.vno /\ no = Slot(v)
  BY Zenon
<1>3. Tabled(i, S) /\ v \in Nat /\ n \in S
  BY <1>2, Zenon DEF TypeInv, Tabled
<1>4. no \in Blk
  BY <1>2, <1>3, InSlab, Zenon
<1>5. PICK c : c = [pc |-> "reserve", h |-> h, key |-> k, n |-> n, txn |-> i, vno |-> v, no |-> no, start |-> no]
  BY Zenon
<1>6. c \in [pc : {"reserve"}, h : Handle, key : {k}, n : S, txn : {i}, vno : Nat, no : Blk, start : Blk]
  BY <1>3, <1>4, <1>5
<1>7. c.pc = "reserve" /\ c.key = k /\ c.txn = i
  BY <1>5
<1>8. Typed(c, S)
  BY <1>3, <1>6, <1>7, Zenon DEF Typed, Searching
<1>9. Go(p, c) /\ load' = load /\ idx' = idx /\ obj' = obj
  BY <1>1, <1>2, <1>5, Zenon DEF CreateBegin
<1> QED
  BY <1>8, <1>9, TypeStep, Zenon DEF TypeInv

LEMMA SkipTyped ==
  ASSUME NEW S \in SUBSET Nat, TypeInv(S), NEW p \in Proc, ReserveSkip(p)
  PROVE  TypeInv(S)'
<1>1. PICK c : c = Wrapped(proc[p])
  BY Zenon
<1>2. Searching(c, S)
  BY <1>1, WrappedSearching, Zenon DEF ReserveSkip, TypeInv, Typed
<1>3. PICK b \in NextBlock(c.txn.blocks, c.no) :
        Go(p, [c EXCEPT !.vno = @ + b.count, !.no = b.no, !.start = b.no])
  BY <1>1, Zenon DEF ReserveSkip
<1>4. b \in c.txn.blocks
  BY <1>3, Zenon DEF NextBlock
<1>5. b.no \in Blk /\ b.count \in Nat /\ c.vno \in Nat
  BY <1>2, <1>4, Zenon DEF Searching, Tabled
<1>6. PICK v, no : v = c.vno + b.count /\ no = b.no
  BY Zenon
<1>7. v \in Nat /\ no \in Blk
  BY <1>5, <1>6
<1>8. PICK d : d = [c EXCEPT !.vno = v, !.no = no, !.start = no]
  BY Zenon
<1>9. Searching(d, S)
  BY <1>2, <1>7, <1>8, SearchingFrom, Zenon
<1>10. Typed(d, S)
  BY <1>9, Zenon DEF Typed, Searching
<1>11. Go(p, d) /\ load' = load /\ idx' = idx /\ obj' = obj
  BY <1>3, <1>6, <1>8, Zenon DEF ReserveSkip
<1> QED
  BY <1>10, <1>11, TypeStep, Zenon DEF TypeInv

LEMMA TakeTyped ==
  ASSUME NEW S \in SUBSET Nat, TypeInv(S), NEW p \in Proc, ReserveTake(p)
  PROVE  TypeInv(S)'
<1>1. PICK c : c = Wrapped(proc[p])
  BY Zenon
<1>2. Searching(c, S)
  BY <1>1, WrappedSearching, Zenon DEF ReserveTake, TypeInv, Typed
<1>3. c.vno \in Nat /\ c.n \in S /\ c.n \in Nat /\ c.h \in Handle /\ Tabled(c.txn, S)
  BY <1>2, Zenon DEF Searching
<1>v. PICK v : v = c.vno + c.n
  BY Zenon
<1>4. PICK i, B, K : /\ i = c.txn /\ B \subseteq i.blocks /\ K \subseteq i.keys
                     /\ ClearedFor(c) = [i EXCEPT !.blocks = B, !.keys = K]
  <2>1. PICK i, D : i = c.txn /\ D = Replaced(i.blocks, c.no, c.no + c.n)
    BY Zenon
  <2>2. PICK B, K : /\ B = i.blocks \ D
                    /\ K = {e \in i.keys : \A b \in D : ~(e.key = slab[b.no].hdr.key /\ Slot(e.vno) = b.no)}
    BY Zenon
  <2>3. ClearedFor(c) = [i EXCEPT !.blocks = B, !.keys = K]
    BY <2>1, <2>2, Zenon DEF ClearedFor, WithoutObjects
  <2>4. B \subseteq i.blocks /\ K \subseteq i.keys
    BY <2>2, Zenon
  <2> QED
    BY <2>1, <2>3, <2>4, Zenon
<1>5. v \in Nat
  BY <1>3, <1>v
<1>6. (\A b \in B : b.no \in Blk /\ b.count \in S) /\ \A e \in K : Keyed(e, S)
  BY <1>3, <1>4, Zenon DEF Tabled
<1>7. Tabled(ClearedFor(c), S)
  BY <1>3, <1>4, <1>6, TabledWith, Zenon
<1>8. PICK j : j = [ClearedFor(c) EXCEPT !.vno = v]
  BY Zenon
<1>9. Tabled(j, S)
  BY <1>5, <1>7, <1>8, TabledAt, Zenon
<1>10. PICK d : d = [pc |-> "commit", h |-> c.h, key |-> c.key, n |-> c.n, vno |-> c.vno, txn |-> j]
  BY Zenon
<1>11. /\ d \in [pc : {"commit"}, h : Handle, key : {c.key}, n : S, vno : Nat, txn : {j}]
       /\ d.pc = "commit" /\ d.key = c.key /\ d.txn = j
  BY <1>3, <1>10
<1>12. Typed(d, S)
  BY <1>9, <1>11, Zenon DEF Typed, Committing
<1>13. Go(p, d) /\ load' = load /\ idx' = idx /\ obj' = obj
  BY <1>1, <1>v, <1>8, <1>10, Zenon DEF ReserveTake
<1> QED
  BY <1>12, <1>13, TypeStep, Zenon DEF TypeInv

LEMMA CommitTyped ==
  ASSUME NEW S \in SUBSET Nat, TypeInv(S), NEW p \in Proc, CreateCommit(p) \/ CloseCommit(p) \/ UpdateCommit(p)
  PROVE  TypeInv(S)'
<1>1. PICK c, i, j : c = proc[p] /\ i = c.txn /\ j = idx'
  BY Zenon
<1>2. Typed(c, S) /\ c.pc \in {"commit", "closing", "update"}
  BY <1>1, Zenon DEF TypeInv, CreateCommit, CloseCommit, UpdateCommit
<1>3. Tabled(i, S)
  BY <1>1, <1>2, Zenon DEF Typed, Committing
<1>4. j = [i EXCEPT !.xid = @ + 1] /\ load' = load /\ obj' = obj
  BY <1>1, Zenon DEF CreateCommit, CloseCommit, UpdateCommit, Commit
<1>5. Tabled(j, S)
  BY <1>3, <1>4, TabledNext, Zenon
<1>6. \E d : Go(p, d) /\ Typed(d, S)
  <2>1. CASE CreateCommit(p)
    <3>1. PICK x, d : x = idx.xid + 1 /\ d = [c EXCEPT !.pc = "init", !.txn = x]
      BY Zenon
    <3>2. c \in [pc : {"commit"}, h : Handle, key : {c.key}, n : S, vno : Nat, txn : {i}]
      BY <1>1, <1>2, <2>1, Zenon DEF CreateCommit, Typed, Committing
    <3>3. d \in [pc : {"init"}, h : Handle, key : {c.key}, n : S, vno : Nat, txn : {x}]
      BY <3>1, <3>2, Zenon
    <3>4. d.pc = "init" /\ d.h \in Handle /\ d.n \in S /\ d.vno \in Nat
      BY <3>3, Zenon
    <3>5. Typed(d, S)
      BY <3>4, Zenon DEF Typed
    <3> QED
      BY <1>1, <2>1, <3>1, <3>5, Zenon DEF CreateCommit
  <2> QED
    BY <2>1, IdleTyped, Zenon DEF CloseCommit, UpdateCommit
<1> QED
  BY <1>1, <1>4, <1>5, <1>6, TypeStep, Zenon DEF TypeInv

LEMMA ObjTyped ==
  ASSUME NEW S \in SUBSET Nat, TypeInv(S), NEW h \in Handle, NEW o, obj' = [obj EXCEPT ![h] = o], Written(o, S)
  PROVE  DOMAIN obj' = Handle /\ \A g \in Handle : obj'[g] = obj[g] \/ Written(obj'[g], S)
BY Zenon DEF TypeInv

LEMMA InitTyped ==
  ASSUME NEW S \in SUBSET Nat, TypeInv(S), NEW p \in Proc, CreateInit(p)
  PROVE  TypeInv(S)'
<1>1. PICK c, no : c = proc[p] /\ no = Slot(c.vno)
  BY Zenon
<1>2. c.h \in Handle /\ c.n \in S /\ c.vno \in Nat
  BY <1>1, Zenon DEF CreateInit, TypeInv, Typed
<1>3. no \in Blk
  BY <1>1, <1>2, InSlab, Zenon
<1>4. PICK o : o = [open |-> TRUE, rdonly |-> FALSE, key |-> c.key, vno |-> c.vno, no |-> no,
                    count |-> c.n, val |-> c.txn, exp |-> ED_TIME_INF, seek |-> 0]
  BY Zenon
<1>5. o \in [open : {TRUE}, rdonly : {FALSE}, key : {o.key}, vno : Nat, no : Blk, count : S,
             val : {o.val}, exp : {o.exp}, seek : {o.seek}]
  BY <1>2, <1>3, <1>4
<1>6. Written(o, S)
  BY <1>5, Zenon DEF Written
<1>7. Go(p, Idle) /\ load' = load /\ idx' = idx /\ obj' = [obj EXCEPT ![c.h] = o]
  BY <1>1, <1>4, Zenon DEF CreateInit
<1>8. DOMAIN obj' = Handle /\ \A g \in Handle : obj'[g] = obj[g] \/ Written(obj'[g], S)
  BY <1>2, <1>6, <1>7, ObjTyped, Zenon
<1> QED
  BY <1>7, <1>8, IdleTyped, TypeStep, Zenon DEF TypeInv

(* A store into an object that is being written. *)
LEMMA WrittenWith ==
  ASSUME NEW S \in SUBSET Nat, NEW o, o.open, ~o.rdonly, Written(o, S), NEW x,
         NEW w, w = [o EXCEPT !.seek = x] \/ w = [o EXCEPT !.exp = x]
  PROVE  Written(w, S) /\ ~w.rdonly
<1>1. o \in [open : {TRUE}, rdonly : {FALSE}, key : {o.key}, vno : Nat, no : Blk, count : S,
             val : {o.val}, exp : {o.exp}, seek : {o.seek}]
  BY Zenon DEF Written
<1>2. \E e, s : /\ w \in [open : {TRUE}, rdonly : {FALSE}, key : {o.key}, vno : Nat, no : Blk,
                          count : S, val : {o.val}, exp : {e}, seek : {s}]
                /\ w.key = o.key /\ w.val = o.val /\ w.exp = e /\ w.seek = s /\ ~w.rdonly
  <2>1. CASE w = [o EXCEPT !.seek = x]
    <3>1. w \in [open : {TRUE}, rdonly : {FALSE}, key : {o.key}, vno : Nat, no : Blk,
                 count : S, val : {o.val}, exp : {o.exp}, seek : {x}]
      BY <1>1, <2>1, Zenon
    <3> QED
      BY <3>1, Zenon
  <2>2. CASE w = [o EXCEPT !.exp = x]
    <3>1. w \in [open : {TRUE}, rdonly : {FALSE}, key : {o.key}, vno : Nat, no : Blk,
                 count : S, val : {o.val}, exp : {x}, seek : {o.seek}]
      BY <1>1, <2>2, Zenon
    <3> QED
      BY <3>1, Zenon
  <2> QED
    BY <2>1, <2>2, Zenon
<1> QED
  BY <1>2, Zenon DEF Written

LEMMA WriterObject ==
  ASSUME NEW S \in SUBSET Nat, TypeInv(S), NEW h \in Handle, Write(h) \/ \E ttl : SetTtl(h, ttl)
  PROVE  \E w : obj' = [obj EXCEPT ![h] = w] /\ Written(w, S) /\ ~w.rdonly
<1>1. PICK o : o = obj[h]
  BY Zenon
<1>2. o.open /\ ~o.rdonly /\ Written(o, S)
  BY <1>1, Zenon DEF Write, SetTtl, Writing, TypeInv
<1>3. PICK x, w : /\ w = [o EXCEPT !.seek = x] \/ w = [o EXCEPT !.exp = x]
                  /\ obj' = [obj EXCEPT ![h] = w]
  <2>1. CASE Write(h)
    <3>1. PICK x : x = o.seek + 1
      BY Zenon
    <3>2. obj' = [obj EXCEPT ![h] = [o EXCEPT !.seek = x]]
      BY <1>1, <2>1, <3>1, Zenon DEF Write
    <3> QED
      BY <3>2, Zenon
  <2>2. ASSUME NEW ttl, SetTtl(h, ttl)
        PROVE  \E x, w : /\ w = [o EXCEPT !.seek = x] \/ w = [o EXCEPT !.exp = x]
                         /\ obj' = [obj EXCEPT ![h] = w]
    <3>1. PICK x : x = ed_expiry_at(Epoch, ttl, now)
      BY Zenon
    <3>2. obj' = [obj EXCEPT ![h] = [o EXCEPT !.exp = x]]
      BY <1>1, <2>2, <3>1, Zenon DEF SetTtl
    <3> QED
      BY <3>2, Zenon
  <2> QED
    BY <2>1, <2>2, Zenon
<1> QED
  BY <1>2, <1>3, WrittenWith, Zenon

LEMMA HandleTyped ==
  ASSUME NEW S \in SUBSET Nat, TypeInv(S), NEW h \in Handle,
         \/ Write(h) \/ Discard(h) \/ CloseRead(h) \/ \E ttl : SetTtl(h, ttl)
  PROVE  TypeInv(S)'
<1>1. proc' = proc /\ idx' = idx /\ load' = load
  BY Zenon DEF Write, Discard, CloseRead, Dispose, SetTtl
<1>2. \E o : obj' = [obj EXCEPT ![h] = o] /\ Written(o, S)
  BY WriterObject, IdleTyped, Zenon DEF Discard, CloseRead, Dispose
<1>3. DOMAIN obj' = Handle /\ \A g \in Handle : obj'[g] = obj[g] \/ Written(obj'[g], S)
  BY <1>2, ObjTyped, Zenon
<1> QED
  BY <1>1, <1>3, Zenon DEF TypeInv

LEMMA CloseTyped ==
  ASSUME NEW S \in SUBSET Nat, TypeInv(S), NEW h \in Handle, CloseBegin(h)
  PROVE  TypeInv(S)'
<1>1. PICK p \in Proc : p = Owner[h]
  BY BlockAssumption, Zenon
<1>2. PICK o, k : o = obj[h] /\ k = slab[o.no].hdr.key
  BY Zenon
<1>3. o.no \in Blk /\ o.count \in S /\ o.vno \in Nat
  BY <1>2, Zenon DEF CloseBegin, Writing, TypeInv, Written
<1>4. PICK e : e = [key |-> k, vno |-> o.vno, count |-> o.count, exp |-> o.exp]
  BY Zenon
<1>5. PICK old, j : j = Upserted(idx, o, k, old) /\ Go(p, [pc |-> "closing", txn |-> j])
  BY <1>1, <1>2, Zenon DEF CloseBegin
<1>6. PICK y : y = [no |-> o.no, count |-> o.count, xid |-> idx.xid + 1]
  BY Zenon
<1>7. y.no = o.no /\ y.count = o.count /\ Keyed(e, S)
  BY <1>3, <1>4, <1>6 DEF Keyed
<1>8. PICK B, K : /\ B = {b \in idx.blocks : b.no # o.no} \cup {y}
                  /\ K = (idx.keys \ old) \cup {e}
  BY Zenon
<1>9. j = [idx EXCEPT !.blocks = B, !.keys = K]
  BY <1>4, <1>5, <1>6, <1>8, Zenon DEF Upserted
<1>10. Tabled(idx, S)
  BY Zenon DEF TypeInv
<1>11. (\A b \in B : b.no \in Blk /\ b.count \in S) /\ \A f \in K : Keyed(f, S)
  BY <1>3, <1>7, <1>8, <1>10, Zenon DEF Tabled
<1>12. Tabled(j, S)
  BY <1>9, <1>10, <1>11, TabledWith, Zenon
<1>13. PICK c : c = [pc |-> "closing", txn |-> j]
  BY Zenon
<1>14. c.pc = "closing" /\ c.txn = j
  BY <1>13
<1>15. Typed(c, S)
  BY <1>12, <1>14, Zenon DEF Typed
<1>16. load' = load /\ idx' = idx /\ obj' = [obj EXCEPT ![h] = NoObj]
  BY Zenon DEF CloseBegin
<1>17. DOMAIN obj' = Handle /\ \A g \in Handle : obj'[g] = obj[g] \/ Written(obj'[g], S)
  BY <1>16, IdleTyped, ObjTyped, Zenon
<1> QED
  BY <1>5, <1>10, <1>13, <1>15, <1>16, <1>17, TypeStep, Zenon

LEMMA UpdateTyped ==
  ASSUME NEW S \in SUBSET Nat, TypeInv(S), NEW p \in Proc, NEW k, NEW x, NEW restore, UpdateBegin(p, k, x, restore)
  PROVE  TypeInv(S)'
<1>1. PICK e \in idx.keys :
        Go(p, [pc |-> "update", txn |-> [idx EXCEPT !.keys = (@ \ {e}) \cup {[e EXCEPT !.exp = x]}]])
  BY Zenon DEF UpdateBegin, Entries
<1>f. PICK f : f = [e EXCEPT !.exp = x]
  BY Zenon
<1>2. PICK i, K : i = idx /\ K = (i.keys \ {e}) \cup {f}
  BY Zenon
<1>g. Keyed(f, S)
  <2>1. e \in [key : {e.key}, vno : Nat, count : S, exp : {e.exp}]
    BY <1>1, Zenon DEF TypeInv, Tabled, Keyed
  <2>2. f \in [key : {e.key}, vno : Nat, count : S, exp : {x}]
    BY <1>f, <2>1, Zenon
  <2> QED
    BY <2>2, Zenon DEF Keyed
<1>3. PICK j : j = [i EXCEPT !.keys = K]
  BY Zenon
<1>4. Tabled(i, S) /\ i \in [keys : {i.keys}, blocks : {i.blocks}, vno : Nat, xid : {i.xid}]
  BY <1>2, Zenon DEF TypeInv, Tabled
<1>5. j \in [keys : {K}, blocks : {i.blocks}, vno : Nat, xid : {i.xid}]
  BY <1>3, <1>4, Zenon
<1>6. j.keys = K /\ j.blocks = i.blocks /\ j.xid = i.xid
  BY <1>5, Zenon
<1>7. Tabled(j, S)
  BY <1>g, <1>2, <1>4, <1>5, <1>6, Zenon DEF Tabled
<1>8. PICK c : c = [pc |-> "update", txn |-> j]
  BY Zenon
<1>9. c.pc = "update" /\ c.txn = j
  BY <1>8
<1>10. Typed(c, S)
  BY <1>7, <1>9, Zenon DEF Typed
<1>11. Go(p, c) /\ load' = load /\ idx' = idx /\ obj' = obj
  BY <1>1, <1>f, <1>2, <1>3, <1>8, Zenon DEF UpdateBegin
<1> QED
  BY <1>10, <1>11, TypeStep, Zenon DEF TypeInv

(* Steps that begin a lookup or end a call. *)
LEMMA EndTyped ==
  ASSUME NEW S \in SUBSET Nat, TypeInv(S), NEW p \in Proc, Go(p, Idle), load' = load, idx' = idx,
         \/ obj' = obj
         \/ \E h, o : obj' = [obj EXCEPT ![h] = o] /\ ~(o.open /\ ~o.rdonly)
         \/ obj' = [h \in Handle |-> IF Owner[h] = p THEN NoObj ELSE obj[h]]
  PROVE  TypeInv(S)'
<1>1. DOMAIN obj' = Handle /\ \A h \in Handle : obj'[h] = obj[h] \/ Written(obj'[h], S)
  <2>1. CASE obj' = obj
    BY <2>1, Zenon DEF TypeInv
  <2>2. ASSUME NEW h, NEW o, obj' = [obj EXCEPT ![h] = o], ~(o.open /\ ~o.rdonly)
        PROVE  DOMAIN obj' = Handle /\ \A g \in Handle : obj'[g] = obj[g] \/ Written(obj'[g], S)
    <3>1. Written(o, S)
      BY <2>2, Zenon DEF Written
    <3> QED
      BY <2>2, <3>1, Zenon DEF TypeInv
  <2>3. CASE obj' = [h \in Handle |-> IF Owner[h] = p THEN NoObj ELSE obj[h]]
    BY <2>3, IdleTyped, Zenon
  <2> QED
    BY <2>1, <2>2, <2>3, Zenon
<1> QED
  BY <1>1, IdleTyped, TypeStep, Zenon DEF TypeInv

LEMMA LookupTyped ==
  ASSUME NEW S \in SUBSET Nat, TypeInv(S), NEW h \in Handle,
         (\E k : OpenBegin(h, k)) \/ \E xid, no : OpenIdBegin(h, xid, no)
  PROVE  TypeInv(S)'
<1>1. PICK p \in Proc : p = Owner[h]
  BY BlockAssumption, Zenon
<1>2. load' = load /\ idx' = idx /\ obj' = obj
  BY Zenon DEF OpenBegin, OpenIdBegin
<1>3. ASSUME NEW k, OpenBegin(h, k) PROVE \E c : Go(p, c) /\ Typed(c, S)
  <2>1. PICK F : F = {e \in idx.keys : e.key = k}
    BY Zenon
  <2>2. PICK c : Go(p, c) /\ c = [pc |-> "open", h |-> h, key |-> k, found |-> F]
    BY <1>1, <1>3, <2>1, Zenon DEF OpenBegin
  <2>3. c.pc = "open" /\ c.found = F
    BY <2>2
  <2>4. Typed(c, S)
    BY <2>1, <2>3, Zenon DEF Typed, TypeInv, Tabled
  <2> QED
    BY <2>2, <2>4, Zenon
<1>4. ASSUME NEW xid, NEW no, OpenIdBegin(h, xid, no) PROVE \E c : Go(p, c) /\ Typed(c, S)
  <2>1. PICK b \in idx.blocks, c \in {[pc |-> "openid", h |-> h, b |-> d, vno |-> no] : d \in idx.blocks} :
          Go(p, c) /\ c = [pc |-> "openid", h |-> h, b |-> b, vno |-> no]
    BY <1>1, <1>4, Zenon DEF OpenIdBegin, At
  <2>2. c.pc = "openid" /\ c.b = b
    BY <2>1
  <2>3. Typed(c, S)
    BY <2>1, <2>2, Zenon DEF Typed, TypeInv, Tabled
  <2> QED
    BY <2>1, <2>3, Zenon
<1> QED
  BY <1>2, <1>3, <1>4, TypeStep, Zenon DEF TypeInv

LEMMA CallTyped ==
  ASSUME NEW S \in SUBSET Nat, TypeInv(S), NEW p \in Proc,
         ReserveDies(p) \/ CreateFails(p) \/ CloseFails(p) \/ OpenKey(p) \/ OpenId(p) \/ Crash(p)
  PROVE  TypeInv(S)'
<1>1. Go(p, Idle) /\ load' = load /\ idx' = idx
  BY Zenon DEF ReserveDies, Crash, Die, CreateFails, CloseFails, OpenKey, OpenId
<1>2. CASE ReserveDies(p) \/ Crash(p)
  BY <1>1, <1>2, EndTyped, Zenon DEF ReserveDies, Crash, Die
<1>3. CASE CreateFails(p) \/ CloseFails(p)
  BY <1>1, <1>3, EndTyped, Zenon DEF CreateFails, CloseFails
<1>4. CASE OpenKey(p) \/ OpenId(p)
  <2>1. obj' = obj \/ \E h, no, n, vno, exp : Opened(p, h, no, n, vno, exp)
    BY <1>4, Zenon DEF OpenKey, OpenId
  <2>2. ASSUME NEW h, NEW no, NEW n, NEW vno, NEW exp, Opened(p, h, no, n, vno, exp)
        PROVE  \E o : obj' = [obj EXCEPT ![h] = o] /\ ~(o.open /\ ~o.rdonly)
    <3>1. PICK o : o = [open |-> TRUE, rdonly |-> TRUE, key |-> slab[no].hdr.key, vno |-> vno, no |-> no,
                        count |-> slab[no].hdr.count, val |-> slab[no].hdr.val, exp |-> exp, seek |-> 0]
      BY Zenon
    <3>2. o.rdonly
      BY <3>1
    <3>3. obj' = [obj EXCEPT ![h] = NoObj] \/ obj' = [obj EXCEPT ![h] = o]
      BY <2>2, <3>1, Zenon DEF Opened
    <3>4. ~NoObj.open
      BY DEF NoObj
    <3> QED
      BY <3>2, <3>3, <3>4, Zenon
  <2> QED
    BY <1>1, <2>1, <2>2, EndTyped, Zenon
<1> QED
  BY <1>2, <1>3, <1>4, Zenon

LEMMA TypeNext ==
  ASSUME NEW S \in SUBSET Nat, TypeInv(S), [Next]_vars
  PROVE  TypeInv(S)'
<1>1. CASE \/ \E from \in {Oldest} \cup 0 .. idx.vno : ListOpen(from)
           \/ ListStart \/ ListNext \/ ListClose \/ Tick \/ UNCHANGED vars
  <2>1. idx' = idx /\ proc' = proc /\ obj' = obj /\ load' = load
    BY <1>1, Zenon DEF ListOpen, ListStart, ListNext, ListClose, Tick, vars
  <2> QED
    BY <2>1, Zenon DEF TypeInv
<1> QED
  BY <1>1, CreateTyped, LookupTyped, HandleTyped, CloseTyped, SkipTyped, TakeTyped, CommitTyped,
     InitTyped, CallTyped, UpdateTyped, Zenon DEF Next

(* What is there when the cache is opened, and what it is asked for. *)
SizedIn(S) ==
  /\ load.sizes \subseteq S
  /\ (\A e \in idx.keys : e.count \in S) /\ \A b \in idx.blocks : b.count \in S

LEMMA TypeInit == ASSUME NEW S \in SUBSET Nat, Init, SizedIn(S) PROVE TypeInv(S)
<1>1. PICK l \in Loads : load = l.ask /\ idx = l.idx
  BY Zenon DEF Init
<1>2. idx \in Index /\ load.sizes \subseteq S
  BY <1>1, LoadAssumption, Zenon DEF Consistent, SizedIn
<1>3. Tabled(idx, S)
  <2>1. idx \in [keys : {idx.keys}, blocks : {idx.blocks}, vno : Nat, xid : {idx.xid}]
    BY <1>2 DEF Index
  <2>2. \A b \in idx.blocks : b.no \in Blk /\ b.count \in S
    BY <1>2, Zenon DEF Index, SizedIn
  <2>3. ASSUME NEW e \in idx.keys PROVE Keyed(e, S)
    <3>1. e \in [key : Key, vno : Nat, count : Nat \ {0}, exp : Int] /\ e.count \in S
      BY <1>2, Zenon DEF Index, SizedIn
    <3> QED
      BY <3>1, Zenon DEF Keyed
  <2> QED
    BY <2>1, <2>2, <2>3, Zenon DEF Tabled
<1>4. /\ DOMAIN proc = Proc /\ \A p \in Proc : proc[p] = Idle
      /\ DOMAIN obj = Handle /\ \A h \in Handle : obj[h] = NoObj
  BY Zenon DEF Init
<1> QED
  BY <1>2, <1>3, <1>4, IdleTyped, Zenon DEF TypeInv

LEMMA TypesHold == ASSUME Init PROVE TypeInv(Nat)
<1>1. PICK l \in Loads : load = l.ask /\ idx = l.idx
  BY Zenon DEF Init
<1>2. idx \in Index /\ load.sizes \subseteq 1 .. BlockCount
  BY <1>1, LoadAssumption, Zenon DEF Consistent
<1>3. load.sizes \subseteq Nat
  BY <1>2, BlockAssumption
<1>4. (\A e \in idx.keys : e.count \in Nat) /\ \A b \in idx.blocks : b.count \in Nat
  BY <1>2, Zenon DEF Index
<1> QED
  BY <1>3, <1>4, TypeInit, Zenon DEF SizedIn

-----------------------------------------------------------------------------
(* Open objects, of n blocks each.  What a step stores into the slab, and who
   has which lock, are shown with the rest of the cache. *)

(* What a block has of an object is left alone. *)
Untouched(b) ==
  /\ slab'[b].val = slab[b].val /\ slab'[b].hdr.key = slab[b].hdr.key
  /\ slab'[b].hdr.val = slab[b].hdr.val /\ slab'[b].hdr.count = slab[b].hdr.count

(* The headers in the slab are of objects of sizes in S. *)
Headed(S) == \A b \in Blk : slab[b].hdr.count \in S \cup {0}

(* A step stores headers of these sizes, and only into ranges that are taken. *)
Stored(S) ==
  /\ Headed(S)'
  /\ \A b \in Blk : Untouched(b) \/ \E r \in Taken : b \in Span(r.no, r.n)

Guards ==
  /\ \A g, h \in Handle : Owner[g] = Owner[h] => g = h
  /\ DOMAIN lck = Proc
  /\ \A r \in Taken : \A q \in Proc, b \in Span(r.no, r.n) : lck[q][b] # "sh"
  /\ \A p \in Proc : proc[p].pc \in {"reserve", "commit", "init", "open", "openid"} =>
       /\ proc[p].h \in Handle /\ Owner[proc[p].h] = p
       /\ \A h \in Handle : Owner[h] = p => ~obj[h].open

Reading(h) == obj[h].open /\ obj[h].rdonly

(* The object is what its header and its blocks say, and the lock of its reader
   is on the n blocks from there on. *)
Reads(h, n) ==
  Reading(h) =>
    /\ obj[h].no \in Blk /\ obj[h].count \in {0, n}
    /\ slab[obj[h].no].hdr.key = obj[h].key /\ slab[obj[h].no].hdr.val = obj[h].val
    /\ \A b \in Span(obj[h].no, obj[h].count) : slab[b].val = obj[h].val
    /\ \A b \in Span(obj[h].no, n) : lck[Owner[h]][b] = "sh"

ReaderInv(n) == Headed({n}) /\ \A h \in Handle : Reads(h, n)

LEMMA Within ==
  ASSUME NEW n \in Nat \ {0}, NEW no \in Blk, NEW m \in {0, n}
  PROVE  /\ no \in Span(no, n)
         /\ \A b \in Span(no, m) : b \in Span(no, n)
         /\ \A b \in Span(no, n) : b \in Blk
BY BlockAssumption DEF Span, Blk

LEMMA StillReads ==
  ASSUME NEW n \in Nat \ {0}, Guards, Stored({n}), NEW h \in Handle, Reads(h, n),
         obj'[h] = obj[h], lck'[Owner[h]] = lck[Owner[h]]
  PROVE  Reads(h, n)'
<1>1. ASSUME Reading(h) PROVE Reads(h, n)'
  <2>1. PICK o, p : o = obj[h] /\ p = Owner[h]
    BY Zenon
  <2>2. /\ o.no \in Blk /\ o.count \in {0, n}
        /\ slab[o.no].hdr.key = o.key /\ slab[o.no].hdr.val = o.val
        /\ \A b \in Span(o.no, o.count) : slab[b].val = o.val
        /\ \A b \in Span(o.no, n) : lck[p][b] = "sh"
    BY <1>1, <2>1, Zenon DEF Reads
  <2>3. PICK no, m : no = o.no /\ m = o.count
    BY Zenon
  <2>4. /\ no \in Span(no, n)
        /\ \A b \in Span(no, m) : b \in Span(no, n)
        /\ \A b \in Span(no, n) : b \in Blk
    BY <2>2, <2>3, Within, Zenon
  <2>5. p \in Proc
    BY <2>1, BlockAssumption, Zenon
  <2>g. \A r \in Taken : \A q \in Proc, b \in Span(r.no, r.n) : lck[q][b] # "sh"
    BY Zenon DEF Guards
  <2>6. ASSUME NEW b \in Span(no, n) PROVE Untouched(b)
    <3>1. b \in Blk /\ lck[p][b] = "sh"
      BY <2>2, <2>3, <2>4, <2>6, Zenon
    <3>2. \A r \in Taken : b \notin Span(r.no, r.n)
      BY <2>g, <2>5, <3>1, Zenon
    <3> QED
      BY <3>1, <3>2, Zenon DEF Stored
  <2>7. /\ slab'[no].hdr.key = o.key /\ slab'[no].hdr.val = o.val
        /\ \A b \in Span(no, m) : slab'[b].val = o.val
    BY <2>2, <2>3, <2>4, <2>6, Zenon DEF Untouched
  <2>8. \A b \in Span(no, n) : lck'[p][b] = "sh"
    BY <2>1, <2>2, <2>3, Zenon
  <2> QED
    BY <2>1, <2>2, <2>3, <2>7, <2>8, Zenon DEF Reads
<1> QED
  BY <1>1, Zenon DEF Reads, Reading

(* A step that leaves all locks alone. *)
LEMMA QuietReads ==
  ASSUME NEW n \in Nat \ {0}, Guards, Stored({n}), ReaderInv(n), lck' = lck,
         \A h \in Handle : obj'[h] = obj[h] \/ ~Reading(h)'
  PROVE  ReaderInv(n)'
<1>1. ASSUME NEW h \in Handle PROVE Reads(h, n)'
  <2>1. CASE obj'[h] = obj[h]
    BY <2>1, StillReads, Zenon DEF ReaderInv
  <2>2. CASE ~Reading(h)'
    BY <2>2, Zenon DEF Reads
  <2> QED
    BY <2>1, <2>2, Zenon
<1> QED
  BY <1>1, Zenon DEF ReaderInv, Stored

(* A step that changes the locks of p. *)
LEMMA LockReads ==
  ASSUME NEW n \in Nat \ {0}, Guards, Stored({n}), ReaderInv(n), NEW p \in Proc,
         \A q \in Proc : q # p => lck'[q] = lck[q],
         \A h \in Handle : Owner[h] # p => obj'[h] = obj[h],
         \A h \in Handle : Owner[h] = p => ~Reading(h)' \/ Reads(h, n)'
  PROVE  ReaderInv(n)'
<1>1. ASSUME NEW h \in Handle PROVE Reads(h, n)'
  <2>1. CASE Owner[h] # p
    <3>1. Owner[h] \in Proc
      BY BlockAssumption, Zenon
    <3> QED
      BY <2>1, <3>1, StillReads, Zenon DEF ReaderInv
  <2>2. CASE Owner[h] = p /\ ~Reading(h)'
    BY <2>2, Zenon DEF Reads
  <2> QED
    BY <2>1, <2>2, Zenon
<1> QED
  BY <1>1, Zenon DEF ReaderInv, Stored

(* After a step of p, handle h is not open, or reads. *)
ReadsNow(p, h, n) ==
  /\ \A q \in Proc : q # p => lck'[q] = lck[q]
  /\ \A g \in Handle : g # h => obj'[g] = obj[g]
  /\ ~Reading(h)' \/ Reads(h, n)'

LEMMA OpenedReads ==
  ASSUME Checksum, NEW n \in Nat \ {0}, DOMAIN lck = Proc, DOMAIN obj = Handle, Headed({n}),
         NEW h \in Handle, NEW p \in Proc, p = Owner[h], NEW no \in Blk, slab' = slab,
         NEW vno, NEW exp, Opened(p, h, no, n, vno, exp)
  PROVE  ReadsNow(p, h, n)
<1>1. PICK H, o : /\ H = slab[no].hdr
                  /\ o = [open |-> TRUE, rdonly |-> TRUE, key |-> H.key, vno |-> vno, no |-> no,
                          count |-> H.count, val |-> H.val, exp |-> exp, seek |-> 0]
  BY Zenon
<1>2. o.key = H.key /\ o.no = no /\ o.count = H.count /\ o.val = H.val
  BY <1>1
<1>3. /\ lck' = Locked(p, "sh", Span(no, n))
      /\ obj' = [obj EXCEPT ![h] = IF ~Whole(slab, no) THEN NoObj ELSE o]
  BY <1>1, Zenon DEF Opened
<1>4. /\ \A q \in Proc : q # p => lck'[q] = lck[q]
      /\ \A b \in Blk : b \in Span(no, n) => lck'[p][b] = "sh"
      /\ \A g \in Handle : g # h => obj'[g] = obj[g]
  BY <1>3, Zenon DEF Locked
<1>5. CASE ~Whole(slab, no)
  <2>1. obj'[h] = NoObj /\ ~NoObj.open
    <3>1. ~NoObj.open
      BY DEF NoObj
    <3> QED
      BY <1>3, <1>5, <3>1, Zenon
  <2> QED
    BY <1>4, <2>1, Zenon DEF ReadsNow, Reading
<1>6. CASE Whole(slab, no)
  <2>1. obj'[h] = o
    BY <1>3, <1>6, Zenon
  <2>2. \A b \in Span(no, H.count) : slab[b].val = H.val
    BY <1>1, <1>6, Zenon DEF Whole
  <2>3. H.count \in {0, n}
    BY <1>1, Zenon DEF Headed
  <2>4. \A b \in Span(no, n) : b \in Blk
    BY Zenon DEF Span
  <2>5. Reads(h, n)'
    BY <1>1, <1>2, <1>4, <2>1, <2>2, <2>3, <2>4, Zenon DEF Reads
  <2> QED
    BY <1>4, <2>5, Zenon DEF ReadsNow
<1> QED
  BY <1>5, <1>6, Zenon

LEMMA HandleReads ==
  ASSUME NEW n \in Nat \ {0}, TypeInv({n}), Guards, Stored({n}), ReaderInv(n), NEW h \in Handle,
         \/ \E k \in Key : (\E m \in load.sizes : CreateBegin(h, k, m)) \/ OpenBegin(h, k)
         \/ Write(h) \/ CloseBegin(h) \/ Discard(h) \/ CloseRead(h)
         \/ \E ttl \in load.ttls : SetTtl(h, ttl)
         \/ \E xid \in 1 .. idx.xid, no \in Blk : OpenIdBegin(h, xid, no)
  PROVE  ReaderInv(n)'
<1>1. CASE \/ \E k \in Key : (\E m \in load.sizes : CreateBegin(h, k, m)) \/ OpenBegin(h, k)
           \/ \E xid \in 1 .. idx.xid, no \in Blk : OpenIdBegin(h, xid, no)
  <2>1. lck' = lck /\ obj' = obj
    BY <1>1, Zenon DEF CreateBegin, OpenBegin, OpenIdBegin
  <2> QED
    BY <2>1, QuietReads, Zenon
<1>2. CASE Write(h) \/ \E ttl \in load.ttls : SetTtl(h, ttl)
  <2>1. lck' = lck
    BY <1>2, Zenon DEF Write, SetTtl
  <2>2. {n} \in SUBSET Nat
    BY Zenon
  <2>3. PICK w : obj' = [obj EXCEPT ![h] = w] /\ ~w.rdonly
    BY <1>2, <2>2, WriterObject, Zenon
  <2>4. \A g \in Handle : obj'[g] = obj[g] \/ ~Reading(g)'
    BY <2>3, Zenon DEF TypeInv, Reading
  <2> QED
    BY <2>1, <2>4, QuietReads, Zenon
<1>3. CASE CloseBegin(h) \/ Discard(h) \/ CloseRead(h)
  <2>1. PICK p \in Proc : p = Owner[h]
    BY BlockAssumption, Zenon
  <2>2. (\E S : lck' = Locked(p, "un", S)) /\ obj' = [obj EXCEPT ![h] = NoObj]
    BY <1>3, <2>1, Zenon DEF CloseBegin, Discard, CloseRead, Dispose
  <2>3. \A q \in Proc : q # p => lck'[q] = lck[q]
    BY <2>2, Zenon DEF Locked, Guards
  <2>4. ~NoObj.open
    BY DEF NoObj
  <2>5. \A g \in Handle : g # h => obj'[g] = obj[g]
    BY <2>2, Zenon DEF TypeInv
  <2>6. ~Reading(h)'
    BY <2>2, <2>4, Zenon DEF TypeInv, Reading
  <2>7. \A g \in Handle : Owner[g] = p => g = h
    BY <2>1, Zenon DEF Guards
  <2> QED
    BY <2>1, <2>3, <2>5, <2>6, <2>7, LockReads, Zenon
<1> QED
  BY <1>1, <1>2, <1>3, Zenon

LEMMA LookupReads ==
  ASSUME Checksum, NEW n \in Nat \ {0}, TypeInv({n}), Guards, Stored({n}), ReaderInv(n),
         NEW p \in Proc, OpenKey(p) \/ OpenId(p)
  PROVE  ReaderInv(n)'
<1>1. PICK c : c = proc[p]
  BY Zenon
<1>2. c.pc \in {"open", "openid"} /\ Typed(c, {n}) /\ slab' = slab
  BY <1>1, Zenon DEF OpenKey, OpenId, TypeInv
<1>3. \A g \in Handle : Owner[g] = p => ~obj[g].open
  BY <1>1, <1>2, Zenon DEF Guards
<1>4. DOMAIN lck = Proc /\ DOMAIN obj = Handle /\ Headed({n})
  BY Zenon DEF Guards, TypeInv, ReaderInv
<1>5. ASSUME NEW h \in Handle, p = Owner[h], NEW no \in Blk, NEW vno, NEW exp, Opened(p, h, no, n, vno, exp)
      PROVE  ReaderInv(n)'
  <2>1. ReadsNow(p, h, n)
    BY <1>2, <1>4, <1>5, OpenedReads, Zenon
  <2>2. \A g \in Handle : Owner[g] = p => g = h
    BY <1>5, Zenon DEF Guards
  <2> QED
    BY <1>5, <2>1, <2>2, LockReads, Zenon DEF ReadsNow
<1>6. ASSUME NEW S, lck' = Locked(p, "un", S) \/ lck' = lck, obj' = obj
      PROVE  ReaderInv(n)'
  <2>1. \A q \in Proc : q # p => lck'[q] = lck[q]
    BY <1>4, <1>6, Zenon DEF Locked
  <2>2. \A g \in Handle : Owner[g] = p => ~Reading(g)'
    BY <1>3, <1>6, Zenon DEF Reading
  <2> QED
    BY <1>6, <2>1, <2>2, LockReads, Zenon
<1>7. c.h \in Handle /\ p = Owner[c.h]
  BY <1>1, <1>2, Zenon DEF Guards
<1>8. CASE OpenKey(p)
  <2>1. \/ \E e \in c.found : Opened(p, c.h, Slot(e.vno), e.count, e.vno, e.exp)
        \/ (\E S : lck' = Locked(p, "un", S)) /\ obj' = obj
    BY <1>1, <1>8, Zenon DEF OpenKey
  <2>2. ASSUME NEW e \in c.found, Opened(p, c.h, Slot(e.vno), e.count, e.vno, e.exp)
        PROVE  ReaderInv(n)'
    <3>1. Keyed(e, {n})
      BY <1>1, <1>2, <1>8, <2>2, Zenon DEF OpenKey, Typed
    <3>2. e.vno \in Nat /\ e.count = n
      BY <3>1, Zenon DEF Keyed
    <3>3. PICK no : no = Slot(e.vno)
      BY Zenon
    <3>4. no \in Blk
      BY <3>2, <3>3, InSlab, Zenon
    <3> QED
      BY <1>5, <1>7, <2>2, <3>2, <3>3, <3>4, Zenon
  <2> QED
    BY <1>6, <2>1, <2>2, Zenon
<1>9. CASE OpenId(p)
  <2>1. \/ Opened(p, c.h, c.b.no, c.b.count, c.vno, slab[c.b.no].hdr.exp)
        \/ lck' = lck /\ obj' = obj
    BY <1>1, <1>9, Zenon DEF OpenId
  <2>2. c.b.no \in Blk /\ c.b.count = n
    BY <1>1, <1>2, <1>9, Zenon DEF OpenId, Typed
  <2> QED
    BY <1>5, <1>6, <1>7, <2>1, <2>2, Zenon
<1> QED
  BY <1>8, <1>9, Zenon

LEMMA CallReads ==
  ASSUME NEW n \in Nat \ {0}, TypeInv({n}), Guards, Stored({n}), ReaderInv(n), NEW p \in Proc,
         \/ ReserveSkip(p) \/ ReserveTake(p) \/ ReserveDies(p)
         \/ CreateCommit(p) \/ CreateFails(p) \/ CreateInit(p) \/ CloseCommit(p) \/ CloseFails(p)
         \/ \E k, exp, restore : UpdateBegin(p, k, exp, restore)
         \/ UpdateCommit(p) \/ Crash(p)
  PROVE  ReaderInv(n)'
<1>1. CASE \/ ReserveSkip(p) \/ CreateCommit(p) \/ CreateFails(p) \/ CloseCommit(p) \/ CloseFails(p)
           \/ (\E k, exp, restore : UpdateBegin(p, k, exp, restore)) \/ UpdateCommit(p)
  <2>1. lck' = lck /\ obj' = obj
    BY <1>1, Zenon DEF ReserveSkip, CreateCommit, CreateFails, CloseCommit, CloseFails, UpdateBegin, UpdateCommit
  <2> QED
    BY <2>1, QuietReads, Zenon
<1>2. CASE CreateInit(p)
  <2>1. PICK h, w, c : /\ c = proc[p]
                       /\ w = [open |-> TRUE, rdonly |-> FALSE, key |-> c.key, vno |-> c.vno,
                               no |-> Slot(c.vno), count |-> c.n, val |-> c.txn, exp |-> ED_TIME_INF, seek |-> 0]
                       /\ obj' = [obj EXCEPT ![h] = w] /\ lck' = lck
    BY <1>2, Zenon DEF CreateInit
  <2>2. ~w.rdonly
    BY <2>1
  <2>3. \A g \in Handle : obj'[g] = obj[g] \/ ~Reading(g)'
    BY <2>1, <2>2, Zenon DEF TypeInv, Reading
  <2> QED
    BY <2>1, <2>3, QuietReads, Zenon
<1>3. CASE ReserveTake(p)
  <2>1. (\E S : lck' = Locked(p, "ex", S)) /\ obj' = obj /\ proc[p].pc = "reserve"
    BY <1>3, Zenon DEF ReserveTake
  <2>2. \A q \in Proc : q # p => lck'[q] = lck[q]
    BY <2>1, Zenon DEF Locked, Guards
  <2>3. \A g \in Handle : Owner[g] = p => ~Reading(g)'
    BY <2>1, Zenon DEF Guards, Reading
  <2> QED
    BY <2>1, <2>2, <2>3, LockReads, Zenon
<1>4. CASE ReserveDies(p) \/ Crash(p)
  <2>1. Die(p)
    BY <1>4, Zenon DEF ReserveDies, Crash
  <2>2. ~NoObj.open
    BY DEF NoObj
  <2>3. /\ \A q \in Proc : q # p => lck'[q] = lck[q]
        /\ \A g \in Handle : Owner[g] # p => obj'[g] = obj[g]
        /\ \A g \in Handle : Owner[g] = p => ~Reading(g)'
    BY <2>1, <2>2, Zenon DEF Die, Guards, Reading
  <2> QED
    BY <2>3, LockReads, Zenon
<1> QED
  BY <1>1, <1>2, <1>3, <1>4, Zenon

LEMMA ReadsNext ==
  ASSUME Checksum, NEW n \in Nat \ {0}, TypeInv({n}), Guards, Stored({n}), ReaderInv(n), [Next]_vars
  PROVE  ReaderInv(n)'
<1>1. ASSUME NEW h \in Handle, NEW k \in Key,
             (\E m \in load.sizes : CreateBegin(h, k, m)) \/ OpenBegin(h, k)
      PROVE  ReaderInv(n)'
  BY <1>1, HandleReads, Zenon
<1>2. ASSUME NEW h \in Handle,
             \/ Write(h) \/ CloseBegin(h) \/ Discard(h) \/ CloseRead(h)
             \/ \E ttl \in load.ttls : SetTtl(h, ttl)
             \/ \E xid \in 1 .. idx.xid, no \in Blk : OpenIdBegin(h, xid, no)
      PROVE  ReaderInv(n)'
  BY <1>2, HandleReads, Zenon
<1>3. ASSUME NEW p \in Proc,
             \/ ReserveSkip(p) \/ ReserveTake(p) \/ ReserveDies(p)
             \/ CreateCommit(p) \/ CreateFails(p) \/ CreateInit(p)
             \/ CloseCommit(p) \/ CloseFails(p) \/ OpenKey(p) \/ OpenId(p)
             \/ \E k \in Key, ttl \in load.ttls, restore \in BOOLEAN :
                  UpdateBegin(p, k, ed_expiry_at(Epoch, ttl, now), restore)
             \/ UpdateCommit(p) \/ Crash(p)
      PROVE  ReaderInv(n)'
  BY <1>3, CallReads, LookupReads, Zenon
<1>4. CASE \/ \E from \in {Oldest} \cup 0 .. idx.vno : ListOpen(from)
           \/ ListStart \/ ListNext \/ ListClose \/ Tick \/ UNCHANGED vars
  <2>1. lck' = lck /\ obj' = obj
    BY <1>4, Zenon DEF ListOpen, ListStart, ListNext, ListClose, Tick, vars
  <2> QED
    BY <2>1, QuietReads, Zenon
<1> QED
  BY <1>1, <1>2, <1>3, <1>4, Zenon DEF Next

-----------------------------------------------------------------------------
(* The walk of ed_list_next. *)

(* The block entries that were met have positions of one round, from v on. *)
Round(l) ==
  \E v \in Nat : /\ l.vmax <= v + BlockCount /\ v <= l.vcur
                 /\ \A s \in l.seen : \E w \in Nat : v <= w /\ w < l.vcur /\ s = Slot(w)

(* The snapshot has one entry, which is met again and again without a step of
   the position. *)
Single(l) == l.loops > 0 /\ \A b \in l.blocks : b.no = Slot(l.vcur)

Shaped(l) ==
  /\ l \in [pc : {"walk"}, blocks : {l.blocks}, vmax : Nat, vcur : Nat, start : {l.start}, loops : Nat,
            inc : {l.inc}, now : {l.now}, from : {l.from}, n : {l.n}, seen : {l.seen}]
  /\ \A b \in l.blocks : b.no \in Blk

Walk(l) ==
  /\ Shaped(l)
  /\ \A s \in l.seen : \E b \in l.blocks : b.no = s
  /\ l.vcur < l.vmax => /\ \E b \in l.blocks : b.no = Slot(l.vcur)
                        /\ \E b \in l.blocks : b.no = l.start
  /\ l.from = Oldest /\ l.vcur < l.vmax => Round(l) \/ Single(l)

(* The places at which the list yielded something are counted. *)
Counted(l) == IsFiniteSet(l.seen) /\ (l.from = Oldest => l.n = Cardinality(l.seen))

ListInv ==
  /\ list.pc = "walk" => Walk(list) /\ Counted(list)
  /\ list.pc = "start" => (\A b \in list.blocks : b.no \in Blk) /\ list.from \in {Oldest} \cup Nat

(* Positions and blocks. *)
LEMMA Division ==
  ASSUME NEW v \in Nat
  PROVE  \E a \in Nat : v = BlockCount * a + Slot(v)
<1>1. v \div BlockCount \in Nat /\ v = BlockCount * (v \div BlockCount) + Slot(v)
  BY BlockAssumption DEF Slot
<1> QED
  BY <1>1, Zenon

LEMMA SlotOf ==
  ASSUME NEW a \in Nat, NEW m \in Blk
  PROVE  Slot(BlockCount * a + m) = m
<1>1. BlockCount \in Nat \ {0} /\ m \in Nat /\ m < BlockCount
  BY BlockAssumption DEF Blk
<1>2. PICK v, r : v = BlockCount * a + m /\ r = Slot(v)
  BY Zenon
<1>3. v \in Nat
  BY <1>1, <1>2
<1>4. r \in Nat /\ r < BlockCount
  BY <1>1, <1>2, <1>3, InSlab DEF Blk
<1>5. PICK b \in Nat : v = BlockCount * b + r
  BY <1>2, <1>3, Division, Zenon
<1>6. CASE a > b
  <2>1. BlockCount * (a - b) >= BlockCount
    BY <1>1, <1>6
  <2> QED
    BY <1>1, <1>2, <1>4, <1>5, <2>1
<1>7. CASE a < b
  <2>1. BlockCount * (b - a) >= BlockCount
    BY <1>1, <1>7
  <2> QED
    BY <1>1, <1>2, <1>4, <1>5, <2>1
<1>8. CASE a = b
  BY <1>1, <1>2, <1>4, <1>5, <1>8
<1> QED
  BY <1>6, <1>7, <1>8

(* A position is met once in a round. *)
LEMMA MetOnce ==
  ASSUME NEW v \in Nat, NEW w \in Nat, NEW x \in Nat, v <= w, w < x, x < v + BlockCount
  PROVE  Slot(w) # Slot(x)
<1>1. PICK r, s : r = Slot(w) /\ s = Slot(x)
  BY Zenon
<1>2. r \in Nat /\ s \in Nat /\ BlockCount \in Nat \ {0}
  BY <1>1, InSlab, BlockAssumption DEF Blk
<1>3. PICK a \in Nat : w = BlockCount * a + r
  BY <1>1, Division, Zenon
<1>4. PICK b \in Nat : x = BlockCount * b + s
  BY <1>1, Division, Zenon
<1>5. ASSUME r = s PROVE FALSE
  <2>1. CASE b <= a
    <3>1. BlockCount * b <= BlockCount * a
      BY <1>2, <2>1
    <3> QED
      BY <1>2, <1>3, <1>4, <1>5, <3>1
  <2>2. CASE a < b
    <3>1. BlockCount * (b - a) >= BlockCount
      BY <1>2, <2>2
    <3>2. x - w = BlockCount * (b - a)
      BY <1>2, <1>3, <1>4, <1>5
    <3> QED
      BY <1>2, <3>1, <3>2
  <2> QED
    BY <2>1, <2>2
<1> QED
  BY <1>1, <1>5, Zenon

(* Where the step to the entry of block m moves position v. *)
Moved(v, m) == v + (m - Slot(v)) + IF m < Slot(v) THEN BlockCount ELSE 0

LEMMA MovesTo ==
  ASSUME NEW v \in Nat, NEW m \in Blk
  PROVE  /\ Moved(v, m) \in Nat /\ Slot(Moved(v, m)) = m /\ v <= Moved(v, m)
         /\ m # Slot(v) => v < Moved(v, m)
<1>1. PICK no, x : no = Slot(v) /\ x = Moved(v, m)
  BY Zenon
<1>2. no \in Nat /\ no < BlockCount /\ m \in Nat /\ m < BlockCount /\ BlockCount \in Nat
  BY <1>1, InSlab, BlockAssumption DEF Blk
<1>3. PICK a \in Nat : v = BlockCount * a + no
  BY <1>1, Division, Zenon
<1>4. CASE no <= m
  <2>1. x = v + m - no
    BY <1>1, <1>2, <1>4 DEF Moved
  <2>2. x = BlockCount * a + m /\ x \in Nat /\ v <= x /\ (m # no => v < x)
    BY <1>2, <1>3, <1>4, <2>1
  <2>3. Slot(x) = m
    BY <2>2, SlotOf, Zenon
  <2> QED
    BY <1>1, <2>2, <2>3, Zenon
<1>5. CASE m < no
  <2>1. x = v + m - no + BlockCount
    BY <1>1, <1>2, <1>5 DEF Moved
  <2>2. PICK b : b = a + 1
    BY Zenon
  <2>3. b \in Nat /\ x = BlockCount * b + m /\ x \in Nat /\ v <= x /\ v < x
    BY <1>2, <1>3, <1>5, <2>1, <2>2
  <2>4. Slot(x) = m
    BY <2>3, SlotOf, Zenon
  <2> QED
    BY <1>1, <2>3, <2>4, Zenon
<1> QED
  BY <1>2, <1>4, <1>5

(* ed_bpt_next comes back to where it was in a table of one entry. *)
LEMMA OnlyEntry ==
  ASSUME NEW B, \A b \in B : b.no \in Blk, NEW no \in Blk, NEW b \in NextBlock(B, no), b.no = no
  PROVE  \A c \in B : c.no = no
<1>1. \A c \in B : ~(c.no > no)
  <2>1. ASSUME NEW c \in B, c.no > no PROVE FALSE
    <3>1. b \in {d \in B : d.no > no}
      BY <2>1, Zenon DEF NextBlock
    <3> QED
      BY <3>1, BlockAssumption DEF Blk
  <2> QED
    BY <2>1, Zenon
<1>2. \A c \in B : b.no <= c.no
  BY <1>1, Zenon DEF NextBlock
<1> QED
  BY <1>1, <1>2, BlockAssumption DEF Blk

(* One turn of the walk, from l to m by way of entry b. *)
Turned(l, m, b) ==
  /\ b \in NextBlock(l.blocks, Slot(l.vcur))
  /\ Shaped(m) /\ m.blocks = l.blocks /\ m.vmax = l.vmax /\ m.start = l.start /\ m.from = l.from
  /\ m.loops = l.loops + (IF b.no = l.start THEN 1 ELSE 0) /\ ~(m.loops > 1)
  /\ m.vcur = Moved(l.vcur, b.no)
  /\ \/ m.n = l.n /\ m.seen = l.seen
     \/ m.n = l.n + 1 /\ m.seen = l.seen \cup {Slot(l.vcur)}

LEMMA TurnedTo ==
  ASSUME NEW l, Walk(l), l.vcur < l.vmax, NEW m, NEW b, Turned(l, m, b)
  PROVE  Walk(m) /\ (l.from = Oldest => Slot(l.vcur) \notin l.seen)
<1>1. PICK v, no, x, u : v = l.vcur /\ no = Slot(v) /\ x = m.vcur /\ u = l.vmax
  BY Zenon
<1>2. v \in Nat /\ u \in Nat /\ l.loops \in Nat /\ (\A c \in l.blocks : c.no \in Blk) /\ v < u
  BY <1>1, Zenon DEF Walk, Shaped
<1>3. b \in l.blocks /\ no \in Blk
  BY <1>1, <1>2, InSlab, Zenon DEF Turned, NextBlock
<1>4. PICK k : k = b.no /\ x = Moved(v, k)
  BY <1>1, Zenon DEF Turned
<1>5. x \in Nat /\ Slot(x) = b.no /\ v <= x /\ (b.no # no => v < x)
  <2>1. k \in Blk
    BY <1>2, <1>3, <1>4, Zenon
  <2>2. /\ Moved(v, k) \in Nat /\ Slot(Moved(v, k)) = k /\ v <= Moved(v, k)
        /\ k # Slot(v) => v < Moved(v, k)
    BY <1>2, <2>1, MovesTo, Zenon
  <2> QED
    BY <1>1, <1>4, <2>2, Zenon
<1>6. (\E c \in l.blocks : c.no = no) /\ \E c \in l.blocks : c.no = l.start
  BY <1>1, <1>2, Zenon DEF Walk
<1>7. \A s \in m.seen : \E c \in m.blocks : c.no = s
  BY <1>1, <1>6, Zenon DEF Walk, Turned
<1>8. (\E c \in m.blocks : c.no = Slot(m.vcur)) /\ \E c \in m.blocks : c.no = m.start
  BY <1>1, <1>3, <1>5, <1>6, Zenon DEF Turned
<1>9. ASSUME Single(l) PROVE FALSE
  <2>1. \A c \in l.blocks : c.no = no
    BY <1>1, <1>9, Zenon DEF Single
  <2>2. b.no = l.start
    BY <1>3, <1>6, <2>1, Zenon
  <2>3. m.loops = l.loops + 1 /\ l.loops > 0 /\ ~(m.loops > 1)
    BY <1>9, <2>2, Zenon DEF Turned, Single
  <2> QED
    BY <1>2, <2>3
<1>10. ASSUME l.from = Oldest PROVE no \notin l.seen /\ (Round(m) \/ Single(m))
  <2>1. Round(l)
    BY <1>1, <1>2, <1>9, <1>10, Zenon DEF Walk
  <2>2. PICK y \in Nat : /\ u <= y + BlockCount /\ y <= v
                         /\ \A s \in l.seen : \E w \in Nat : y <= w /\ w < v /\ s = Slot(w)
    BY <1>1, <2>1, Zenon DEF Round
  <2>3. v < y + BlockCount
    BY <1>2, <2>2, BlockAssumption
  <2>4. no \notin l.seen
    <3>1. ASSUME no \in l.seen PROVE FALSE
      <4>1. PICK w \in Nat : y <= w /\ w < v /\ no = Slot(w)
        BY <2>2, <3>1, Zenon
      <4>2. Slot(w) # Slot(v)
        BY <1>2, <2>3, <4>1, MetOnce, Zenon
      <4> QED
        BY <1>1, <4>1, <4>2, Zenon
    <3> QED
      BY <3>1, Zenon
  <2>5. CASE b.no # no
    <3>1. v < x /\ \A w \in Nat : w < v => w < x
      BY <1>2, <1>5, <2>5
    <3>2. y <= x
      BY <1>2, <1>5, <2>2
    <3>3. \A s \in m.seen : s \in l.seen \/ s = Slot(v)
      BY <1>1, Zenon DEF Turned
    <3>4. \A s \in m.seen : \E w \in Nat : y <= w /\ w < x /\ s = Slot(w)
      BY <1>2, <2>2, <3>1, <3>3, Zenon
    <3>5. m.vmax <= y + BlockCount
      BY <1>1, <2>2, Zenon DEF Turned
    <3>6. Round(m)
      BY <1>1, <3>2, <3>4, <3>5, Zenon DEF Round
    <3> QED
      BY <2>4, <3>6, Zenon
  <2>6. CASE b.no = no
    <3>1. PICK B : B = l.blocks
      BY Zenon
    <3>2. b \in NextBlock(B, no) /\ \A c \in B : c.no \in Blk
      BY <1>1, <1>2, <3>1, Zenon DEF Turned
    <3>3. \A c \in B : c.no = no
      BY <1>3, <2>6, <3>2, OnlyEntry, Zenon
    <3>4. b.no = l.start
      BY <1>3, <1>6, <3>1, <3>3, Zenon
    <3>5. m.loops = l.loops + 1
      BY <3>4, Zenon DEF Turned
    <3>6. m.loops > 0
      BY <1>2, <3>5
    <3>7. \A c \in m.blocks : c.no = Slot(m.vcur)
      BY <1>1, <1>5, <2>6, <3>1, <3>3, Zenon DEF Turned
    <3> QED
      BY <2>4, <3>6, <3>7, Zenon DEF Single
  <2> QED
    BY <2>5, <2>6, Zenon
<1>11. Shaped(m) /\ m.from = l.from
  BY Zenon DEF Turned
<1>12. m.from = Oldest /\ m.vcur < m.vmax => Round(m) \/ Single(m)
  BY <1>10, <1>11, Zenon
<1>13. l.from = Oldest => Slot(l.vcur) \notin l.seen
  BY <1>1, <1>10, Zenon
<1> QED
  BY <1>7, <1>8, <1>11, <1>12, <1>13, Zenon DEF Walk

LEMMA StartWalks ==
  ASSUME TypeInv(Nat), ListInv, ListStart
  PROVE  list'.pc = "walk" /\ Walk(list') /\ list'.seen = {} /\ list'.n = 0
<1>1. PICK l, u : l = list /\ u = idx.vno
  BY Zenon
<1>2. u \in Nat /\ l.from \in {Oldest} \cup Nat /\ \A b \in l.blocks : b.no \in Blk
  BY <1>1, Zenon DEF ListStart, ListInv, TypeInv, Tabled
<1>3. PICK low : low = IF l.from # Oldest THEN l.from ELSE IF u > BlockCount THEN u - BlockCount ELSE 0
  BY Zenon
<1>4. low \in Nat /\ (l.from = Oldest => u <= low + BlockCount)
  BY <1>2, <1>3, BlockAssumption DEF Oldest
<1>5. PICK at : at = IF At(l.blocks, Slot(low)) = {} THEN u ELSE low
  BY Zenon
<1>6. at \in Nat
  BY <1>2, <1>4, <1>5, Zenon
<1>7. at < u => at = low /\ \E b \in l.blocks : b.no = Slot(at)
  <2>1. ~(u < u)
    BY <1>2
  <2> QED
    BY <1>5, <2>1, Zenon DEF At
<1>8. PICK B, inc, from, t, s : /\ B = l.blocks /\ from = l.from /\ t = now /\ s = Slot(at)
                                /\ inc = (l.from = Oldest)
  BY Zenon
<1>9. PICK m : m = [pc |-> "walk", blocks |-> B, vmax |-> u, vcur |-> at, start |-> s, loops |-> 0,
                    inc |-> inc, now |-> t, from |-> from, n |-> 0, seen |-> {}]
  BY Zenon
<1>10. list' = m
  BY <1>1, <1>3, <1>5, <1>8, <1>9, Zenon DEF ListStart
<1>11. /\ m.pc = "walk" /\ m.blocks = B /\ m.vmax = u /\ m.vcur = at /\ m.start = s /\ m.from = from
       /\ m.n = 0 /\ m.seen = {} /\ m.inc = inc /\ m.now = t
  BY <1>9
<1>12. m \in [pc : {"walk"}, blocks : {B}, vmax : Nat, vcur : Nat, start : {s}, loops : Nat,
              inc : {inc}, now : {t}, from : {from}, n : {0}, seen : {{}}]
  BY <1>2, <1>6, <1>9
<1>13. Shaped(m)
  BY <1>2, <1>8, <1>11, <1>12, Zenon DEF Shaped
<1>14. m.vcur < m.vmax => (\E b \in m.blocks : b.no = Slot(m.vcur)) /\ \E b \in m.blocks : b.no = m.start
  BY <1>7, <1>8, <1>11, Zenon
<1>15. m.from = Oldest /\ m.vcur < m.vmax => Round(m)
  <2>1. at <= at
    BY <1>6
  <2> QED
    BY <1>4, <1>6, <1>7, <1>8, <1>11, <2>1, Zenon DEF Round
<1>16. Walk(m)
  BY <1>11, <1>13, <1>14, <1>15, Zenon DEF Walk
<1> QED
  BY <1>10, <1>11, <1>16, Zenon

LEMMA NextWalks ==
  ASSUME ListInv, ListNext
  PROVE  /\ list'.pc = "walk" /\ Walk(list') /\ list'.from = list.from
         /\ \/ list'.n = list.n /\ list'.seen = list.seen
            \/ /\ list'.n = list.n + 1 /\ list'.seen = list.seen \cup {Slot(list.vcur)}
               /\ list.from = Oldest => Slot(list.vcur) \notin list.seen
<1>1. PICK l, no : l = list /\ no = Slot(l.vcur)
  BY Zenon
<1>2. Walk(l) /\ l.vcur < l.vmax
  BY <1>1, Zenon DEF ListNext, ListInv
<1>3. PICK b \in NextBlock(list.blocks, Slot(list.vcur)), live \in Passes(Slot(list.vcur)) :
        LET yield == list.inc /\ live
            loops == list.loops + IF b.no = list.start THEN 1 ELSE 0
        IN  list' = IF Looped(loops) THEN [list EXCEPT !.vcur = list.vmax]
                    ELSE [list EXCEPT !.vcur = @ + (b.no - Slot(list.vcur)) + IF b.no < Slot(list.vcur) THEN BlockCount ELSE 0,
                                      !.loops = loops, !.inc = TRUE,
                                      !.n = IF yield THEN @ + 1 ELSE @,
                                      !.seen = IF yield THEN @ \cup {Slot(list.vcur)} ELSE @]
  BY Zenon DEF ListNext
<1>y. PICK y : y = (list.inc /\ live)
  BY Zenon
<1>4. PICK k, x, n, S : /\ k = l.loops + (IF b.no = l.start THEN 1 ELSE 0) /\ x = Moved(l.vcur, b.no)
                        /\ n = (IF y THEN l.n + 1 ELSE l.n) /\ S = (IF y THEN l.seen \cup {no} ELSE l.seen)
  BY Zenon
<1>5. /\ list' = IF k > 1 THEN [l EXCEPT !.vcur = l.vmax]
                 ELSE [l EXCEPT !.vcur = x, !.loops = k, !.inc = TRUE, !.n = n, !.seen = S]
  BY <1>1, <1>3, <1>y, <1>4, Zenon DEF Looped, Moved
<1>6. /\ l \in [pc : {"walk"}, blocks : {l.blocks}, vmax : Nat, vcur : Nat, start : {l.start}, loops : Nat,
                inc : {l.inc}, now : {l.now}, from : {l.from}, n : {l.n}, seen : {l.seen}]
      /\ \A c \in l.blocks : c.no \in Blk
  BY <1>2, Zenon DEF Walk, Shaped
<1>7. l.vmax \in Nat /\ l.vcur \in Nat /\ l.loops \in Nat
  BY <1>6, Zenon
<1>8. CASE k > 1
  <2>1. PICK u, m : u = l.vmax /\ m = [l EXCEPT !.vcur = u]
    BY Zenon
  <2>2. m = list' /\ u \in Nat
    BY <1>5, <1>7, <1>8, <2>1, Zenon
  <2>3. m \in [pc : {"walk"}, blocks : {l.blocks}, vmax : Nat, vcur : Nat, start : {l.start}, loops : Nat,
               inc : {l.inc}, now : {l.now}, from : {l.from}, n : {l.n}, seen : {l.seen}]
    BY <1>6, <2>1, <2>2, Zenon
  <2>4. /\ m.pc = "walk" /\ m.blocks = l.blocks /\ m.start = l.start /\ m.inc = l.inc /\ m.now = l.now
        /\ m.from = l.from /\ m.n = l.n /\ m.seen = l.seen
    BY <2>3, Zenon
  <2>5. m.vcur = u /\ m.vmax = u
    BY <1>6, <2>1, Zenon
  <2>6. ~(u < u)
    BY <2>2
  <2>7. Shaped(m)
    BY <1>6, <2>3, <2>4, Zenon DEF Shaped
  <2>8. Walk(m)
    BY <1>2, <2>4, <2>5, <2>6, <2>7, Zenon DEF Walk
  <2> QED
    BY <1>1, <2>2, <2>4, <2>8, Zenon
<1>9. CASE ~(k > 1)
  <2>1. PICK m : m = [l EXCEPT !.vcur = x, !.loops = k, !.inc = TRUE, !.n = n, !.seen = S]
    BY Zenon
  <2>2. m = list'
    BY <1>5, <1>9, <2>1, Zenon
  <2>3. x \in Nat /\ k \in Nat
    <3>1. PICK v, z : v = l.vcur /\ z = b.no
      BY Zenon
    <3>2. b \in l.blocks
      BY <1>1, <1>3, Zenon DEF NextBlock
    <3>3. v \in Nat /\ z \in Blk
      BY <1>6, <1>7, <3>1, <3>2, Zenon
    <3>4. Moved(v, z) \in Nat
      BY <3>3, MovesTo, Zenon
    <3>5. k \in Nat
      BY <1>4, <1>7
    <3> QED
      BY <1>4, <3>1, <3>4, <3>5, Zenon
  <2>4. m \in [pc : {"walk"}, blocks : {l.blocks}, vmax : Nat, vcur : Nat, start : {l.start}, loops : Nat,
               inc : {TRUE}, now : {l.now}, from : {l.from}, n : {n}, seen : {S}]
    BY <1>6, <2>1, <2>3, Zenon
  <2>5. /\ m.pc = "walk" /\ m.blocks = l.blocks /\ m.start = l.start /\ m.inc = TRUE /\ m.now = l.now
        /\ m.from = l.from /\ m.n = n /\ m.seen = S
    BY <2>4, Zenon
  <2>6. m.vcur = x /\ m.vmax = l.vmax /\ m.loops = k
    BY <1>6, <2>1, Zenon
  <2>7. Shaped(m)
    BY <1>6, <2>4, <2>5, Zenon DEF Shaped
  <2>8. \/ m.n = l.n /\ m.seen = l.seen
        \/ m.n = l.n + 1 /\ m.seen = l.seen \cup {no}
    BY <1>4, <2>5, Zenon
  <2>9. Turned(l, m, b)
    BY <1>1, <1>3, <1>4, <1>9, <2>5, <2>6, <2>7, <2>8, Zenon DEF Turned
  <2>10. Walk(m) /\ (l.from = Oldest => no \notin l.seen)
    BY <1>1, <1>2, <2>9, TurnedTo, Zenon
  <2> QED
    BY <1>1, <2>2, <2>5, <2>8, <2>10, Zenon
<1> QED
  BY <1>8, <1>9, Zenon

LEMMA OpenWalks ==
  ASSUME TypeInv(Nat), NEW from \in {Oldest} \cup 0 .. idx.vno, ListOpen(from)
  PROVE  ListInv'
<1>1. idx.vno \in Nat /\ \A b \in idx.blocks : b.no \in Blk
  BY Zenon DEF TypeInv, Tabled
<1>2. from \in {Oldest} \cup Nat
  BY <1>1
<1>3. PICK m, B : B = idx.blocks /\ m = [pc |-> "start", blocks |-> B, from |-> from]
  BY Zenon
<1>4. m.pc = "start" /\ m.blocks = B /\ m.from = from
  BY <1>3
<1>5. list' = m
  BY <1>3, Zenon DEF ListOpen
<1> QED
  BY <1>1, <1>2, <1>3, <1>4, <1>5, Zenon DEF ListInv

-----------------------------------------------------------------------------
(* Lists. *)

INSTANCE FiniteSetTheorems

LEMMA ListInvNext ==
  ASSUME TypeInv(Nat), ListInv, [Next]_vars
  PROVE  ListInv'
<1>1. CASE ListStart
  <2>1. PICK m : m = list' /\ m.pc = "walk" /\ Walk(m) /\ m.seen = {} /\ m.n = 0
    BY <1>1, StartWalks, Zenon
  <2>2. Counted(m)
    BY <2>1, FS_EmptySet, Zenon DEF Counted
  <2> QED
    BY <2>1, <2>2, Zenon DEF ListInv
<1>2. CASE ListNext
  <2>1. PICK l, m, no : l = list /\ m = list' /\ no = Slot(l.vcur)
    BY Zenon
  <2>2. /\ m.pc = "walk" /\ Walk(m) /\ m.from = l.from
        /\ \/ m.n = l.n /\ m.seen = l.seen
           \/ m.n = l.n + 1 /\ m.seen = l.seen \cup {no} /\ (l.from = Oldest => no \notin l.seen)
    BY <1>2, <2>1, NextWalks, Zenon
  <2>3. Counted(l)
    BY <1>2, <2>1, Zenon DEF ListNext, ListInv
  <2>4. CASE m.n = l.n /\ m.seen = l.seen
    BY <2>1, <2>2, <2>3, <2>4, Zenon DEF Counted, ListInv
  <2>5. CASE m.n = l.n + 1 /\ m.seen = l.seen \cup {no} /\ (l.from = Oldest => no \notin l.seen)
    <3>1. PICK S : S = l.seen
      BY Zenon
    <3>2. IsFiniteSet(S) /\ (l.from = Oldest => l.n = Cardinality(S))
      BY <2>3, <3>1, Zenon DEF Counted
    <3>3. IsFiniteSet(S \cup {no}) /\ (no \notin S => Cardinality(S \cup {no}) = Cardinality(S) + 1)
      BY <3>2, FS_AddElement, Zenon
    <3>4. Counted(m)
      BY <2>2, <2>5, <3>1, <3>2, <3>3, Zenon DEF Counted
    <3> QED
      BY <2>1, <2>2, <3>4, Zenon DEF ListInv
  <2> QED
    BY <2>2, <2>4, <2>5, Zenon
<1>3. CASE ListClose
  <2>1. list' = NoList
    BY <1>3, Zenon DEF ListClose
  <2>2. NoList.pc = "none"
    BY DEF NoList
  <2> QED
    BY <2>1, <2>2, Zenon DEF ListInv
<1>4. ASSUME list' = list PROVE ListInv'
  BY <1>4, Zenon DEF ListInv
<1>5. CASE \E h \in Handle :
             \/ \E k \in Key : (\E n \in load.sizes : CreateBegin(h, k, n)) \/ OpenBegin(h, k)
             \/ Write(h) \/ CloseBegin(h) \/ Discard(h) \/ CloseRead(h)
             \/ \E ttl \in load.ttls : SetTtl(h, ttl)
             \/ \E xid \in 1 .. idx.xid, no \in Blk : OpenIdBegin(h, xid, no)
  BY <1>4, <1>5, Zenon DEF CreateBegin, OpenBegin, Write, CloseBegin, Discard, CloseRead, Dispose,
     SetTtl, OpenIdBegin
<1>6. ASSUME NEW p \in Proc,
             \/ ReserveSkip(p) \/ ReserveTake(p) \/ ReserveDies(p)
             \/ CreateCommit(p) \/ CreateFails(p) \/ CreateInit(p)
             \/ CloseCommit(p) \/ CloseFails(p) \/ OpenKey(p) \/ OpenId(p)
             \/ \E k \in Key, ttl \in load.ttls, restore \in BOOLEAN :
                  UpdateBegin(p, k, ed_expiry_at(Epoch, ttl, now), restore)
             \/ UpdateCommit(p) \/ Crash(p)
      PROVE  ListInv'
  <2>1. list' = list
    BY <1>6, Zenon DEF ReserveSkip, ReserveTake, ReserveDies, Die, CreateCommit, CreateFails,
       CreateInit, CloseCommit, CloseFails, OpenKey, OpenId, UpdateBegin, UpdateCommit, Crash
  <2> QED
    BY <1>4, <2>1, Zenon
<1>7. CASE Tick \/ UNCHANGED vars
  BY <1>4, <1>7, Zenon DEF Tick, vars
<1> QED
  BY <1>1, <1>2, <1>3, <1>5, <1>6, <1>7, OpenWalks, Zenon DEF Next

(* A list from the oldest object yields at most one header for each place of the
   block table of its snapshot (ListOnce), whatever the processes write, replace,
   fail at or are killed in meanwhile; what it yields there is the header that is
   in the slab by then.  ed_list_open reads the position at which
   the list ends later than the block table, so that the two may not belong
   together: the walk stays within one round of the slab, or else the table has
   a single entry, which the count of rounds in ed_list_next stops at. *)
THEOREM ListTheorem == Spec => []ListOnce
<1>1. Init => TypeInv(Nat) /\ ListInv
  <2>1. ASSUME Init PROVE ListInv
    <3>1. list = NoList /\ NoList.pc = "none"
      BY <2>1 DEF Init, NoList
    <3> QED
      BY <3>1, Zenon DEF ListInv
  <2> QED
    BY <2>1, TypesHold, Zenon
<1>2. TypeInv(Nat) /\ ListInv /\ [Next]_vars => TypeInv(Nat)' /\ ListInv'
  BY TypeNext, ListInvNext, Zenon
<1>3. ListInv => ListOnce
  BY Zenon DEF ListInv, Counted, ListOnce
<1> QED
  BY <1>1, <1>2, <1>3, PTL DEF Spec

=============================================================================
