---------------------------- MODULE CacheExpiry -----------------------------
(***************************************************************************)
(* Proof that headers and key entries keep agreeing about expiry.          *)
(***************************************************************************)
EXTENDS CacheSteps

-----------------------------------------------------------------------------
(* The stores into the slab. *)

(* A change of the slab inside a range that was taken. *)
Inward(r) == r \in Taken /\ \A b \in Blk : b \notin Span(r.no, r.n) => slab'[b] = slab[b]

LEMMA WriteInward ==
  ASSUME CacheInv, NEW h \in Handle, Write(h)
  PROVE  \E r : Inward(r)
<1>1. PICK o : o = obj[h]
  BY Zenon
<1>2. Writing(h) /\ o.seek < o.count
  BY <1>1, Zenon DEF Write
<1>3. o \in WriteObj /\ slab \in [Blk -> Block]
  BY <1>1, <1>2, OwnerIn, Zenon DEF CacheInv, Common, Mine, Object, Writing
<1>4. PICK r : r = [p |-> Owner[h], no |-> obj[h].no, n |-> obj[h].count]
  BY Zenon
<1>5. r.no = o.no /\ r.n = o.count
  BY <1>1, <1>4
<1>6. r \in Taken
  BY <1>2, <1>4, TakenIs, Zenon DEF Writing
<1>7. \A b \in Blk : b # o.no /\ b # o.no + o.seek => slab'[b] = slab[b]
  BY <1>1, <1>3, WriteStores, Zenon DEF Stores
<1>8. \A b \in Blk : b = o.no \/ b = o.no + o.seek => b \in Span(r.no, r.n)
  BY <1>2, <1>3, <1>5, BlockAssumption DEF Span, Blk, WriteObj
<1> QED
  BY <1>6, <1>7, <1>8, Zenon DEF Inward

LEMMA InitInward ==
  ASSUME CacheInv, NEW p \in Proc, CreateInit(p)
  PROVE  \E r : Inward(r)
<1>1. PICK c, no : c = proc[p] /\ no = Slot(c.vno)
  BY Zenon
<1>2. PICK H : c.pc = "init" /\ slab' = [slab EXCEPT ![no].hdr = H]
  BY <1>1, Zenon DEF CreateInit
<1>3. c \in InitCall /\ slab \in [Blk -> Block]
  BY <1>1, <1>2, Zenon DEF CacheInv, Common, Mine, Call
<1>4. c.n \in 1 .. BlockCount /\ c.vno \in Nat
  BY <1>3, Zenon DEF InitCall
<1>5. no \in Blk
  BY <1>1, <1>4, SlotInBlk, Zenon
<1>6. PICK r : r = [p |-> p, no |-> no, n |-> c.n]
  BY Zenon
<1>7. r \in Taken
  BY <1>1, <1>2, <1>6, TakenIs, Zenon
<1>8. r.no = no /\ r.n = c.n
  BY <1>6
<1>9. no \in Span(r.no, r.n)
  BY <1>4, <1>5, <1>8, BlockAssumption DEF Span, Blk
<1>10. \A b \in Blk : b # no => slab'[b] = slab[b]
  BY <1>2, <1>3, Zenon
<1> QED
  BY <1>7, <1>9, <1>10, Zenon DEF Inward

(* Nobody else has a change under way. *)
LEMMA OneChange ==
  ASSUME CacheInv, NEW q \in Proc, proc[q].pc \in Changing
  PROVE  wlock = q /\ wlock # NoProc
<1>1. wlock = q
  BY Zenon DEF CacheInv, Mine, Call
<1> QED
  BY <1>1, LoadAssumption, Zenon

-----------------------------------------------------------------------------
(* Expiry. *)

(* The headers of slab s have the expiries of the key entries of index i, and
   the headers of objects without a key entry are marked as deleted. *)
Agrees(i, s) ==
  \A b \in i.blocks :
    /\ (\A e \in i.keys : Slot(e.vno) # b.no) => s[b.no].hdr.exp = ED_TIME_DELETE
    /\ \A e \in i.keys : Slot(e.vno) = b.no => s[b.no].hdr.exp = e.exp

(* The calls that have changed headers and are to commit that change. *)
Marking == {"closing", "update"}

ExpiryInv ==
  /\ crashes \in Nat
  /\ crashes = 0 =>
       /\ (\A p \in Proc : proc[p].pc \notin Marking) => Agrees(idx, slab)
       /\ \A p \in Proc : proc[p].pc \in Marking \cup {"commit"} => Agrees(proc[p].txn, slab)

LEMMA AgreesSame ==
  ASSUME NEW i, NEW j, NEW s, NEW t, Agrees(i, s), j.keys = i.keys, j.blocks = i.blocks,
         \A b \in i.blocks : t[b.no].hdr.exp = s[b.no].hdr.exp
  PROVE  Agrees(j, t)
BY Zenon DEF Agrees

(* Stores into a range that was taken miss the objects of an index. *)
LEMMA InwardSame ==
  ASSUME CacheInv, NEW r, Inward(r), NEW i, Fits(i, slab, Taken), NEW b \in i.blocks
  PROVE  slab'[b.no] = slab[b.no]
<1>1. PICK no, n : no = r.no /\ n = r.n
  BY Zenon
<1>2. no \in Blk /\ n \in 1 .. BlockCount
  <2>1. r \in Claims
    BY ClaimsIs, Zenon DEF Inward
  <2> QED
    BY <1>1, <2>1, ClaimTypes, Zenon
<1>3. no \in Nat /\ n \in Nat
  BY <1>2, BlockAssumption DEF Blk
<1>4. i \in Index /\ ~Overlap(b, no, no + n)
  BY <1>1, Zenon DEF Fits, Inward
<1>5. PICK a, m : a = b.no /\ m = b.count
  BY Zenon
<1>6. a \in Blk /\ m \in Nat \ {0}
  BY <1>4, <1>5, EntryTypes, Zenon
<1>7. a \in Blk \ Span(no, n)
  BY <1>3, <1>4, <1>5, <1>6, OutsideSpan, Zenon
<1> QED
  BY <1>1, <1>5, <1>7, Zenon DEF Inward

(* A step that leaves the headers of every index alone and begins no change. *)
LEMMA ExpirySame ==
  ASSUME CacheInv, ExpiryInv, NEW p \in Proc, idx' = idx, crashes' = crashes,
         \A q \in Proc : q # p => proc'[q] = proc[q],
         proc[p].pc \notin Marking, proc'[p].pc \notin Marking \cup {"commit"},
         slab' = slab \/ \E r : Inward(r)
  PROVE  ExpiryInv'
<1>1. ASSUME NEW i, Agrees(i, slab), Fits(i, slab, Taken) PROVE Agrees(i, slab')
  <2>1. PICK t : t = slab'
    BY Zenon
  <2>2. \A b \in i.blocks : slab'[b.no] = slab[b.no]
    BY <1>1, InwardSame, Zenon
  <2>3. Agrees(i, t)
    BY <1>1, <2>1, <2>2, AgreesSame, Zenon
  <2> QED
    BY <2>1, <2>3, Zenon
<1>2. Fits(idx, slab, Taken)
  BY Zenon DEF CacheInv, Common
<1>3. ASSUME NEW q \in Proc, proc[q].pc \in Marking \cup {"commit"}
      PROVE  Fits(proc[q].txn, slab, Taken)
  <2>1. PICK i, R, Q : i = proc[q].txn /\ R = Claims /\ Q = Taken
    BY Zenon
  <2>2. Fits(i, slab, R)
    BY <1>3, <2>1, Zenon DEF CacheInv, Mine, Pending, Marking
  <2>3. Q \subseteq R
    BY <2>1, ClaimsIs, Zenon
  <2> QED
    BY <2>1, <2>2, <2>3, FitsFewer, Zenon
<1>4. ASSUME crashes = 0, \A q \in Proc : proc'[q].pc \notin Marking PROVE Agrees(idx, slab')
  <2>1. \A q \in Proc : proc[q].pc \notin Marking
    BY <1>4, Zenon
  <2> QED
    BY <1>1, <1>2, <1>4, <2>1, Zenon DEF ExpiryInv
<1>5. ASSUME crashes = 0, NEW q \in Proc, proc'[q].pc \in Marking \cup {"commit"}
      PROVE  Agrees(proc'[q].txn, slab')
  <2>1. proc'[q] = proc[q]
    BY <1>5, Zenon
  <2>2. proc[q].pc \in Marking \cup {"commit"}
    BY <1>5, <2>1, Zenon
  <2>3. Agrees(proc[q].txn, slab)
    BY <1>5, <2>2, Zenon DEF ExpiryInv
  <2> QED
    BY <1>1, <1>3, <2>1, <2>2, <2>3, Zenon
<1> QED
  BY <1>4, <1>5, Zenon DEF ExpiryInv

(* A step that commits. *)
LEMMA ExpiryCommit ==
  ASSUME CacheInv, ExpiryInv, NEW p \in Proc, proc[p].pc \in Marking \cup {"commit"},
         Commit(proc[p].txn), slab' = slab, crashes' = crashes,
         \A q \in Proc : q # p => proc'[q] = proc[q], proc'[p].pc \notin Marking \cup {"commit"}
  PROVE  ExpiryInv'
<1>1. PICK i, j : i = proc[p].txn /\ j = idx'
  BY Zenon
<1>2. \A q \in Proc : q # p => proc[q].pc \notin Changing
  <2>1. wlock = p
    BY OneChange, Zenon DEF Changing, Marking
  <2> QED
    BY <2>1, OneChange, Zenon
<1>3. \A q \in Proc : proc'[q].pc \notin Marking \cup {"commit"}
  BY <1>2, Zenon DEF Changing, Marking
<1>4. ASSUME crashes = 0 PROVE Agrees(j, slab)
  <2>1. Agrees(i, slab)
    BY <1>1, <1>4, Zenon DEF ExpiryInv
  <2>2. j.keys = i.keys /\ j.blocks = i.blocks
    <3>1. i \in Index
      BY <1>1, Zenon DEF CacheInv, Mine, Pending, Marking, Fits
    <3>2. j = [i EXCEPT !.xid = @ + 1]
      BY <1>1, Zenon DEF Commit
    <3> QED
      BY <3>1, <3>2, Zenon DEF Index
  <2> QED
    BY <2>1, <2>2, AgreesSame, Zenon
<1> QED
  BY <1>1, <1>3, <1>4, Zenon DEF ExpiryInv

(* A step after which p is to commit c.txn. *)
LEMMA ExpiryBegin ==
  ASSUME CacheInv, ExpiryInv, NEW p \in Proc, NEW c, Go(p, c), wlock \in {p, NoProc},
         c.pc \in Marking \/ (c.pc = "commit" /\ proc[p].pc \notin Marking /\ idx' = idx /\ slab' = slab),
         crashes' = crashes, crashes = 0 => Agrees(c.txn, slab')
  PROVE  ExpiryInv'
<1>1. proc'[p] = c /\ \A q \in Proc : q # p => proc'[q] = proc[q]
  BY GoIs, Zenon
<1>2. \A q \in Proc : q # p => proc[q].pc \notin Changing
  BY OneChange, Zenon
<1>3. \A q \in Proc : q # p => proc'[q].pc \notin Marking \cup {"commit"}
  BY <1>1, <1>2, Zenon DEF Changing, Marking
<1>4. ASSUME crashes = 0, \A q \in Proc : proc'[q].pc \notin Marking PROVE Agrees(idx', slab')
  <2>1. \A q \in Proc : proc[q].pc \notin Marking
    BY <1>1, <1>2, <1>4, Zenon DEF Changing, Marking
  <2>2. idx' = idx /\ slab' = slab
    BY <1>1, <1>4, Zenon
  <2> QED
    BY <1>4, <2>1, <2>2, Zenon DEF ExpiryInv
<1> QED
  BY <1>1, <1>3, <1>4, Zenon DEF ExpiryInv

(* Objects of the block table have places of their own. *)
LEMMA OnePlaceEach ==
  ASSUME NEW i \in Index, NEW s, Matches(i, s), NEW b \in i.blocks, NEW d \in i.blocks, b.no = d.no
  PROVE  b = d
<1>1. b.no \in Blk /\ b.count \in Nat \ {0} /\ d.count \in Nat \ {0}
  BY EntryTypes, Zenon
<1>2. Overlap(b, d.no, d.no + d.count)
  BY <1>1, BlockAssumption DEF Overlap, Blk
<1> QED
  BY <1>2, Zenon DEF Matches

(* A block has the object of one key entry. *)
LEMMA OneEntryEach ==
  ASSUME NEW i, NEW s, Matches(i, s), OneEach(i), NEW e \in i.keys, NEW f \in i.keys,
         Slot(e.vno) = Slot(f.vno)
  PROVE  e = f
<1>1. s[Slot(e.vno)].hdr.key = e.key /\ s[Slot(f.vno)].hdr.key = f.key
  BY Zenon DEF Matches
<1> QED
  BY <1>1, Zenon DEF OneEach

(* obj_reserve removes an object from both tables. *)
LEMMA ClearedAgrees ==
  ASSUME NEW c, c.txn \in Index, Matches(c.txn, slab), Agrees(c.txn, slab),
         NEW v, NEW j, j = [ClearedFor(c) EXCEPT !.vno = v]
  PROVE  Agrees(j, slab)
<1>1. PICK i, D : i = c.txn /\ D = Replaced(i.blocks, c.no, c.no + c.n)
  BY Zenon
<1>2. PICK K : K = {e \in i.keys : \A b \in D : ~(e.key = slab[b.no].hdr.key /\ Slot(e.vno) = b.no)}
  BY Zenon
<1>3. PICK w : w = [i EXCEPT !.blocks = i.blocks \ D, !.keys = K]
  BY Zenon
<1>4. w.blocks = i.blocks \ D /\ w.keys = K /\ w \in [keys : {K}, blocks : {i.blocks \ D}, vno : Nat, xid : Nat]
  BY <1>1, <1>3, Zenon DEF Index
<1>5. j = [w EXCEPT !.vno = v]
  BY <1>1, <1>2, <1>3, Zenon DEF ClearedFor, WithoutObjects
<1>6. j.blocks = i.blocks \ D /\ j.keys = K
  BY <1>4, <1>5, Zenon
<1>7. ASSUME NEW b \in j.blocks, NEW e \in i.keys, Slot(e.vno) = b.no PROVE e \in j.keys
  <2>1. ASSUME NEW d \in D, Slot(e.vno) = d.no PROVE FALSE
    <3>1. d \in i.blocks
      BY <1>1, <2>1, Zenon DEF Replaced
    <3>2. b \in i.blocks /\ b \notin D
      BY <1>6, <1>7, Zenon
    <3>3. b.no = d.no
      BY <1>7, <2>1, Zenon
    <3>4. b = d
      BY <1>1, <3>1, <3>2, <3>3, OnePlaceEach, Zenon
    <3> QED
      BY <2>1, <3>2, <3>4, Zenon
  <2> QED
    BY <1>2, <1>6, <1>7, <2>1, Zenon
<1>8. \A e \in j.keys : e \in i.keys
  BY <1>2, <1>6, Zenon
<1>9. \A b \in j.blocks : b \in i.blocks
  BY <1>6, Zenon
<1> QED
  BY <1>1, <1>7, <1>8, <1>9, Zenon DEF Agrees

(* Index j has f for the entry e of i, and the header behind it the expiry of f. *)
Remarked(i, j, s, t, e, f) ==
  /\ f.vno = e.vno /\ j.blocks = i.blocks /\ j.keys = (i.keys \ {e}) \cup {f}
  /\ t[Slot(e.vno)].hdr.exp = f.exp
  /\ \A b \in i.blocks : b.no # Slot(e.vno) => t[b.no] = s[b.no]

LEMMA UpdatedAgrees ==
  ASSUME NEW i, NEW j, NEW s, NEW t, Matches(i, s), OneEach(i), Agrees(i, s),
         NEW e \in i.keys, NEW f, Remarked(i, j, s, t, e, f)
  PROVE  Agrees(j, t)
<1>0. /\ f.vno = e.vno /\ j.blocks = i.blocks /\ j.keys = (i.keys \ {e}) \cup {f}
      /\ t[Slot(e.vno)].hdr.exp = f.exp
      /\ \A b \in i.blocks : b.no # Slot(e.vno) => t[b.no] = s[b.no]
  BY Zenon DEF Remarked
<1>1. ASSUME NEW b \in j.blocks, b.no = Slot(e.vno)
      PROVE  /\ \E g \in j.keys : Slot(g.vno) = b.no
             /\ \A g \in j.keys : Slot(g.vno) = b.no => t[b.no].hdr.exp = g.exp
  <2>1. \A g \in j.keys : Slot(g.vno) = b.no => g = f
    BY <1>0, <1>1, OneEntryEach, Zenon
  <2>2. f \in j.keys /\ Slot(f.vno) = b.no
    BY <1>0, <1>1, Zenon
  <2> QED
    BY <1>0, <1>1, <2>1, <2>2, Zenon
<1>2. ASSUME NEW b \in j.blocks, b.no # Slot(e.vno)
      PROVE  /\ (\A g \in j.keys : Slot(g.vno) # b.no) => t[b.no].hdr.exp = ED_TIME_DELETE
             /\ \A g \in j.keys : Slot(g.vno) = b.no => t[b.no].hdr.exp = g.exp
  <2>1. \A g : Slot(g.vno) = b.no => (g \in j.keys <=> g \in i.keys)
    BY <1>0, <1>2, Zenon
  <2>2. t[b.no] = s[b.no] /\ b \in i.blocks
    BY <1>0, <1>2, Zenon
  <2> QED
    BY <2>1, <2>2, Zenon DEF Agrees
<1> QED
  BY <1>1, <1>2, Zenon DEF Agrees

(* Index j has the entries of object o; the header of o has its expiry and that
   of the object it replaces is marked. *)
Marked(i, s, t, o) ==
  /\ t[o.no].hdr.exp = o.exp
  /\ \A b \in i.blocks :
       /\ b.no # o.no
       /\ (\E f \in i.keys : f.key = o.key /\ Slot(f.vno) = b.no) => t[b.no].hdr.exp = ED_TIME_DELETE
       /\ (\A f \in i.keys : f.key = o.key => Slot(f.vno) # b.no) => t[b.no] = s[b.no]

LEMMA EnteredAgrees ==
  ASSUME NEW i, NEW j, NEW s, NEW t, Matches(i, s), OneEach(i), Agrees(i, s),
         NEW o, NEW x, NEW e, Entered(i, j, o, x, e), Slot(o.vno) = o.no, Marked(i, s, t, o)
  PROVE  Agrees(j, t)
<1>0. /\ t[o.no].hdr.exp = o.exp
      /\ \A b \in i.blocks :
           /\ b.no # o.no
           /\ (\E f \in i.keys : f.key = o.key /\ Slot(f.vno) = b.no) => t[b.no].hdr.exp = ED_TIME_DELETE
           /\ (\A f \in i.keys : f.key = o.key => Slot(f.vno) # b.no) => t[b.no] = s[b.no]
  BY Zenon DEF Marked
<1>1. /\ x.no = o.no /\ e.vno = o.vno /\ e.exp = o.exp
      /\ \A b \in j.blocks : b \in i.blocks \/ b = x
      /\ \A f : f \in j.keys <=> (f \in i.keys /\ f.key # o.key) \/ f = e
  BY Zenon DEF Entered
<1>2. \A f \in i.keys : Slot(f.vno) # o.no
  BY <1>0, Zenon DEF Matches
<1>3. \A f \in j.keys : Slot(f.vno) = o.no => f = e
  BY <1>1, <1>2, Zenon
<1>4. e \in j.keys /\ Slot(e.vno) = o.no
  BY <1>1, Zenon
<1>5. /\ \E f \in j.keys : Slot(f.vno) = x.no
      /\ \A f \in j.keys : Slot(f.vno) = x.no => t[x.no].hdr.exp = f.exp
  BY <1>0, <1>1, <1>3, <1>4, Zenon
<1>6. ASSUME NEW b \in i.blocks
      PROVE  /\ (\A f \in j.keys : Slot(f.vno) # b.no) => t[b.no].hdr.exp = ED_TIME_DELETE
             /\ \A f \in j.keys : Slot(f.vno) = b.no => t[b.no].hdr.exp = f.exp
  <2>1. b.no # o.no
    BY <1>0, <1>6, Zenon
  <2>2. \A f \in j.keys : Slot(f.vno) = b.no => f \in i.keys /\ f.key # o.key
    BY <1>1, <1>4, <2>1, Zenon
  <2>3. CASE \E f \in i.keys : f.key = o.key /\ Slot(f.vno) = b.no
    <3>1. PICK f \in i.keys : f.key = o.key /\ Slot(f.vno) = b.no
      BY <2>3, Zenon
    <3>2. \A g \in j.keys : Slot(g.vno) # b.no
      BY <2>2, <3>1, OneEntryEach, Zenon
    <3> QED
      BY <1>0, <1>6, <2>3, <3>2, Zenon
  <2>4. CASE \A f \in i.keys : f.key = o.key => Slot(f.vno) # b.no
    <3>1. \A f : Slot(f.vno) = b.no => (f \in j.keys <=> f \in i.keys)
      BY <1>1, <2>2, <2>4, Zenon
    <3>2. t[b.no] = s[b.no]
      BY <1>0, <1>6, <2>4, Zenon
    <3> QED
      BY <1>6, <3>1, <3>2, Zenon DEF Agrees
  <2> QED
    BY <2>3, <2>4, Zenon
<1> QED
  BY <1>1, <1>5, <1>6, Zenon DEF Agrees

LEMMA TakeExpiry ==
  ASSUME CacheInv, InStep, ExpiryInv, NEW p \in Proc, ReserveTake(p)
  PROVE  ExpiryInv'
<1>1. proc[p].pc = "reserve"
  BY Zenon DEF ReserveTake
<1>2. /\ proc[p] \in ReserveCall /\ wlock = p /\ proc[p].txn = idx
      /\ proc[p].start = proc[p].no /\ Slot(proc[p].vno) = proc[p].no
  BY <1>1, Zenon DEF CacheInv, Mine, Call, Pending, Changing, InStep
<1>3. PICK c : c = Wrapped(proc[p]) /\ c.txn = idx
  BY <1>2, WrappedIs, Zenon
<1>4. PICK j, v : v = c.vno + c.n /\ j = [ClearedFor(c) EXCEPT !.vno = v]
  BY Zenon
<1>5. PICK d : d = [pc |-> "commit", h |-> c.h, key |-> c.key, n |-> c.n, vno |-> c.vno, txn |-> j]
  BY Zenon
<1>6. d.pc = "commit" /\ d.txn = j
  BY <1>5
<1>7. slab' = slab /\ idx' = idx /\ crashes' = crashes /\ Go(p, d)
  BY <1>3, <1>4, <1>5, Zenon DEF ReserveTake
<1>8. proc[p].pc \notin Marking
  BY <1>1, Zenon DEF Marking
<1>9. \A q \in Proc : proc[q].pc \notin Marking
  BY <1>2, <1>8, OneChange, Zenon DEF Changing, Marking
<1>10. ASSUME crashes = 0 PROVE Agrees(d.txn, slab')
  <2>1. Agrees(idx, slab)
    BY <1>9, <1>10, Zenon DEF ExpiryInv
  <2>2. idx \in Index /\ Matches(idx, slab)
    BY Zenon DEF CacheInv, Common, Fits
  <2>3. Agrees(j, slab)
    BY <1>3, <1>4, <2>1, <2>2, ClearedAgrees, Zenon
  <2> QED
    BY <1>6, <1>7, <2>3, Zenon
<1> QED
  BY <1>2, <1>6, <1>7, <1>8, <1>10, ExpiryBegin, Zenon

(* Between two changes nothing is marked ahead of the index. *)
LEMMA AgreesNow ==
  ASSUME CacheInv, ExpiryInv, wlock = NoProc, crashes = 0
  PROVE  Agrees(idx, slab)
<1>1. \A q \in Proc : proc[q].pc \notin Marking
  BY OneChange, Zenon DEF Changing, Marking
<1> QED
  BY <1>1, Zenon DEF ExpiryInv

LEMMA UpdateExpiry ==
  ASSUME CacheInv, ExpiryInv, NEW p \in Proc, NEW k, NEW x, NEW restore,
         UpdateBegin(p, k, x, restore)
  PROVE  ExpiryInv'
<1>1. PICK e \in idx.keys :
        /\ slab' = WithExpiry(Slot(e.vno), x)
        /\ Go(p, [pc |-> "update", txn |-> [idx EXCEPT !.keys = (@ \ {e}) \cup {[e EXCEPT !.exp = x]}]])
  BY Zenon DEF UpdateBegin, Entries
<1>2. wlock = NoProc /\ crashes' = crashes
  BY Zenon DEF UpdateBegin, CanChange
<1>3. idx \in Index /\ Matches(idx, slab) /\ OneEach(idx) /\ slab \in [Blk -> Block]
  BY Zenon DEF CacheInv, Common, Fits
<1>4. PICK f, j : f = [e EXCEPT !.exp = x] /\ j = [idx EXCEPT !.keys = (@ \ {e}) \cup {f}]
  BY Zenon
<1>5. f.vno = e.vno /\ f.exp = x
  <2>1. e \in [key : Key, vno : Nat, count : Nat \ {0}, exp : Int]
    BY <1>1, <1>3, Zenon DEF Index
  <2> QED
    BY <1>4, <2>1, Zenon
<1>6. j.blocks = idx.blocks /\ j.keys = (idx.keys \ {e}) \cup {f}
  BY <1>3, <1>4, Zenon DEF Index
<1>7. PICK c : c = [pc |-> "update", txn |-> j]
  BY Zenon
<1>8. c.pc \in Marking /\ c.txn = j
  BY <1>7 DEF Marking
<1>9. Go(p, c)
  BY <1>1, <1>4, <1>7, Zenon
<1>10. PICK no, t : no = Slot(e.vno) /\ t = slab'
  BY Zenon
<1>11. no \in Blk
  BY <1>3, <1>10, EntryTypes, Zenon
<1>12. t[no].hdr.exp = x /\ \A b \in Blk : b # no => t[b] = slab[b]
  <2>1. PICK B, H : B = slab[no] /\ H = B.hdr
    BY Zenon
  <2>2. B \in Block
    BY <1>3, <1>11, <2>1, Zenon
  <2>3. H \in [key : Key \cup {NoKey}, val : 0 .. MaxXid, count : Nat, exp : Int, xid : Nat, crc : Nat]
    BY <2>1, <2>2, Zenon DEF Block
  <2>4. PICK G : G = [H EXCEPT !.exp = x]
    BY Zenon
  <2>5. G.exp = x
    BY <2>3, <2>4, Zenon
  <2>6. t = [slab EXCEPT ![no] = [B EXCEPT !.hdr = G]]
    BY <1>1, <1>10, <2>1, <2>4, Zenon DEF WithExpiry
  <2>7. PICK d : d = [B EXCEPT !.hdr = G]
    BY Zenon
  <2>8. d.hdr = G
    BY <2>2, <2>7, Zenon DEF Block
  <2>9. t = [slab EXCEPT ![no] = d]
    BY <2>6, <2>7, Zenon
  <2> QED
    BY <1>3, <1>11, <2>5, <2>8, <2>9, Zenon
<1>13. ASSUME crashes = 0 PROVE Agrees(c.txn, slab')
  <2>1. Agrees(idx, slab)
    BY <1>2, <1>13, AgreesNow, Zenon
  <2>2. \A b \in idx.blocks : b.no # Slot(e.vno) => t[b.no] = slab[b.no]
    BY <1>3, <1>10, <1>12, EntryTypes, Zenon
  <2>3. t[Slot(e.vno)].hdr.exp = f.exp /\ f.vno = e.vno
    BY <1>5, <1>10, <1>12, Zenon
  <2>4. Remarked(idx, j, slab, t, e, f)
    BY <1>6, <2>2, <2>3, Zenon DEF Remarked
  <2>5. Agrees(j, t)
    BY <1>1, <1>3, <2>1, <2>4, UpdatedAgrees, Zenon
  <2> QED
    BY <1>8, <1>10, <2>5, Zenon
<1> QED
  BY <1>2, <1>8, <1>9, <1>13, ExpiryBegin, Zenon

Stamped(d, x) == d.hdr.exp = x

LEMMA ExpiryStored ==
  ASSUME NEW B \in Block, NEW x, NEW y, NEW d,
         d = [B EXCEPT !.hdr.exp = x] \/ d = [B EXCEPT !.hdr.exp = x, !.hdr.xid = y]
  PROVE  Stamped(d, x)
<1>1. PICK H : H = B.hdr
  BY Zenon
<1>2. H \in [key : Key \cup {NoKey}, val : 0 .. MaxXid, count : Nat, exp : Int, xid : Nat, crc : Nat]
  BY <1>1, Zenon DEF Block
<1>3. PICK G : /\ G = [H EXCEPT !.exp = x] \/ G = [H EXCEPT !.exp = x, !.xid = y]
               /\ d = [B EXCEPT !.hdr = G]
  BY <1>1, Zenon DEF Block
<1>4. G.exp = x
  BY <1>2, <1>3, Zenon
<1>5. d.hdr = G
  BY <1>3, Zenon DEF Block
<1> QED
  BY <1>4, <1>5, Zenon DEF Stamped

(* The headers after the stores of ed_close. *)
Closed(s, t, o, old) ==
  /\ t[o.no].hdr.exp = o.exp
  /\ \A b \in Blk : b # o.no =>
       /\ (\E e \in old : Slot(e.vno) = b) => t[b].hdr.exp = ED_TIME_DELETE
       /\ (\A e \in old : Slot(e.vno) # b) => t[b] = s[b]

LEMMA FinishedExp ==
  ASSUME slab \in [Blk -> Block], NEW o, o.no \in Blk, NEW old, NEW t, t = Finished(o, old)
  PROVE  Closed(slab, t, o, old)
<1>1. t[o.no].hdr.exp = o.exp
  <2>1. PICK B, x, y, d : B = slab[o.no] /\ x = o.exp /\ y = idx.xid + 1 /\ d = t[o.no]
    BY Zenon
  <2>2. d = [B EXCEPT !.hdr.exp = x] \/ d = [B EXCEPT !.hdr.exp = x, !.hdr.xid = y]
    BY <2>1, Zenon DEF Finished
  <2>3. B \in Block
    BY <2>1, Zenon
  <2>4. Stamped(d, x)
    BY <2>2, <2>3, ExpiryStored, Zenon
  <2> QED
    BY <2>1, <2>4, Zenon DEF Stamped
<1>2. ASSUME NEW b \in Blk, b # o.no
      PROVE  /\ (\E e \in old : Slot(e.vno) = b) => t[b] = [slab[b] EXCEPT !.hdr.exp = ED_TIME_DELETE]
             /\ (\A e \in old : Slot(e.vno) # b) => t[b] = slab[b]
  BY <1>2, Zenon DEF Finished
<1>3. ASSUME NEW b \in Blk, b # o.no, \E e \in old : Slot(e.vno) = b
      PROVE  t[b].hdr.exp = ED_TIME_DELETE
  <2>1. PICK B, x, y, d : B = slab[b] /\ x = ED_TIME_DELETE /\ y = 0 /\ d = t[b]
    BY Zenon
  <2>2. d = [B EXCEPT !.hdr.exp = x] \/ d = [B EXCEPT !.hdr.exp = x, !.hdr.xid = y]
    BY <1>2, <1>3, <2>1, Zenon
  <2>3. B \in Block
    BY <2>1, Zenon
  <2>4. Stamped(d, x)
    BY <2>2, <2>3, ExpiryStored, Zenon
  <2> QED
    BY <2>1, <2>4, Zenon DEF Stamped
<1> QED
  BY <1>1, <1>2, <1>3, Zenon DEF Closed

LEMMA CloseExpiry ==
  ASSUME CacheInv, ExpiryInv, NEW h \in Handle, CloseBegin(h)
  PROVE  ExpiryInv'
<1>1. PICK p \in Proc : p = Owner[h]
  BY OwnerIn, Zenon
<1>2. PICK o : o = obj[h]
  BY Zenon
<1>3. Writing(h) /\ wlock = NoProc /\ crashes' = crashes
  BY Zenon DEF CloseBegin, CanChange
<1>4. o \in WriteObj /\ HasPart(slab, o) /\ slab \in [Blk -> Block]
  BY <1>1, <1>2, <1>3, Zenon DEF CacheInv, Common, Mine, Object, Writing
<1>5. slab[o.no].hdr.key = o.key /\ Slot(o.vno) = o.no
  BY <1>4, Zenon DEF HasPart
<1>6. PICK old : /\ old \subseteq Entries(idx, o.key, o.key)
                 /\ old = {} => Entries(idx, o.key, o.key) = {}
                 /\ slab' = Finished(o, old)
                 /\ Go(p, [pc |-> "closing", txn |-> Upserted(idx, o, o.key, old)])
  BY <1>1, <1>2, <1>5, Zenon DEF CloseBegin
<1>7. idx \in Index /\ Matches(idx, slab) /\ OneEach(idx)
  BY Zenon DEF CacheInv, Common, Fits
<1>8. PICK j, c : j = Upserted(idx, o, o.key, old) /\ c = [pc |-> "closing", txn |-> j]
  BY Zenon
<1>9. c.pc \in Marking /\ c.txn = j
  BY <1>8 DEF Marking
<1>10. Go(p, c)
  BY <1>6, <1>8, Zenon
<1>11. PICK x, e : Entered(idx, j, o, x, e)
  BY <1>4, <1>6, <1>8, UpsertedIs, Zenon
<1>12. \A f \in idx.keys : f \in old <=> f.key = o.key
  <2>1. ASSUME NEW f \in old PROVE f \in idx.keys /\ f.key = o.key
    BY <1>6, <2>1, EntriesAre, Zenon
  <2>2. ASSUME NEW f \in idx.keys, f.key = o.key PROVE f \in old
    <3>1. PICK g : g \in old
      BY <1>6, <2>2, EntriesAre, Zenon
    <3> QED
      BY <1>7, <2>1, <2>2, <3>1, Zenon DEF OneEach
  <2> QED
    BY <2>1, <2>2, Zenon
<1>13. \A f \in old : f \in idx.keys
  BY <1>6, EntriesAre, Zenon
<1>14. PICK t : t = slab'
  BY Zenon
<1>15. o.no \in Blk
  BY <1>4, Zenon DEF WriteObj
<1>16. /\ t[o.no].hdr.exp = o.exp
       /\ \A b \in Blk : b # o.no =>
            /\ (\E f \in old : Slot(f.vno) = b) => t[b].hdr.exp = ED_TIME_DELETE
            /\ (\A f \in old : Slot(f.vno) # b) => t[b] = slab[b]
  <2>1. Closed(slab, t, o, old)
    BY <1>4, <1>6, <1>14, <1>15, FinishedExp, Zenon
  <2> QED
    BY <2>1, Zenon DEF Closed
<1>17. ASSUME NEW b \in idx.blocks PROVE b.no \in Blk /\ b.no # o.no
  <2>1. PICK r : r = [p |-> Owner[h], no |-> obj[h].no, n |-> obj[h].count]
    BY Zenon
  <2>2. r \in Taken
    BY <1>3, <2>1, TakenIs, Zenon DEF Writing
  <2>3. r.no = o.no /\ r.n = o.count
    BY <1>2, <2>1
  <2>4. ~Overlap(b, o.no, o.no + o.count)
    BY <1>17, <2>2, <2>3, Zenon DEF CacheInv, Common, Fits
  <2>5. b.no \in Blk /\ b.count \in Nat \ {0} /\ o.count \in 1 .. BlockCount
    BY <1>4, <1>7, <1>17, EntryTypes, Zenon DEF WriteObj
  <2> QED
    BY <1>15, <2>4, <2>5, BlockAssumption DEF Overlap, Blk
<1>18. ASSUME NEW b \in idx.blocks
       PROVE  /\ (\E f \in idx.keys : f.key = o.key /\ Slot(f.vno) = b.no) => t[b.no].hdr.exp = ED_TIME_DELETE
              /\ (\A f \in idx.keys : f.key = o.key => Slot(f.vno) # b.no) => t[b.no] = slab[b.no]
  <2>1. b.no \in Blk /\ b.no # o.no
    BY <1>17, <1>18, Zenon
  <2> QED
    BY <1>12, <1>13, <1>16, <2>1, Zenon
<1>19. ASSUME crashes = 0 PROVE Agrees(c.txn, slab')
  <2>1. Agrees(idx, slab)
    BY <1>3, <1>19, AgreesNow, Zenon
  <2>2. Marked(idx, slab, t, o)
    BY <1>16, <1>17, <1>18, Zenon DEF Marked
  <2>3. Agrees(j, t)
    BY <1>5, <1>7, <1>11, <2>1, <2>2, EnteredAgrees, Zenon
  <2> QED
    BY <1>9, <1>14, <2>3, Zenon
<1> QED
  BY <1>3, <1>9, <1>10, <1>19, ExpiryBegin, Zenon

(* A change that is cut short is counted. *)
LEMMA ExpiryCut ==
  ASSUME ExpiryInv, crashes' = crashes + 1
  PROVE  ExpiryInv'
<1>1. crashes \in Nat
  BY Zenon DEF ExpiryInv
<1>2. crashes' \in Nat /\ crashes' # 0
  BY <1>1
<1> QED
  BY <1>2, Zenon DEF ExpiryInv

LEMMA HandleExpiry ==
  ASSUME CacheInv, ExpiryInv, NEW h \in Handle,
         \/ \E k \in Key : (\E n \in load.sizes : CreateBegin(h, k, n)) \/ OpenBegin(h, k)
         \/ Write(h) \/ CloseBegin(h) \/ Discard(h) \/ CloseRead(h)
         \/ \E ttl \in load.ttls : SetTtl(h, ttl)
         \/ \E xid \in 1 .. idx.xid, no \in Blk : OpenIdBegin(h, xid, no)
  PROVE  ExpiryInv'
<1>1. PICK p \in Proc : p = Owner[h]
  BY OwnerIn, Zenon
<1>2. "idle" \notin Marking \cup {"commit"}
  BY Zenon DEF Marking
<1>3. CASE Write(h) \/ Discard(h) \/ CloseRead(h) \/ \E ttl \in load.ttls : SetTtl(h, ttl)
  <2>1. idx' = idx /\ proc' = proc /\ crashes' = crashes /\ proc[p].pc = "idle"
    BY <1>1, <1>3, Zenon DEF Write, Discard, CloseRead, Dispose, SetTtl, Writing
  <2>2. slab' = slab \/ \E r : Inward(r)
    BY <1>3, WriteInward, Zenon DEF Discard, CloseRead, Dispose, SetTtl
  <2> QED
    BY <1>2, <2>1, <2>2, ExpirySame, Zenon
<1>4. CASE \/ \E k \in Key : (\E n \in load.sizes : CreateBegin(h, k, n)) \/ OpenBegin(h, k)
           \/ \E xid \in 1 .. idx.xid, no \in Blk : OpenIdBegin(h, xid, no)
  <2>1. idx' = idx /\ slab' = slab /\ crashes' = crashes /\ proc[p].pc = "idle"
    BY <1>1, <1>4, Zenon DEF CreateBegin, OpenBegin, OpenIdBegin, CanStart
  <2>2. \E c : Go(p, c) /\ c.pc \in {"reserve", "open", "openid"}
    <3>1. ASSUME NEW k, NEW n, CreateBegin(h, k, n)
          PROVE  \E c : Go(p, c) /\ c.pc \in {"reserve", "open", "openid"}
      <4>1. PICK c : /\ Go(p, c)
                     /\ c = [pc |-> "reserve", h |-> h, key |-> k, n |-> n, txn |-> idx,
                             vno |-> idx.vno, no |-> Slot(idx.vno), start |-> Slot(idx.vno)]
        BY <1>1, <3>1, Zenon DEF CreateBegin
      <4>2. c.pc = "reserve"
        BY <4>1
      <4> QED
        BY <4>1, <4>2, Zenon
    <3>2. ASSUME NEW k, OpenBegin(h, k)
          PROVE  \E c : Go(p, c) /\ c.pc \in {"reserve", "open", "openid"}
      <4>1. PICK c : Go(p, c) /\ c = [pc |-> "open", h |-> h, key |-> k, found |-> {e \in idx.keys : e.key = k}]
        BY <1>1, <3>2, Zenon DEF OpenBegin
      <4>2. c.pc = "open"
        BY <4>1
      <4> QED
        BY <4>1, <4>2, Zenon
    <3>3. ASSUME NEW xid, NEW no, OpenIdBegin(h, xid, no)
          PROVE  \E c : Go(p, c) /\ c.pc \in {"reserve", "open", "openid"}
      <4>1. PICK b, c : Go(p, c) /\ c = [pc |-> "openid", h |-> h, b |-> b, vno |-> no]
        BY <1>1, <3>3, Zenon DEF OpenIdBegin
      <4>2. c.pc = "openid"
        BY <4>1
      <4> QED
        BY <4>1, <4>2, Zenon
    <3> QED
      BY <1>4, <3>1, <3>2, <3>3, Zenon
  <2>3. PICK c : Go(p, c) /\ c.pc \in {"reserve", "open", "openid"}
    BY <2>2, Zenon
  <2>4. c.pc \notin Marking \cup {"commit"}
    BY <2>3, Zenon DEF Marking
  <2>5. proc'[p] = c /\ \A q \in Proc : q # p => proc'[q] = proc[q]
    BY <2>3, GoIs, Zenon
  <2> QED
    BY <1>2, <2>1, <2>4, <2>5, ExpirySame, Zenon
<1> QED
  BY <1>3, <1>4, CloseExpiry, Zenon

LEMMA ProcExpiry ==
  ASSUME CacheInv, InStep, ExpiryInv, NEW p \in Proc,
         \/ ReserveSkip(p) \/ ReserveTake(p) \/ ReserveDies(p)
         \/ CreateCommit(p) \/ CreateFails(p) \/ CreateInit(p)
         \/ CloseCommit(p) \/ CloseFails(p) \/ OpenKey(p) \/ OpenId(p)
         \/ \E k, exp, restore : UpdateBegin(p, k, exp, restore)
         \/ UpdateCommit(p) \/ Crash(p)
  PROVE  ExpiryInv'
<1>1. "idle" \notin Marking \cup {"commit"} /\ Idle.pc = "idle"
  BY IdleIs, Zenon DEF Marking
<1>2. CASE ReserveSkip(p)
  <2>1. proc[p].pc = "reserve" /\ slab' = slab /\ idx' = idx /\ crashes' = crashes
    BY <1>2, Zenon DEF ReserveSkip
  <2>2. /\ proc[p] \in ReserveCall /\ proc[p].start = proc[p].no /\ Slot(proc[p].vno) = proc[p].no
    BY <2>1, Zenon DEF CacheInv, Mine, Call, Pending, InStep
  <2>3. PICK c : c = Wrapped(proc[p]) /\ c \in ReserveCall
    BY <2>2, WrappedIs, Zenon
  <2>4. PICK b, d, v : d = [c EXCEPT !.vno = v, !.no = b.no, !.start = b.no] /\ Go(p, d)
    BY <1>2, <2>3, Zenon DEF ReserveSkip
  <2>5. d.pc = "reserve"
    BY <2>3, <2>4, Zenon DEF ReserveCall
  <2>6. proc'[p] = d /\ \A q \in Proc : q # p => proc'[q] = proc[q]
    BY <2>4, GoIs, Zenon
  <2>7. "reserve" \notin Marking \cup {"commit"}
    BY Zenon DEF Marking
  <2> QED
    BY <2>1, <2>5, <2>6, <2>7, ExpirySame, Zenon
<1>3. CASE CreateFails(p) \/ CreateInit(p) \/ OpenKey(p) \/ OpenId(p)
  <2>1. /\ idx' = idx /\ crashes' = crashes /\ Go(p, Idle)
        /\ proc[p].pc \in {"commit", "init", "open", "openid"}
    BY <1>3, Zenon DEF CreateFails, CreateInit, OpenKey, OpenId
  <2>2. slab' = slab \/ \E r : Inward(r)
    BY <1>3, InitInward, Zenon DEF CreateFails, OpenKey, OpenId
  <2>3. proc'[p] = Idle /\ \A q \in Proc : q # p => proc'[q] = proc[q]
    BY <2>1, GoIs, Zenon
  <2>4. proc[p].pc \notin Marking
    BY <2>1, Zenon DEF Marking
  <2> QED
    BY <1>1, <2>1, <2>2, <2>3, <2>4, ExpirySame, Zenon
<1>4. CASE CreateCommit(p)
  <2>1. PICK c, d : c = proc[p] /\ d = [c EXCEPT !.pc = "init", !.txn = idx.xid + 1]
    BY Zenon
  <2>2. c.pc = "commit" /\ Commit(proc[p].txn) /\ Go(p, d) /\ slab' = slab /\ crashes' = crashes
    BY <1>4, <2>1, Zenon DEF CreateCommit
  <2>3. c \in CommitCall
    BY <2>1, <2>2, Zenon DEF CacheInv, Mine, Call
  <2>4. d.pc = "init"
    BY <2>1, <2>3, Zenon DEF CommitCall
  <2>5. proc'[p] = d /\ \A q \in Proc : q # p => proc'[q] = proc[q]
    BY <2>2, GoIs, Zenon
  <2>6. "init" \notin Marking \cup {"commit"}
    BY Zenon DEF Marking
  <2> QED
    BY <2>1, <2>2, <2>4, <2>5, <2>6, ExpiryCommit, Zenon
<1>5. CASE CloseCommit(p) \/ UpdateCommit(p)
  <2>1. Commit(proc[p].txn) /\ Go(p, Idle) /\ slab' = slab /\ crashes' = crashes /\ proc[p].pc \in Marking
    BY <1>5, Zenon DEF CloseCommit, UpdateCommit, Marking
  <2>2. proc'[p] = Idle /\ \A q \in Proc : q # p => proc'[q] = proc[q]
    BY <2>1, GoIs, Zenon
  <2> QED
    BY <1>1, <2>1, <2>2, ExpiryCommit, Zenon
<1>6. CASE ReserveDies(p) \/ Crash(p) \/ CloseFails(p)
  <2>1. crashes' = crashes + 1
    BY <1>6, Zenon DEF ReserveDies, Crash, Die, CloseFails
  <2> QED
    BY <2>1, ExpiryCut, Zenon
<1> QED
  BY <1>2, <1>3, <1>4, <1>5, <1>6, TakeExpiry, UpdateExpiry, Zenon

LEMMA ExpiryNext ==
  ASSUME CacheInv, InStep, ExpiryInv, [Next]_vars
  PROVE  ExpiryInv'
<1>1. ASSUME NEW h \in Handle, NEW k \in Key,
             (\E n \in load.sizes : CreateBegin(h, k, n)) \/ OpenBegin(h, k)
      PROVE  ExpiryInv'
  BY <1>1, HandleExpiry, Zenon
<1>2. ASSUME NEW h \in Handle,
             \/ Write(h) \/ CloseBegin(h) \/ Discard(h) \/ CloseRead(h)
             \/ \E ttl \in load.ttls : SetTtl(h, ttl)
             \/ \E xid \in 1 .. idx.xid, no \in Blk : OpenIdBegin(h, xid, no)
      PROVE  ExpiryInv'
  BY <1>2, HandleExpiry, Zenon
<1>3. ASSUME NEW p \in Proc,
             \/ ReserveSkip(p) \/ ReserveTake(p) \/ ReserveDies(p)
             \/ CreateCommit(p) \/ CreateFails(p) \/ CreateInit(p)
             \/ CloseCommit(p) \/ CloseFails(p) \/ OpenKey(p) \/ OpenId(p)
             \/ \E k \in Key, ttl \in load.ttls, restore \in BOOLEAN :
                  UpdateBegin(p, k, ed_expiry_at(Epoch, ttl, now), restore)
             \/ UpdateCommit(p) \/ Crash(p)
      PROVE  ExpiryInv'
  BY <1>3, ProcExpiry, Zenon
<1>4. CASE \/ \E from \in {Oldest} \cup 0 .. idx.vno : ListOpen(from)
           \/ ListStart \/ ListNext \/ ListClose \/ Tick \/ UNCHANGED vars
  <2>1. slab' = slab /\ idx' = idx /\ proc' = proc /\ crashes' = crashes
    BY <1>4, Zenon DEF ListOpen, ListStart, ListNext, ListClose, Tick, vars
  <2> QED
    BY <2>1, Zenon DEF ExpiryInv
<1> QED
  BY <1>1, <1>2, <1>3, <1>4, Zenon DEF Next

=============================================================================
