----------------------------- MODULE CacheSteps -----------------------------
(***************************************************************************)
(* The invariant of the cache and its slab, as long as obj_reserve keeps   *)
(* its two positions in step, and that ed_create, ed_open and the end of a *)
(* process keep it.                                                        *)
(***************************************************************************)
EXTENDS Cache, TLAPS

(* fcntl locks do not separate the objects of one process. *)
Separate == \A g, h \in Handle : Owner[g] = Owner[h] => g = h

-----------------------------------------------------------------------------
(* The invariant. *)

(* Taken blocks, and those of an ed_create that has not committed. *)
Claims ==
  Taken \cup {[p |-> p, no |-> Slot(proc[p].vno), n |-> proc[p].n] :
                p \in {q \in Proc : proc[q].pc = "commit"}}

(* No range of R begins before v and ends behind it. *)
Between(v, B, R) ==
  /\ \A b \in B : ~Inside(v, b.no, b.count)
  /\ \A r \in R : ~Inside(v, r.no, r.n)

(* Index i matches slab s and has nothing in the ranges R. *)
Fits(i, s, R) ==
  /\ i \in Index /\ Matches(i, s) /\ OneEach(i)
  /\ Between(Slot(i.vno), i.blocks, R)
  /\ \A b \in i.blocks, r \in R : ~Overlap(b, r.no, r.no + r.n)

(* What slab s has of the object o that is being written. *)
HasPart(s, o) ==
  /\ s[o.no].hdr.key = o.key /\ s[o.no].hdr.val = o.val /\ s[o.no].hdr.count = o.count
  /\ Slot(o.vno) = o.no /\ o.seek <= o.count
  /\ \A b \in Span(o.no, o.seek) : s[b].val = o.val
  /\ o.seek = o.count => s[o.no].hdr.crc = o.val

ReserveCall == [pc : {"reserve"}, h : Handle, key : Key, n : 1 .. BlockCount, txn : Index,
                vno : Nat, no : Blk, start : Blk]

CommitCall == [pc : {"commit"}, h : Handle, key : Key, n : 1 .. BlockCount, vno : Nat, txn : Index]

InitCall == [pc : {"init"}, h : Handle, key : Key, n : 1 .. BlockCount, vno : Nat, txn : 0 .. MaxXid]

WriteObj == [open : {TRUE}, rdonly : {FALSE}, key : Key, vno : Nat, no : Blk,
             count : 1 .. BlockCount, val : 0 .. MaxXid, exp : Int, seek : Nat]

(* The calls that have no open object yet, and those with the write lock. *)
Opening == {"reserve", "commit", "init", "open", "openid"}

Changing == {"reserve", "commit", "closing", "update"}

(* The key entries of j lead where those of i do. *)
SameKeys(i, j) ==
  /\ \A e \in i.keys : \E f \in j.keys : f.key = e.key /\ f.vno = e.vno
  /\ \A f \in j.keys : \E e \in i.keys : f.key = e.key /\ f.vno = e.vno

(* Those of j also lead to the object of e. *)
Publishes(i, j, e) == j.keys = {f \in i.keys : f.key # e.key} \cup {e}

Call(p) ==
  /\ proc[p].pc = "reserve" => proc[p] \in ReserveCall
  /\ proc[p].pc = "commit" => proc[p] \in CommitCall
  /\ proc[p].pc = "init" => proc[p] \in InitCall
  /\ proc[p].pc \in Opening => proc[p].h \in Handle /\ Owner[proc[p].h] = p /\ ~obj[proc[p].h].open
  /\ proc[p].pc \in Changing => wlock = p

(* What a call is about to commit. *)
Pending(p) ==
  /\ proc[p].pc = "reserve" =>
       /\ proc[p].txn = idx /\ proc[p].start = proc[p].no /\ idx.xid < MaxXid
       /\ Between(proc[p].no, idx.blocks, Taken)
  /\ proc[p].pc \in {"commit", "closing", "update"} => Fits(proc[p].txn, slab, Claims)
  /\ proc[p].pc = "commit" => proc[p].txn.keys \subseteq idx.keys /\ idx.xid < MaxXid
  /\ proc[p].pc = "closing" => \E e \in proc[p].txn.keys : Publishes(idx, proc[p].txn, e)
  /\ proc[p].pc = "update" => SameKeys(idx, proc[p].txn)

(* Object h, if it is being written. *)
Object(h) ==
  obj[h].open /\ ~obj[h].rdonly => obj[h] \in WriteObj /\ HasPart(slab, obj[h])

(* What a process has to itself. *)
Mine(p) ==
  /\ Call(p) /\ Pending(p)
  /\ \A r \in Claims : r.p = p => /\ r.no + r.n <= BlockCount
                                  /\ \A b \in Span(r.no, r.n) : lck[p][b] = "ex"
  /\ \A h \in Handle : Owner[h] = p => Object(h)

Asked ==
  load.sizes \subseteq 1 .. BlockCount /\ load.ttls \subseteq Int /\ load.last \in 0 .. MaxXid

(* Record locks exclude each other. *)
Exclusive == \A p, q \in Proc, b \in Blk : p # q /\ lck[p][b] = "ex" => lck[q][b] = "un"

LockTable == [Proc -> [Blk -> {"un", "sh", "ex"}]]

Common ==
  /\ DOMAIN proc = Proc /\ DOMAIN obj = Handle /\ slab \in [Blk -> Block] /\ lck \in LockTable
  /\ now \in Int /\ Asked /\ Exclusive
  /\ Fits(idx, slab, Taken)

CacheInv == Common /\ \A p \in Proc : Mine(p)

-----------------------------------------------------------------------------
(* Indexes and slabs. *)

LEMMA SlotInBlk == ASSUME NEW v \in Nat PROVE Slot(v) \in Blk
BY BlockAssumption DEF Slot, Blk

(* Block b has the same object in both slabs, or the same part of one. *)
SameIn(s, t, b) ==
  /\ t[b].val = s[b].val /\ t[b].hdr.key = s[b].hdr.key /\ t[b].hdr.val = s[b].hdr.val
  /\ t[b].hdr.count = s[b].hdr.count /\ t[b].hdr.crc = s[b].hdr.crc

(* The fields of the entries. *)
LEMMA EntryTypes ==
  ASSUME NEW i \in Index
  PROVE  /\ i.vno \in Nat /\ Slot(i.vno) \in Blk
         /\ \A e \in i.keys : /\ e.key \in Key /\ e.vno \in Nat /\ e.count \in Nat \ {0}
                              /\ Slot(e.vno) \in Blk
         /\ \A b \in i.blocks : b.no \in Blk /\ b.count \in Nat \ {0}
BY SlotInBlk DEF Index

LEMMA OutsideSpan ==
  ASSUME NEW a \in Blk, NEW m \in Nat \ {0}, NEW b, b.no = a, b.count = m,
         NEW no \in Nat, NEW n \in Nat, ~Overlap(b, no, no + n)
  PROVE  a \in Span(a, m) /\ \A x \in Span(a, m) : x \in Blk \ Span(no, n)
BY BlockAssumption DEF Overlap, Span, Blk

LEMMA WholeSame ==
  ASSUME NEW s, NEW t, NEW a, Whole(s, a), SameIn(s, t, a),
         \A x \in Span(a, s[a].hdr.count) : SameIn(s, t, x)
  PROVE  Whole(t, a)
<1>1. /\ t[a].hdr.crc = s[a].hdr.crc /\ t[a].hdr.val = s[a].hdr.val /\ t[a].hdr.count = s[a].hdr.count
      /\ \A x \in Span(a, s[a].hdr.count) : t[x].val = s[x].val
  BY Zenon DEF SameIn
<1> QED
  BY <1>1, Zenon DEF Whole

(* A change of blocks that the index does not lead to. *)
LEMMA MatchesKept ==
  ASSUME NEW i \in Index, NEW s, NEW t, Matches(i, s), NEW no \in Nat, NEW n \in Nat,
         \A b \in Blk \ Span(no, n) : SameIn(s, t, b),
         \A b \in i.blocks : ~Overlap(b, no, no + n)
  PROVE  Matches(i, t)
<1>1. ASSUME NEW e \in i.keys
      PROVE  /\ t[Slot(e.vno)].hdr.key = e.key /\ t[Slot(e.vno)].hdr.count = e.count
             /\ Whole(t, Slot(e.vno))
             /\ \E b \in i.blocks : b.no = Slot(e.vno) /\ b.count = e.count
  <2>1. PICK a : a = Slot(e.vno)
    BY Zenon
  <2>2. /\ s[a].hdr.key = e.key /\ s[a].hdr.count = e.count /\ Whole(s, a)
        /\ \E b \in i.blocks : b.no = a /\ b.count = e.count
    BY <2>1, Zenon DEF Matches
  <2>3. PICK b \in i.blocks : b.no = a /\ b.count = e.count
    BY <2>2, Zenon
  <2>4. a \in Blk /\ e.count \in Nat \ {0}
    BY <2>1, EntryTypes, Zenon
  <2>5. a \in Span(a, e.count) /\ \A x \in Span(a, e.count) : x \in Blk \ Span(no, n)
    BY <2>3, <2>4, OutsideSpan, Zenon
  <2>6. \A x \in Span(a, e.count) : SameIn(s, t, x)
    BY <2>5, Zenon
  <2>7. t[a].hdr.key = e.key /\ t[a].hdr.count = e.count
    BY <2>2, <2>5, <2>6, Zenon DEF SameIn
  <2>8. Whole(t, a)
    BY <2>2, <2>5, <2>6, WholeSame, Zenon
  <2> QED
    BY <2>1, <2>2, <2>7, <2>8, Zenon
<1> QED
  BY <1>1, Zenon DEF Matches

LEMMA MatchesSame ==
  ASSUME NEW i \in Index, NEW s, NEW t, Matches(i, s), \A b \in Blk : SameIn(s, t, b)
  PROVE  Matches(i, t)
<1>1. ASSUME NEW e \in i.keys
      PROVE  /\ t[Slot(e.vno)].hdr.key = e.key /\ t[Slot(e.vno)].hdr.count = e.count
             /\ Whole(t, Slot(e.vno))
             /\ \E b \in i.blocks : b.no = Slot(e.vno) /\ b.count = e.count
  <2>1. PICK a : a = Slot(e.vno)
    BY Zenon
  <2>2. /\ s[a].hdr.key = e.key /\ s[a].hdr.count = e.count /\ Whole(s, a)
        /\ \E b \in i.blocks : b.no = a /\ b.count = e.count
    BY <2>1, Zenon DEF Matches
  <2>3. SameIn(s, t, a)
    BY <2>1, EntryTypes, Zenon
  <2>4. \A x \in Span(a, e.count) : SameIn(s, t, x)
    BY Zenon DEF Span
  <2>5. Whole(t, a)
    BY <2>2, <2>3, <2>4, WholeSame, Zenon
  <2> QED
    BY <2>1, <2>2, <2>3, <2>5, Zenon DEF SameIn
<1> QED
  BY <1>1, Zenon DEF Matches

(* Fewer ranges are in the way. *)
LEMMA FitsFewer ==
  ASSUME NEW i, NEW s, NEW R, NEW Q, Fits(i, s, R), Q \subseteq R
  PROVE  Fits(i, s, Q)
BY Zenon DEF Fits, Between

(* A change inside one of the ranges. *)
LEMMA FitsKept ==
  ASSUME NEW i, NEW s, NEW t, NEW R, Fits(i, s, R), NEW r \in R, r.no \in Nat, r.n \in Nat,
         \A b \in Blk \ Span(r.no, r.n) : SameIn(s, t, b)
  PROVE  Fits(i, t, R)
BY MatchesKept, Zenon DEF Fits

LEMMA FitsSame ==
  ASSUME NEW i, NEW s, NEW t, NEW R, Fits(i, s, R), \A b \in Blk : SameIn(s, t, b)
  PROVE  Fits(i, t, R)
BY MatchesSame, Zenon DEF Fits

LEMMA HasPartKept ==
  ASSUME NEW o \in WriteObj, NEW s, NEW t, HasPart(s, o),
         \A b \in Span(o.no, o.count) : SameIn(s, t, b)
  PROVE  HasPart(t, o)
<1>1. o.no \in Span(o.no, o.count) /\ (o.seek <= o.count => Span(o.no, o.seek) \subseteq Span(o.no, o.count))
  BY BlockAssumption DEF WriteObj, Span, Blk
<1> QED
  BY <1>1, Zenon DEF HasPart, SameIn

(* Two ranges inside the slab that have no block in common. *)
LEMMA ApartSpans ==
  ASSUME NEW no \in Blk, NEW n \in 1 .. BlockCount, NEW m \in Blk, NEW k \in 1 .. BlockCount,
         no + n <= BlockCount, m + k <= BlockCount, Span(no, n) \cap Span(m, k) = {}
  PROVE  no + n <= m \/ m + k <= no
<1>1. no \in Span(no, n) /\ m \in Span(m, k)
  BY BlockAssumption DEF Span, Blk
<1>2. no \notin Span(m, k) /\ m \notin Span(no, n)
  BY <1>1, Zenon
<1> QED
  BY <1>2, BlockAssumption DEF Span, Blk

(* The ranges of R leave n blocks at no alone. *)
Apart(R, no, n) ==
  \A q \in R : /\ q.no \in Blk /\ q.n \in 1 .. BlockCount /\ q.no + q.n <= BlockCount
               /\ Span(q.no, q.n) \cap Span(no, n) = {}

-----------------------------------------------------------------------------
(* Steps of one process. *)

(* A step of p changes what p has. *)
Frame(p) ==
  /\ DOMAIN proc' = Proc /\ DOMAIN obj' = Handle
  /\ \A q \in Proc \ {p} : proc'[q] = proc[q] /\ lck'[q] = lck[q]
  /\ \A h \in Handle : Owner[h] # p => obj'[h] = obj[h]
  /\ load' = load /\ now' = now

(* It writes into what it has taken only, and changes the index and takes
   blocks with the write lock only. *)
Guarded(p) ==
  /\ wlock' = wlock \/ wlock \in {p, NoProc}
  /\ wlock = p \/ (idx' = idx /\ Taken' \subseteq Taken /\ Claims' \subseteq Claims)
  /\ \A b \in Blk : SameIn(slab, slab', b) \/ \E r \in Taken : r.p = p /\ b \in Span(r.no, r.n)

LEMMA TakenIs ==
  ASSUME NEW r
  PROVE  r \in Taken <=>
           \/ \E h \in Handle : /\ obj[h].open /\ ~obj[h].rdonly
                                /\ r = [p |-> Owner[h], no |-> obj[h].no, n |-> obj[h].count]
           \/ \E q \in Proc : proc[q].pc = "init" /\ r = [p |-> q, no |-> Slot(proc[q].vno), n |-> proc[q].n]
BY Zenon DEF Taken

LEMMA ClaimsIs ==
  ASSUME NEW r
  PROVE  r \in Claims <=>
           \/ r \in Taken
           \/ \E q \in Proc : proc[q].pc = "commit" /\ r = [p |-> q, no |-> Slot(proc[q].vno), n |-> proc[q].n]
BY Zenon DEF Claims

LEMMA TakenIsNext ==
  ASSUME NEW r
  PROVE  r \in Taken' <=>
           \/ \E h \in Handle : /\ obj'[h].open /\ ~obj'[h].rdonly
                                /\ r = [p |-> Owner[h], no |-> obj'[h].no, n |-> obj'[h].count]
           \/ \E q \in Proc : proc'[q].pc = "init" /\ r = [p |-> q, no |-> Slot(proc'[q].vno), n |-> proc'[q].n]
BY Zenon DEF Taken

LEMMA ClaimsIsNext ==
  ASSUME NEW r
  PROVE  r \in Claims' <=>
           \/ r \in Taken'
           \/ \E q \in Proc : proc'[q].pc = "commit" /\ r = [p |-> q, no |-> Slot(proc'[q].vno), n |-> proc'[q].n]
BY Zenon DEF Claims

(* Claims are ranges inside the slab, locked by their process. *)
LEMMA ClaimTypes ==
  ASSUME CacheInv, NEW r \in Claims
  PROVE  /\ r.p \in Proc /\ r.no \in Blk /\ r.n \in 1 .. BlockCount
         /\ r.no + r.n <= BlockCount /\ \A b \in Span(r.no, r.n) : lck[r.p][b] = "ex"
<1>1. r.p \in Proc /\ r.no \in Blk /\ r.n \in 1 .. BlockCount
  <2>1. CASE \E h \in Handle : /\ obj[h].open /\ ~obj[h].rdonly
                               /\ r = [p |-> Owner[h], no |-> obj[h].no, n |-> obj[h].count]
    <3>1. PICK h \in Handle : /\ obj[h].open /\ ~obj[h].rdonly
                              /\ r = [p |-> Owner[h], no |-> obj[h].no, n |-> obj[h].count]
      BY <2>1, Zenon
    <3>2. Owner[h] \in Proc
      BY BlockAssumption, Zenon
    <3>3. obj[h] \in WriteObj
      BY <3>1, <3>2, Zenon DEF CacheInv, Mine, Object
    <3> QED
      BY <3>1, <3>2, <3>3, Zenon DEF WriteObj
  <2>2. CASE \E q \in Proc : /\ proc[q].pc \in {"commit", "init"}
                             /\ r = [p |-> q, no |-> Slot(proc[q].vno), n |-> proc[q].n]
    <3>1. PICK q \in Proc : /\ proc[q].pc \in {"commit", "init"}
                            /\ r = [p |-> q, no |-> Slot(proc[q].vno), n |-> proc[q].n]
      BY <2>2, Zenon
    <3>2. proc[q] \in CommitCall \cup InitCall
      BY <3>1, Zenon DEF CacheInv, Mine, Call
    <3>3. proc[q].vno \in Nat /\ proc[q].n \in 1 .. BlockCount
      BY <3>2 DEF CommitCall, InitCall
    <3>4. Slot(proc[q].vno) \in Blk
      BY <3>3, SlotInBlk, Zenon
    <3> QED
      BY <3>1, <3>3, <3>4
  <2> QED
    BY <2>1, <2>2, TakenIs, ClaimsIs, Zenon
<1> QED
  BY <1>1, Zenon DEF CacheInv, Mine

(* A process has one claim at a time. *)
LEMMA OneClaim ==
  ASSUME Separate, CacheInv, NEW r \in Claims, NEW s \in Claims, r.p = s.p
  PROVE  r = s
<1> DEFINE W(h, x) == /\ obj[h].open /\ ~obj[h].rdonly
                      /\ x = [p |-> Owner[h], no |-> obj[h].no, n |-> obj[h].count]
           C(q, x) == /\ proc[q].pc \in {"commit", "init"}
                      /\ x = [p |-> q, no |-> Slot(proc[q].vno), n |-> proc[q].n]
<1>1. ASSUME NEW x \in Claims
      PROVE (\E h \in Handle : W(h, x) /\ x.p = Owner[h]) \/ (\E q \in Proc : C(q, x) /\ x.p = q)
  <2>1. (\E h \in Handle : W(h, x)) \/ (\E q \in Proc : C(q, x))
    BY TakenIs, ClaimsIs, Zenon
  <2> QED
    BY <2>1
<1>2. ASSUME NEW x \in Claims, NEW y \in Claims, x.p = y.p, NEW h \in Handle, W(h, x),
             x.p = Owner[h], NEW q \in Proc, C(q, y), y.p = q
      PROVE  FALSE
  <2>1. proc[q].h \in Handle /\ Owner[proc[q].h] = q /\ ~obj[proc[q].h].open
    BY <1>2, Zenon DEF CacheInv, Mine, Call, Opening
  <2>2. proc[q].h = h
    BY <1>2, <2>1, Zenon DEF Separate
  <2> QED
    BY <1>2, <2>1, <2>2, Zenon
<1>3. CASE (\E h \in Handle : W(h, r) /\ r.p = Owner[h]) /\ (\E h \in Handle : W(h, s) /\ s.p = Owner[h])
  BY <1>3, Zenon DEF Separate
<1>4. CASE (\E q \in Proc : C(q, r) /\ r.p = q) /\ (\E q \in Proc : C(q, s) /\ s.p = q)
  BY <1>4, Zenon
<1> QED
  BY <1>1, <1>2, <1>3, <1>4, Zenon

LEMMA ClaimsApart ==
  ASSUME Separate, CacheInv, NEW r \in Claims, NEW s \in Claims, r # s
  PROVE  Span(r.no, r.n) \cap Span(s.no, s.n) = {}
<1>1. r.p # s.p /\ r.p \in Proc /\ s.p \in Proc
  BY OneClaim, ClaimTypes, Zenon
<1>2. ASSUME NEW b \in Span(r.no, r.n), b \in Span(s.no, s.n) PROVE FALSE
  <2>1. lck[r.p][b] = "ex" /\ lck[s.p][b] = "ex" /\ b \in Blk
    BY <1>2, ClaimTypes, Zenon DEF Span
  <2>2. lck[s.p][b] = "un"
    BY <1>1, <2>1, Zenon DEF CacheInv, Common, Exclusive
  <2> QED
    BY <2>1, <2>2, Zenon
<1> QED
  BY <1>2, Zenon

LEMMA SameClaims ==
  ASSUME NEW p, Frame(p), NEW r, r.p # p
  PROVE  (r \in Taken' <=> r \in Taken) /\ (r \in Claims' <=> r \in Claims)
<1>1. ASSUME NEW q, q # p, q \in Proc PROVE proc'[q] = proc[q]
  BY <1>1, Zenon DEF Frame
<1>2. ASSUME NEW h \in Handle, Owner[h] # p PROVE obj'[h] = obj[h]
  BY <1>2, Zenon DEF Frame
<1>3. \A q, a, b : r = [p |-> q, no |-> a, n |-> b] => q # p
  OBVIOUS
<1>4. r \in Taken' <=> r \in Taken
  <2>1. (\E h \in Handle : /\ obj'[h].open /\ ~obj'[h].rdonly
                           /\ r = [p |-> Owner[h], no |-> obj'[h].no, n |-> obj'[h].count])
        <=> (\E h \in Handle : /\ obj[h].open /\ ~obj[h].rdonly
                               /\ r = [p |-> Owner[h], no |-> obj[h].no, n |-> obj[h].count])
    BY <1>2, <1>3, Zenon
  <2>2. (\E q \in Proc : proc'[q].pc = "init" /\ r = [p |-> q, no |-> Slot(proc'[q].vno), n |-> proc'[q].n])
        <=> (\E q \in Proc : proc[q].pc = "init" /\ r = [p |-> q, no |-> Slot(proc[q].vno), n |-> proc[q].n])
    BY <1>1, <1>3, Zenon
  <2> QED
    BY <2>1, <2>2, TakenIs, TakenIsNext, Zenon
<1>5. (\E q \in Proc : proc'[q].pc = "commit" /\ r = [p |-> q, no |-> Slot(proc'[q].vno), n |-> proc'[q].n])
      <=> (\E q \in Proc : proc[q].pc = "commit" /\ r = [p |-> q, no |-> Slot(proc[q].vno), n |-> proc[q].n])
  BY <1>1, <1>3, Zenon
<1> QED
  BY <1>4, <1>5, ClaimsIs, ClaimsIsNext, Zenon

(* The slab changes within one range, or not at all. *)
LEMMA SlabChange ==
  ASSUME Separate, CacheInv, NEW p, Guarded(p)
  PROVE  \/ \A b \in Blk : SameIn(slab, slab', b)
         \/ \E r \in Taken : r.p = p /\ \A b \in Blk \ Span(r.no, r.n) : SameIn(slab, slab', b)
<1>1. Taken \subseteq Claims
  BY ClaimsIs, Zenon
<1>2. CASE \E r \in Taken : r.p = p
  <2>1. PICK r \in Taken : r.p = p
    BY <1>2, Zenon
  <2>2. \A s \in Taken : s.p = p => s = r
    BY <1>1, <2>1, OneClaim, Zenon
  <2> QED
    BY <2>1, <2>2, Zenon DEF Guarded
<1>3. CASE ~\E r \in Taken : r.p = p
  BY <1>3, Zenon DEF Guarded
<1> QED
  BY <1>2, <1>3, Zenon

(* An index that fitted still does. *)
LEMMA FitsStep ==
  ASSUME Separate, CacheInv, NEW p, Guarded(p), NEW i, NEW R, NEW Q, Fits(i, slab, R),
         Taken \subseteq R, Q \subseteq R
  PROVE  Fits(i, slab', Q)
<1>1. CASE \A b \in Blk : SameIn(slab, slab', b)
  BY <1>1, FitsSame, FitsFewer, Zenon
<1>2. ASSUME NEW r \in Taken, \A b \in Blk \ Span(r.no, r.n) : SameIn(slab, slab', b)
      PROVE  Fits(i, slab', Q)
  <2>1. r \in R /\ r \in Claims
    BY ClaimsIs, Zenon
  <2>2. r.no \in Blk /\ r.n \in 1 .. BlockCount
    BY <2>1, ClaimTypes, Zenon
  <2>3. r.no \in Nat /\ r.n \in Nat
    BY <2>2, BlockAssumption DEF Blk
  <2>4. Fits(i, slab', R)
    BY <1>2, <2>1, <2>3, FitsKept, Zenon
  <2> QED
    BY <2>4, FitsFewer, Zenon
<1> QED
  BY <1>1, <1>2, SlabChange, Zenon

(* What another process has is left alone. *)
LEMMA OthersKept ==
  ASSUME Separate, CacheInv, NEW p \in Proc, Frame(p), Guarded(p), NEW q \in Proc, q # p
  PROVE  Mine(q)'
<1>1. Mine(q) /\ proc'[q] = proc[q] /\ lck'[q] = lck[q]
  BY Zenon DEF CacheInv, Frame
<1>2. \A h \in Handle : Owner[h] = q => obj'[h] = obj[h]
  BY Zenon DEF Frame
<1>3. ASSUME proc[q].pc \in Changing
      PROVE  /\ wlock = q /\ wlock' = q /\ idx' = idx
             /\ Taken' \subseteq Taken /\ Claims' \subseteq Claims
  <2>1. wlock = q
    BY <1>1, <1>3, Zenon DEF Mine, Call
  <2>2. wlock # p /\ wlock # NoProc
    BY <2>1, LoadAssumption, Zenon
  <2> QED
    BY <2>1, <2>2, Zenon DEF Guarded
<1>4. Call(q)'
  <2>1. Call(q)
    BY <1>1, Zenon DEF Mine
  <2> QED
    BY <1>1, <1>2, <1>3, <2>1, Zenon DEF Call
<1>5. Pending(q)'
  <2>1. CASE proc[q].pc \notin Changing
    BY <1>1, <2>1, Zenon DEF Pending, Changing
  <2>2. CASE proc[q].pc = "reserve"
    <3>1. /\ idx' = idx /\ Taken' \subseteq Taken
          /\ proc[q].txn = idx /\ proc[q].start = proc[q].no /\ idx.xid < MaxXid
          /\ Between(proc[q].no, idx.blocks, Taken)
      BY <1>1, <1>3, <2>2, Zenon DEF Mine, Pending, Changing
    <3>2. Between(proc'[q].no, idx'.blocks, Taken')
      BY <1>1, <3>1, Zenon DEF Between
    <3> QED
      BY <1>1, <2>2, <3>1, <3>2, Zenon DEF Pending
  <2>3. CASE proc[q].pc \in {"commit", "closing", "update"}
    <3>1. /\ idx' = idx /\ Claims' \subseteq Claims /\ Taken \subseteq Claims
          /\ Fits(proc[q].txn, slab, Claims)
      BY <1>1, <1>3, <2>3, ClaimsIs, Zenon DEF Mine, Pending, Changing
    <3>2. PICK R, Q : R = Claims /\ Q = Claims'
      BY Zenon
    <3>3. Fits(proc[q].txn, slab', Q)
      BY <3>1, <3>2, FitsStep, Zenon
    <3>4. Fits(proc'[q].txn, slab', Claims')
      BY <1>1, <3>2, <3>3, Zenon
    <3>5. /\ proc[q].pc = "commit" => proc[q].txn.keys \subseteq idx.keys /\ idx.xid < MaxXid
          /\ proc[q].pc = "closing" => \E e \in proc[q].txn.keys : Publishes(idx, proc[q].txn, e)
          /\ proc[q].pc = "update" => SameKeys(idx, proc[q].txn)
      BY <1>1, Zenon DEF Mine, Pending
    <3> QED
      BY <1>1, <2>3, <3>1, <3>4, <3>5, Zenon DEF Pending
  <2> QED
    BY <2>1, <2>2, <2>3, Zenon DEF Changing
<1>6. ASSUME NEW r \in Claims', r.p = q
      PROVE  r.no + r.n <= BlockCount /\ \A b \in Span(r.no, r.n) : lck'[q][b] = "ex"
  <2>1. r \in Claims
    BY <1>6, SameClaims, Zenon
  <2> QED
    BY <1>1, <1>6, <2>1, Zenon DEF Mine
<1>7. ASSUME NEW h \in Handle, Owner[h] = q PROVE Object(h)'
  <2>1. Object(h) /\ obj'[h] = obj[h]
    BY <1>1, <1>2, <1>7, Zenon DEF Mine
  <2>2. SUFFICES ASSUME obj[h].open, ~obj[h].rdonly PROVE HasPart(slab', obj[h])
    BY <2>1, Zenon DEF Object
  <2>3. obj[h] \in WriteObj /\ HasPart(slab, obj[h])
    BY <2>1, <2>2, Zenon DEF Object
  <2>4. PICK s : s = [p |-> Owner[h], no |-> obj[h].no, n |-> obj[h].count]
    BY Zenon
  <2>5. s \in Claims /\ s.p = q /\ s.no = obj[h].no /\ s.n = obj[h].count
    BY <1>7, <2>2, <2>4, TakenIs, ClaimsIs, Zenon
  <2>6. ASSUME NEW b \in Span(obj[h].no, obj[h].count) PROVE SameIn(slab, slab', b)
    <3>1. ASSUME NEW r \in Taken, r.p = p, b \in Span(r.no, r.n) PROVE FALSE
      <4>1. r \in Claims /\ r # s
        BY <2>5, <3>1, ClaimsIs, Zenon
      <4>2. Span(r.no, r.n) \cap Span(s.no, s.n) = {}
        BY <2>5, <4>1, ClaimsApart, Zenon
      <4> QED
        BY <2>5, <2>6, <3>1, <4>2, Zenon
    <3>2. b \in Blk
      BY Zenon DEF Span
    <3> QED
      BY <3>1, <3>2, Zenon DEF Guarded
  <2> QED
    BY <2>3, <2>6, HasPartKept, Zenon
<1> QED
  BY <1>4, <1>5, <1>6, <1>7, Zenon DEF Mine

-----------------------------------------------------------------------------
(* What is left to show of a step. *)

(* The lock table is in order, and others have the locks they had. *)
LocksOf(p) == lck' \in LockTable /\ Exclusive' /\ \A q \in Proc : q # p => lck'[q] = lck[q]

LEMMA Relocked ==
  ASSUME CacheInv, NEW p \in Proc, NEW type \in {"un", "sh", "ex"}, NEW S,
         type = "un" \/ CanLock(p, type, S), lck' = Locked(p, type, S)
  PROVE  LocksOf(p) /\ \A b \in Blk : b \in S => lck'[p][b] = type
<1>1. lck \in LockTable /\ Exclusive
  BY Zenon DEF CacheInv, Common
<1>2. /\ \A q \in Proc : q # p => lck'[q] = lck[q]
      /\ \A b \in Blk : lck'[p][b] = IF b \in S THEN type ELSE lck[p][b]
      /\ lck' \in LockTable
  BY <1>1 DEF Locked, LockTable
<1>3. ASSUME NEW q \in Proc, NEW r \in Proc, NEW b \in Blk, q # r, lck'[q][b] = "ex"
      PROVE  lck'[r][b] = "un"
  <2>1. CASE q # p /\ r # p
    <3>1. lck'[q] = lck[q] /\ lck'[r] = lck[r]
      BY <1>2, <1>3, <2>1, Zenon
    <3> QED
      BY <1>1, <1>3, <3>1, Zenon DEF Exclusive
  <2>2. CASE r = p
    <3>1. lck[q][b] = "ex"
      BY <1>2, <1>3, <2>2, Zenon
    <3>2. lck[p][b] = "un"
      BY <1>1, <1>3, <2>2, <3>1, Zenon DEF Exclusive
    <3>3. b \in S => type = "un"
      BY <1>3, <2>2, <3>1, Zenon DEF CanLock
    <3> QED
      BY <1>2, <2>2, <3>2, <3>3, Zenon
  <2>3. CASE q = p
    <3>1. lck'[r][b] = lck[r][b]
      BY <1>2, <1>3, <2>3, Zenon
    <3>2. CASE b \in S
      <4>1. type = "ex"
        BY <1>2, <1>3, <2>3, <3>2, Zenon
      <4> QED
        BY <1>3, <2>3, <3>1, <3>2, <4>1, Zenon DEF CanLock
    <3>3. CASE b \notin S
      <4>1. lck[p][b] = "ex"
        BY <1>2, <1>3, <2>3, <3>3, Zenon
      <4> QED
        BY <1>1, <1>3, <2>3, <3>1, <4>1, Zenon DEF Exclusive
    <3> QED
      BY <3>2, <3>3, Zenon
  <2> QED
    BY <2>1, <2>2, <2>3, Zenon
<1>4. Exclusive'
  BY <1>3, Zenon DEF Exclusive
<1> QED
  BY <1>2, <1>4, Zenon DEF LocksOf

LEMMA Released ==
  ASSUME CacheInv, NEW p \in Proc, NEW S, lck' = Locked(p, "un", S)
  PROVE  LocksOf(p)
<1>1. "un" \in {"un", "sh", "ex"}
  BY Zenon
<1> QED
  BY <1>1, Relocked, Zenon

LEMMA Shared ==
  ASSUME CacheInv, NEW p \in Proc, NEW S, CanLock(p, "sh", S), lck' = Locked(p, "sh", S)
  PROVE  LocksOf(p)
<1>1. "sh" \in {"un", "sh", "ex"}
  BY Zenon
<1> QED
  BY <1>1, Relocked, Zenon

LEMMA NoNewTaken ==
  ASSUME NEW p \in Proc, Frame(p), proc'[p].pc # "init",
         \A h \in Handle : Owner[h] = p /\ obj'[h].open /\ ~obj'[h].rdonly =>
           /\ obj[h].open /\ ~obj[h].rdonly
           /\ obj'[h].no = obj[h].no /\ obj'[h].count = obj[h].count
  PROVE  Taken' \subseteq Taken
<1>1. \A q \in Proc : q # p => proc'[q] = proc[q]
  BY Zenon DEF Frame
<1>2. \A h \in Handle : Owner[h] # p => obj'[h] = obj[h]
  BY Zenon DEF Frame
<1>3. ASSUME NEW r \in Taken' PROVE r \in Taken
  <2>1. CASE \E h \in Handle : /\ obj'[h].open /\ ~obj'[h].rdonly
                               /\ r = [p |-> Owner[h], no |-> obj'[h].no, n |-> obj'[h].count]
    <3>1. PICK h \in Handle : /\ obj'[h].open /\ ~obj'[h].rdonly
                              /\ r = [p |-> Owner[h], no |-> obj'[h].no, n |-> obj'[h].count]
      BY <2>1, Zenon
    <3>2. /\ obj[h].open /\ ~obj[h].rdonly
          /\ obj'[h].no = obj[h].no /\ obj'[h].count = obj[h].count
      BY <1>2, <3>1, Zenon
    <3> QED
      BY <3>1, <3>2, TakenIs, Zenon
  <2>2. CASE \E q \in Proc : proc'[q].pc = "init" /\ r = [p |-> q, no |-> Slot(proc'[q].vno), n |-> proc'[q].n]
    <3>1. PICK q \in Proc : proc'[q].pc = "init" /\ r = [p |-> q, no |-> Slot(proc'[q].vno), n |-> proc'[q].n]
      BY <2>2, Zenon
    <3>2. proc'[q] = proc[q]
      BY <1>1, <3>1, Zenon
    <3> QED
      BY <3>1, <3>2, TakenIs, Zenon
  <2> QED
    BY <2>1, <2>2, TakenIsNext, Zenon
<1> QED
  BY <1>3, Zenon

LEMMA NoNewClaims ==
  ASSUME NEW p \in Proc, Frame(p), proc'[p].pc \notin {"commit", "init"},
         \A h \in Handle : Owner[h] = p /\ obj'[h].open /\ ~obj'[h].rdonly =>
           /\ obj[h].open /\ ~obj[h].rdonly
           /\ obj'[h].no = obj[h].no /\ obj'[h].count = obj[h].count
  PROVE  Taken' \subseteq Taken /\ Claims' \subseteq Claims
<1>1. \A q \in Proc : q # p => proc'[q] = proc[q]
  BY Zenon DEF Frame
<1>3. ASSUME NEW r \in Taken' PROVE r \in Taken
  <2>1. Taken' \subseteq Taken
    BY NoNewTaken, Zenon
  <2> QED
    BY <1>3, <2>1, Zenon
<1>4. ASSUME NEW r \in Claims' PROVE r \in Claims
  <2>1. CASE \E q \in Proc : proc'[q].pc = "commit" /\ r = [p |-> q, no |-> Slot(proc'[q].vno), n |-> proc'[q].n]
    <3>1. PICK q \in Proc : proc'[q].pc = "commit" /\ r = [p |-> q, no |-> Slot(proc'[q].vno), n |-> proc'[q].n]
      BY <2>1, Zenon
    <3>2. proc'[q] = proc[q]
      BY <1>1, <3>1, Zenon
    <3> QED
      BY <3>1, <3>2, ClaimsIs, Zenon
  <2> QED
    BY <1>3, <2>1, ClaimsIs, ClaimsIsNext, Zenon
<1> QED
  BY <1>3, <1>4, Zenon

LEMMA NoClaims ==
  ASSUME NEW p \in Proc, proc'[p].pc \notin {"commit", "init"},
         \A h \in Handle : Owner[h] = p => ~(obj'[h].open /\ ~obj'[h].rdonly),
         NEW r \in Claims'
  PROVE  r.p # p
<1>1. CASE \E h \in Handle : /\ obj'[h].open /\ ~obj'[h].rdonly
                             /\ r = [p |-> Owner[h], no |-> obj'[h].no, n |-> obj'[h].count]
  <2>1. PICK h \in Handle : /\ obj'[h].open /\ ~obj'[h].rdonly
                            /\ r = [p |-> Owner[h], no |-> obj'[h].no, n |-> obj'[h].count]
    BY <1>1, Zenon
  <2>2. r.p = Owner[h]
    BY <2>1
  <2> QED
    BY <2>1, <2>2, Zenon
<1>2. CASE \E q \in Proc : /\ proc'[q].pc \in {"commit", "init"}
                           /\ r = [p |-> q, no |-> Slot(proc'[q].vno), n |-> proc'[q].n]
  <2>1. PICK q \in Proc : /\ proc'[q].pc \in {"commit", "init"}
                          /\ r = [p |-> q, no |-> Slot(proc'[q].vno), n |-> proc'[q].n]
    BY <1>2, Zenon
  <2>2. r.p = q
    BY <2>1
  <2> QED
    BY <2>1, <2>2, Zenon
<1>3. CASE r \in Taken'
  BY <1>1, <1>2, <1>3, TakenIsNext, Zenon
<1> QED
  BY <1>2, <1>3, ClaimsIsNext, Zenon

(* After a step: the objects that the index led to have the data they had. *)
Kept ==
  CacheInv' /\ \A e \in idx.keys : slab'[Slot(e.vno)].hdr.val = slab[Slot(e.vno)].hdr.val

(* A step of p, up to what p itself has. *)
LEMMA StepOf ==
  ASSUME Separate, CacheInv, NEW p \in Proc, Frame(p), Guarded(p),
         slab' \in [Blk -> Block], LocksOf(p),
         Fits(idx', slab', Taken') \/ (idx' = idx /\ Taken' \subseteq Taken), Mine(p)'
  PROVE  Kept
<1>1. Common
  BY Zenon DEF CacheInv
<1>2. Fits(idx', slab', Taken')
  <2>1. CASE idx' = idx /\ Taken' \subseteq Taken
    <3>1. Fits(idx, slab, Taken)
      BY <1>1, Zenon DEF Common
    <3>2. PICK R, Q : R = Taken /\ Q = Taken'
      BY Zenon
    <3>3. Fits(idx, slab', Q)
      BY <2>1, <3>1, <3>2, FitsStep, Zenon
    <3> QED
      BY <2>1, <3>2, <3>3, Zenon
  <2> QED
    BY <2>1, Zenon
<1>3. Common'
  <2>1. DOMAIN proc' = Proc /\ DOMAIN obj' = Handle /\ load' = load /\ now' = now
    BY Zenon DEF Frame
  <2>2. Asked' /\ now' \in Int
    BY <1>1, <2>1, Zenon DEF Common, Asked
  <2> QED
    BY <1>2, <2>1, <2>2, Zenon DEF Common, LocksOf
<1>4. \A q \in Proc : Mine(q)'
  BY OthersKept, Zenon
<1>5. ASSUME NEW e \in idx.keys PROVE slab'[Slot(e.vno)].hdr.val = slab[Slot(e.vno)].hdr.val
  <2>1. PICK a : a = Slot(e.vno)
    BY Zenon
  <2>2. idx \in Index /\ Matches(idx, slab) /\ \A b \in idx.blocks, r \in Taken : ~Overlap(b, r.no, r.no + r.n)
    BY <1>1, Zenon DEF Common, Fits
  <2>3. PICK b \in idx.blocks : b.no = a
    BY <1>5, <2>1, <2>2, Zenon DEF Matches
  <2>4. a \in Blk /\ b.count \in Nat \ {0}
    BY <2>2, <2>3, EntryTypes, Zenon
  <2>5. ASSUME NEW r \in Taken, a \in Span(r.no, r.n) PROVE FALSE
    <3>1. r.no \in Blk /\ r.n \in 1 .. BlockCount
      BY <2>5, ClaimsIs, ClaimTypes, Zenon
    <3>2. ~Overlap(b, r.no, r.no + r.n)
      BY <2>2, <2>3, <2>5, Zenon
    <3> QED
      BY <2>3, <2>4, <2>5, <3>1, <3>2, BlockAssumption DEF Overlap, Span, Blk
  <2>6. SameIn(slab, slab', a)
    BY <2>4, <2>5, Zenon DEF Guarded
  <2> QED
    BY <2>1, <2>6, Zenon DEF SameIn
<1>6. CacheInv'
  BY <1>3, <1>4, Zenon DEF CacheInv
<1> QED
  BY <1>5, <1>6, Zenon DEF Kept

(* A step that leaves index and slab alone and gets p no further. *)
LEMMA LightStep ==
  ASSUME Separate, CacheInv, NEW p \in Proc, Frame(p), slab' = slab, idx' = idx,
         wlock' = wlock \/ wlock \in {p, NoProc}, LocksOf(p),
         proc'[p].pc \notin Changing \cup {"init"},
         proc'[p].pc \in Opening =>
           proc'[p].h \in Handle /\ Owner[proc'[p].h] = p /\ ~obj'[proc'[p].h].open,
         \A h \in Handle : Owner[h] = p =>
           obj'[h] = obj[h] \/ ~(obj'[h].open /\ ~obj'[h].rdonly),
         \/ lck'[p] = lck[p]
         \/ \A h \in Handle : Owner[h] = p => ~(obj'[h].open /\ ~obj'[h].rdonly)
  PROVE  Kept
<1>1. proc'[p].pc \notin {"reserve", "commit", "closing", "update", "init"}
  BY Zenon DEF Changing
<1>2. Taken' \subseteq Taken /\ Claims' \subseteq Claims
  BY <1>1, NoNewClaims, Zenon
<1>3. Guarded(p)
  BY <1>2, Zenon DEF Guarded, SameIn
<1>4. Mine(p) /\ slab \in [Blk -> Block]
  BY Zenon DEF CacheInv, Common
<1>5. Call(p)' /\ Pending(p)'
  BY <1>1, Zenon DEF Call, Pending, Changing
<1>6. ASSUME NEW r \in Claims', r.p = p
      PROVE  r.no + r.n <= BlockCount /\ \A b \in Span(r.no, r.n) : lck'[p][b] = "ex"
  <2>1. lck'[p] = lck[p]
    BY <1>1, <1>6, NoClaims, Zenon
  <2> QED
    BY <1>2, <1>4, <1>6, <2>1, Zenon DEF Mine
<1>7. ASSUME NEW h \in Handle, Owner[h] = p PROVE Object(h)'
  BY <1>4, <1>7, Zenon DEF Mine, Object
<1>8. Mine(p)'
  BY <1>5, <1>6, <1>7, Zenon DEF Mine
<1> QED
  BY <1>2, <1>3, <1>4, <1>8, StepOf, Zenon

LEMMA LocksKept ==
  ASSUME CacheInv, lck' = lck, NEW p
  PROVE  LocksOf(p)
<1>1. lck \in LockTable /\ Exclusive
  BY Zenon DEF CacheInv, Common
<1> QED
  BY <1>1 DEF Exclusive, LocksOf

LEMMA IdleIs == Idle.pc = "idle" /\ ~NoObj.open
BY DEF Idle, NoObj

LEMMA OwnerIn == ASSUME NEW h \in Handle PROVE Owner[h] \in Proc
BY BlockAssumption, Zenon

(* Steps of proc and obj. *)
LEMMA GoIs ==
  ASSUME CacheInv, NEW p \in Proc, NEW c, Go(p, c)
  PROVE  DOMAIN proc' = Proc /\ proc'[p] = c /\ \A q \in Proc : q # p => proc'[q] = proc[q]
BY Zenon DEF CacheInv, Common, Go

LEMMA ObjIs ==
  ASSUME CacheInv, NEW h \in Handle, NEW o, obj' = [obj EXCEPT ![h] = o]
  PROVE  DOMAIN obj' = Handle /\ obj'[h] = o /\ \A g \in Handle : g # h => obj'[g] = obj[g]
BY Zenon DEF CacheInv, Common

LEMMA NewXid ==
  ASSUME NEW i, NEW s, NEW R, Fits(i, s, R), NEW j, j = [i EXCEPT !.xid = @ + 1]
  PROVE  Fits(j, s, R) /\ j.keys = i.keys
<1>1. i \in Index
  BY Zenon DEF Fits
<1>2. PICK x : x = i.xid + 1
  BY Zenon
<1>3. x \in Nat
  BY <1>1, <1>2 DEF Index
<1>4. j = [i EXCEPT !.xid = x]
  BY <1>2, Zenon
<1>5. j \in Index /\ j.keys = i.keys /\ j.blocks = i.blocks /\ j.vno = i.vno
  BY <1>1, <1>3, <1>4, Zenon DEF Index
<1>6. Matches(j, s)
  BY <1>5, Zenon DEF Matches, Fits
<1>7. OneEach(j)
  BY <1>5, Zenon DEF OneEach, Fits
<1> QED
  BY <1>5, <1>6, <1>7, Zenon DEF Fits

LEMMA TimesIn ==
  /\ ED_TIME_DELETE \in Int /\ ED_TIME_INF \in Int
  /\ \A ttl \in Int, at \in Int : ed_expiry_at(Epoch, ttl, at) \in Int
BY TimeAssumption, BlockAssumption
   DEF ed_expiry_at, ed_time_from_unix, ED_TIME_MAX, ED_TIME_DELETE, ED_TIME_INF

-----------------------------------------------------------------------------
(* A process that has the cache to itself. *)

(* There is one process. *)
Alone == \A p, q \in Proc : p = q

LEMMA InStepGo ==
  ASSUME CacheInv, InStep, NEW p \in Proc, NEW c, Go(p, c), c.pc = "reserve" => Slot(c.vno) = c.no
  PROVE  InStep'
<1>1. proc'[p] = c /\ \A q \in Proc : q # p => proc'[q] = proc[q]
  BY GoIs, Zenon
<1> QED
  BY <1>1, Zenon DEF InStep

LEMMA InStepHandle ==
  ASSUME CacheInv, InStep, NEW h \in Handle,
         \/ \E k \in Key : (\E n \in load.sizes : CreateBegin(h, k, n)) \/ OpenBegin(h, k)
         \/ Write(h) \/ CloseBegin(h) \/ Discard(h) \/ CloseRead(h)
         \/ \E ttl \in load.ttls : SetTtl(h, ttl)
         \/ \E xid \in 1 .. idx.xid, no \in Blk : OpenIdBegin(h, xid, no)
  PROVE  InStep'
<1>1. Owner[h] \in Proc
  BY OwnerIn, Zenon
<1>2. ASSUME NEW k, NEW n, CreateBegin(h, k, n) PROVE InStep'
  <2>1. PICK c : c = [pc |-> "reserve", h |-> h, key |-> k, n |-> n, txn |-> idx,
                      vno |-> idx.vno, no |-> Slot(idx.vno), start |-> Slot(idx.vno)]
    BY Zenon
  <2>2. Go(Owner[h], c)
    BY <1>2, <2>1, Zenon DEF CreateBegin
  <2>3. Slot(c.vno) = c.no
    BY <2>1
  <2> QED
    BY <1>1, <2>2, <2>3, InStepGo, Zenon
<1>3. ASSUME NEW k, OpenBegin(h, k) PROVE InStep'
  <2>1. PICK c : c = [pc |-> "open", h |-> h, key |-> k, found |-> {e \in idx.keys : e.key = k}]
    BY Zenon
  <2>2. Go(Owner[h], c)
    BY <1>3, <2>1, Zenon DEF OpenBegin
  <2>3. c.pc # "reserve"
    BY <2>1
  <2> QED
    BY <1>1, <2>2, <2>3, InStepGo, Zenon
<1>4. ASSUME NEW xid, NEW no, OpenIdBegin(h, xid, no) PROVE InStep'
  <2>1. PICK b : Go(Owner[h], [pc |-> "openid", h |-> h, b |-> b, vno |-> no])
    BY <1>4, Zenon DEF OpenIdBegin
  <2>2. [pc |-> "openid", h |-> h, b |-> b, vno |-> no].pc # "reserve"
    OBVIOUS
  <2> QED
    BY <1>1, <2>1, <2>2, InStepGo, Zenon
<1>5. ASSUME CloseBegin(h) PROVE InStep'
  <2>1. PICK t : Go(Owner[h], [pc |-> "closing", txn |-> t])
    BY <1>5, Zenon DEF CloseBegin
  <2>2. [pc |-> "closing", txn |-> t].pc # "reserve"
    OBVIOUS
  <2> QED
    BY <1>1, <2>1, <2>2, InStepGo, Zenon
<1>6. CASE Write(h) \/ Discard(h) \/ CloseRead(h) \/ \E ttl \in load.ttls : SetTtl(h, ttl)
  <2>1. proc' = proc
    BY <1>6, Zenon DEF Write, Discard, CloseRead, Dispose, SetTtl
  <2> QED
    BY <2>1, Zenon DEF InStep
<1> QED
  BY <1>2, <1>3, <1>4, <1>5, <1>6, Zenon

(* Only a refused lock could part the positions. *)
LEMMA InStepProc ==
  ASSUME Alone, CacheInv, InStep, NEW p \in Proc,
         \/ ReserveSkip(p) \/ ReserveTake(p) \/ ReserveDies(p)
         \/ CreateCommit(p) \/ CreateFails(p) \/ CreateInit(p)
         \/ CloseCommit(p) \/ CloseFails(p) \/ OpenKey(p) \/ OpenId(p)
         \/ \E k, exp, restore : UpdateBegin(p, k, exp, restore)
         \/ UpdateCommit(p) \/ Crash(p)
  PROVE  InStep'
<1>1. ~ReserveSkip(p)
  BY Zenon DEF ReserveSkip, CanLock, Alone
<1>2. ASSUME ReserveTake(p) PROVE InStep'
  <2>1. PICK c, t : Go(p, [pc |-> "commit", h |-> c.h, key |-> c.key, n |-> c.n, vno |-> c.vno, txn |-> t])
    BY <1>2, Zenon DEF ReserveTake
  <2>2. PICK d : d = [pc |-> "commit", h |-> c.h, key |-> c.key, n |-> c.n, vno |-> c.vno, txn |-> t]
    BY Zenon
  <2>3. d.pc # "reserve"
    BY <2>2
  <2>4. Go(p, d)
    BY <2>1, <2>2, Zenon
  <2> QED
    BY <2>3, <2>4, InStepGo, Zenon
<1>3. ASSUME CreateCommit(p) PROVE InStep'
  <2>1. PICK d : d = [proc[p] EXCEPT !.pc = "init", !.txn = idx.xid + 1]
    BY Zenon
  <2>2. proc[p] \in CommitCall
    BY <1>3, Zenon DEF CreateCommit, CacheInv, Mine, Call
  <2>3. d.pc # "reserve"
    BY <2>1, <2>2 DEF CommitCall
  <2>4. Go(p, d)
    BY <1>3, <2>1, Zenon DEF CreateCommit
  <2> QED
    BY <2>3, <2>4, InStepGo, Zenon
<1>4. ASSUME NEW k, NEW exp, NEW restore, UpdateBegin(p, k, exp, restore) PROVE InStep'
  <2>1. PICK t : Go(p, [pc |-> "update", txn |-> t])
    BY <1>4, Zenon DEF UpdateBegin
  <2>2. [pc |-> "update", txn |-> t].pc # "reserve"
    OBVIOUS
  <2> QED
    BY <2>1, <2>2, InStepGo, Zenon
<1>5. CASE \/ ReserveDies(p) \/ CreateFails(p) \/ CreateInit(p) \/ CloseCommit(p) \/ CloseFails(p)
           \/ OpenKey(p) \/ OpenId(p) \/ UpdateCommit(p) \/ Crash(p)
  <2>1. Go(p, Idle)
    BY <1>5, Zenon DEF ReserveDies, CreateFails, CreateInit, CloseCommit, CloseFails, OpenKey,
       OpenId, UpdateCommit, Crash, Die
  <2>2. Idle.pc # "reserve"
    BY IdleIs
  <2> QED
    BY <2>1, <2>2, InStepGo, Zenon
<1> QED
  BY <1>1, <1>2, <1>3, <1>4, <1>5, Zenon

LEMMA InStepNext ==
  ASSUME Alone, CacheInv, InStep, [Next]_vars
  PROVE  InStep'
<1>1. ASSUME NEW h \in Handle, NEW k \in Key,
             (\E n \in load.sizes : CreateBegin(h, k, n)) \/ OpenBegin(h, k)
      PROVE  InStep'
  BY <1>1, InStepHandle, Zenon
<1>2. ASSUME NEW h \in Handle,
             \/ Write(h) \/ CloseBegin(h) \/ Discard(h) \/ CloseRead(h)
             \/ \E ttl \in load.ttls : SetTtl(h, ttl)
             \/ \E xid \in 1 .. idx.xid, no \in Blk : OpenIdBegin(h, xid, no)
      PROVE  InStep'
  BY <1>2, InStepHandle, Zenon
<1>3. ASSUME NEW p \in Proc,
             \/ ReserveSkip(p) \/ ReserveTake(p) \/ ReserveDies(p)
             \/ CreateCommit(p) \/ CreateFails(p) \/ CreateInit(p)
             \/ CloseCommit(p) \/ CloseFails(p) \/ OpenKey(p) \/ OpenId(p)
             \/ \E k \in Key, ttl \in load.ttls, restore \in BOOLEAN :
                  UpdateBegin(p, k, ed_expiry_at(Epoch, ttl, now), restore)
             \/ UpdateCommit(p) \/ Crash(p)
      PROVE  InStep'
  BY <1>3, InStepProc, Zenon
<1>4. CASE \/ \E from \in {Oldest} \cup 0 .. idx.vno : ListOpen(from)
           \/ ListStart \/ ListNext \/ ListClose \/ Tick \/ UNCHANGED vars
  <2>1. proc' = proc
    BY <1>4, Zenon DEF ListOpen, ListStart, ListNext, ListClose, Tick, vars
  <2> QED
    BY <2>1, Zenon DEF InStep
<1> QED
  BY <1>1, <1>2, <1>3, <1>4, Zenon DEF Next

-----------------------------------------------------------------------------
(* Steps that only take or release locks, and crashes. *)

LEMMA CreateFailsStep ==
  ASSUME Separate, CacheInv, NEW p \in Proc, CreateFails(p) \/ CloseFails(p)
  PROVE  Kept
<1>1. /\ slab' = slab /\ lck' = lck /\ idx' = idx /\ obj' = obj /\ now' = now /\ load' = load
      /\ proc[p].pc \in Changing /\ Go(p, Idle)
  BY Zenon DEF CreateFails, CloseFails, Changing
<1>2. wlock = p
  BY <1>1, Zenon DEF CacheInv, Mine, Call
<1>3. DOMAIN obj = Handle
  BY Zenon DEF CacheInv, Common
<1>4. proc'[p].pc = "idle"
  BY <1>1, GoIs, IdleIs, Zenon
<1>5. Frame(p)
  BY <1>1, <1>3, GoIs, Zenon DEF Frame
<1>6. proc'[p].pc \notin Changing \cup {"init"} /\ proc'[p].pc \notin Opening
  BY <1>4, Zenon DEF Changing, Opening
<1> QED
  BY <1>1, <1>2, <1>5, <1>6, LocksKept, LightStep, Zenon

LEMMA OpenBeginStep ==
  ASSUME Separate, CacheInv, NEW h \in Handle,
         \/ \E k \in Key : OpenBegin(h, k)
         \/ \E xid, vno : OpenIdBegin(h, xid, vno)
  PROVE  Kept
<1>1. PICK p \in Proc : p = Owner[h]
  BY OwnerIn, Zenon
<1>2. PICK c : Go(p, c) /\ c.pc \in {"open", "openid"} /\ c.h = h
  <2>1. ASSUME NEW k, OpenBegin(h, k)
        PROVE  \E c : Go(p, c) /\ c.pc = "open" /\ c.h = h
    <3>1. PICK c : /\ c = [pc |-> "open", h |-> h, key |-> k, found |-> {e \in idx.keys : e.key = k}]
                   /\ Go(p, c)
      BY <1>1, <2>1, Zenon DEF OpenBegin
    <3>2. c.pc = "open" /\ c.h = h
      BY <3>1
    <3> QED
      BY <3>1, <3>2, Zenon
  <2>2. ASSUME NEW xid, NEW vno, OpenIdBegin(h, xid, vno)
        PROVE  \E c : Go(p, c) /\ c.pc = "openid" /\ c.h = h
    <3>1. PICK c, b : c = [pc |-> "openid", h |-> h, b |-> b, vno |-> vno] /\ Go(p, c)
      BY <1>1, <2>2, Zenon DEF OpenIdBegin
    <3>2. c.pc = "openid" /\ c.h = h
      BY <3>1
    <3> QED
      BY <3>1, <3>2, Zenon
  <2> QED
    BY <2>1, <2>2, Zenon
<1>3. /\ UNCHANGED <<slab, lck, idx, wlock, obj, now, load>> /\ ~obj[h].open
  BY Zenon DEF OpenBegin, OpenIdBegin, CanStart
<1>4. DOMAIN obj = Handle
  BY Zenon DEF CacheInv, Common
<1>5. Frame(p)
  BY <1>2, <1>3, <1>4, GoIs, Zenon DEF Frame
<1>6. proc'[p] = c
  BY <1>2, GoIs, Zenon
<1>7. proc'[p].pc \notin Changing \cup {"init"}
  BY <1>2, <1>6, Zenon DEF Changing
<1> QED
  BY <1>1, <1>2, <1>3, <1>5, <1>6, <1>7, LocksKept, LightStep, Zenon

(* The object is closed, or opened by a process that writes none. *)
LEMMA RelockStep ==
  ASSUME Separate, CacheInv, NEW p \in Proc, NEW h \in Handle, Owner[h] = p,
         slab' = slab, idx' = idx, wlock' = wlock, now' = now, load' = load,
         DOMAIN proc' = Proc, proc'[p].pc = "idle", \A q \in Proc : q # p => proc'[q] = proc[q],
         DOMAIN obj' = Handle, ~(obj'[h].open /\ ~obj'[h].rdonly),
         \A g \in Handle : g # h => obj'[g] = obj[g],
         LocksOf(p)
  PROVE  Kept
<1>1. \A g \in Handle : Owner[g] = p => ~(obj'[g].open /\ ~obj'[g].rdonly)
  BY Zenon DEF Separate
<1>2. Frame(p)
  BY Zenon DEF Frame, LocksOf
<1>3. proc'[p].pc \notin Changing \cup {"init"} /\ proc'[p].pc \notin Opening
  BY Zenon DEF Changing, Opening
<1> QED
  BY <1>1, <1>2, <1>3, LightStep, Zenon

LEMMA DisposeStep ==
  ASSUME Separate, CacheInv, NEW h \in Handle, Discard(h) \/ CloseRead(h)
  PROVE  Kept
<1>1. PICK p \in Proc : p = Owner[h]
  BY OwnerIn, Zenon
<1>2. Dispose(h) /\ proc[p].pc = "idle"
  BY <1>1, Zenon DEF Discard, CloseRead, Writing
<1>3. PICK S : S = Span(obj[h].no, obj[h].count)
  BY Zenon
<1>4. lck' = Locked(p, "un", S) /\ obj' = [obj EXCEPT ![h] = NoObj] /\ proc' = proc
  BY <1>1, <1>2, <1>3, Zenon DEF Dispose
<1>9. slab' = slab /\ idx' = idx /\ wlock' = wlock /\ now' = now /\ load' = load
  BY <1>2, Zenon DEF Dispose
<1>5. LocksOf(p)
  BY <1>4, Released, Zenon
<1>6. DOMAIN obj' = Handle /\ obj'[h] = NoObj /\ \A g \in Handle : g # h => obj'[g] = obj[g]
  BY <1>4, ObjIs, Zenon
<1>7. DOMAIN proc' = Proc /\ proc'[p].pc = "idle" /\ \A q \in Proc : q # p => proc'[q] = proc[q]
  BY <1>2, <1>4, Zenon DEF CacheInv, Common
<1>8. ~(obj'[h].open /\ ~obj'[h].rdonly)
  BY <1>6, IdleIs, Zenon
<1> QED
  BY <1>1, <1>5, <1>6, <1>7, <1>8, <1>9, RelockStep, Zenon

LEMMA OpenStep ==
  ASSUME Separate, CacheInv, NEW p \in Proc, OpenKey(p) \/ OpenId(p)
  PROVE  Kept
<1>1. PICK h : h = proc[p].h
  BY Zenon
<1>2. /\ slab' = slab /\ idx' = idx /\ wlock' = wlock /\ now' = now /\ load' = load /\ Go(p, Idle)
      /\ proc[p].pc \in {"open", "openid"}
  BY Zenon DEF OpenKey, OpenId
<1>3. h \in Handle /\ Owner[h] = p /\ ~obj[h].open
  BY <1>1, <1>2, Zenon DEF CacheInv, Mine, Call, Opening
<1>4. DOMAIN proc' = Proc /\ proc'[p].pc = "idle" /\ \A q \in Proc : q # p => proc'[q] = proc[q]
  BY <1>2, GoIs, IdleIs, Zenon
<1>5. ASSUME obj' = obj, LocksOf(p)
      PROVE  Kept
  <2>1. DOMAIN obj' = Handle
    BY <1>5, Zenon DEF CacheInv, Common
  <2> QED
    BY <1>2, <1>3, <1>4, <1>5, <2>1, RelockStep, Zenon
<1>6. ASSUME NEW no, NEW n, NEW vno, NEW exp, Opened(p, h, no, n, vno, exp),
             CanLock(p, "sh", Span(no, n))
      PROVE  Kept
  <2>1. PICK o : obj' = [obj EXCEPT ![h] = o] /\ ~(o.open /\ ~o.rdonly)
    <3>1. PICK o : /\ o = [open |-> TRUE, rdonly |-> TRUE, key |-> slab[no].hdr.key, vno |-> vno, no |-> no,
                           count |-> slab[no].hdr.count, val |-> slab[no].hdr.val, exp |-> exp, seek |-> 0]
                   /\ obj' = [obj EXCEPT ![h] = IF Checksum /\ ~Whole(slab, no) THEN NoObj ELSE o]
      BY <1>6, Zenon DEF Opened
    <3>2. o.rdonly
      BY <3>1
    <3>3. CASE Checksum /\ ~Whole(slab, no)
      BY <3>1, <3>3, IdleIs, Zenon
    <3>4. CASE ~(Checksum /\ ~Whole(slab, no))
      BY <3>1, <3>2, <3>4, Zenon
    <3> QED
      BY <3>3, <3>4, Zenon
  <2>2. PICK S : S = Span(no, n)
    BY Zenon
  <2>3. lck' = Locked(p, "sh", S) /\ CanLock(p, "sh", S)
    BY <1>6, <2>2, Zenon DEF Opened
  <2>4. LocksOf(p)
    BY <2>3, Shared, Zenon
  <2>5. /\ DOMAIN obj' = Handle /\ ~(obj'[h].open /\ ~obj'[h].rdonly)
        /\ \A g \in Handle : g # h => obj'[g] = obj[g]
    BY <1>3, <2>1, ObjIs, Zenon
  <2> QED
    BY <1>2, <1>3, <1>4, <2>4, <2>5, RelockStep, Zenon
<1>7. ASSUME NEW S, lck' = Locked(p, "un", S), obj' = obj
      PROVE  Kept
  <2>1. LocksOf(p)
    BY <1>7, Released, Zenon
  <2> QED
    BY <1>5, <1>7, <2>1, Zenon
<1>8. CASE lck' = lck /\ obj' = obj
  BY <1>5, <1>8, LocksKept, Zenon
<1>9. CASE OpenKey(p)
  <2>1. CASE \E e : Opened(p, h, Slot(e.vno), e.count, e.vno, e.exp) /\ Lockable(p, e)
    BY <1>6, <2>1, Zenon DEF Lockable
  <2>2. CASE \E S : lck' = Locked(p, "un", S) /\ obj' = obj
    BY <1>7, <2>2, Zenon
  <2> QED
    BY <1>1, <1>9, <2>1, <2>2, Zenon DEF OpenKey
<1>10. CASE OpenId(p)
  <2>1. PICK b : b = proc[p].b
    BY Zenon
  <2>2. CASE /\ CanLock(p, "sh", Span(b.no, b.count))
             /\ Opened(p, h, b.no, b.count, proc[p].vno, slab[b.no].hdr.exp)
    BY <1>6, <2>2, Zenon
  <2> QED
    BY <1>1, <1>8, <1>10, <2>1, <2>2, Zenon DEF OpenId
<1> QED
  BY <1>9, <1>10, Zenon

LEMMA DieStep ==
  ASSUME Separate, CacheInv, NEW p \in Proc, Die(p)
  PROVE  Kept
<1>1. /\ lck' = [lck EXCEPT ![p] = Unlocked] /\ Go(p, Idle)
      /\ obj' = [h \in Handle |-> IF Owner[h] = p THEN NoObj ELSE obj[h]]
      /\ wlock' = IF wlock = p THEN NoProc ELSE wlock
      /\ slab' = slab /\ idx' = idx /\ now' = now /\ load' = load
  BY Zenon DEF Die
<1>2. DOMAIN obj' = Handle /\ \A h \in Handle : obj'[h] = IF Owner[h] = p THEN NoObj ELSE obj[h]
  BY <1>1, Zenon
<1>3. lck \in LockTable /\ Exclusive
  BY Zenon DEF CacheInv, Common
<1>4. lck' = Locked(p, "un", Blk)
  BY <1>1, <1>3, Zenon DEF Locked, Unlocked, LockTable
<1>5. PICK S : S = Blk
  BY Zenon
<1>6. LocksOf(p)
  BY <1>4, <1>5, Released, Zenon
<1>7. DOMAIN proc' = Proc /\ proc'[p] = Idle /\ \A q \in Proc : q # p => proc'[q] = proc[q]
  BY <1>1, GoIs, Zenon
<1>8. Frame(p)
  BY <1>1, <1>2, <1>6, <1>7, Zenon DEF Frame, LocksOf
<1>9. \A h \in Handle : Owner[h] = p => ~(obj'[h].open /\ ~obj'[h].rdonly)
  BY <1>2, IdleIs, Zenon
<1>10. proc'[p].pc \notin Changing \cup {"init"} /\ proc'[p].pc \notin Opening
  BY <1>7, IdleIs, Zenon DEF Changing, Opening
<1>11. wlock' = wlock \/ wlock \in {p, NoProc}
  BY <1>1, Zenon
<1> QED
  BY <1>1, <1>6, <1>8, <1>9, <1>10, <1>11, LightStep, Zenon

-----------------------------------------------------------------------------
(* ed_create: positions. *)

LEMMA DivMod ==
  ASSUME NEW v \in Nat
  PROVE  v \div BlockCount \in Nat /\ v = BlockCount * (v \div BlockCount) + Slot(v)
BY BlockAssumption DEF Slot

LEMMA OneRemainder ==
  ASSUME NEW a \in Int, NEW b \in Int, NEW r \in Blk, NEW s \in Blk,
         BlockCount * a + r = BlockCount * b + s
  PROVE  r = s
<1>1. CASE a > b
  <2>1. BlockCount * (a - b) >= BlockCount
    BY <1>1, BlockAssumption
  <2> QED
    BY <2>1, BlockAssumption DEF Blk
<1>2. CASE a < b
  <2>1. BlockCount * (b - a) >= BlockCount
    BY <1>2, BlockAssumption
  <2> QED
    BY <2>1, BlockAssumption DEF Blk
<1>3. CASE a = b
  BY <1>3, BlockAssumption DEF Blk
<1> QED
  BY <1>1, <1>2, <1>3

(* Writing on moves the position on, and around the end to 0. *)
LEMMA SlotAfter ==
  ASSUME NEW v \in Nat, NEW n \in Nat, Slot(v) + n <= BlockCount
  PROVE  Slot(v + n) = IF Slot(v) + n = BlockCount THEN 0 ELSE Slot(v) + n
<1>1. Slot(v + n) \in Blk /\ Slot(v) \in Blk
  BY SlotInBlk
<1>2. PICK a \in Nat : v = BlockCount * a + Slot(v)
  BY DivMod
<1>3. PICK b \in Nat : v + n = BlockCount * b + Slot(v + n)
  BY DivMod
<1>4. CASE Slot(v) + n = BlockCount
  <2>1. BlockCount * (a + 1) + 0 = BlockCount * b + Slot(v + n)
    BY <1>1, <1>2, <1>3, <1>4, BlockAssumption DEF Blk
  <2> QED
    BY <1>1, <1>4, <2>1, OneRemainder, BlockAssumption DEF Blk
<1>5. CASE Slot(v) + n < BlockCount
  <2>1. PICK w : w = Slot(v) + n
    BY Zenon
  <2>2. BlockCount * a + w = BlockCount * b + Slot(v + n) /\ w \in Blk
    BY <1>1, <1>2, <1>3, <1>5, <2>1, BlockAssumption DEF Blk
  <2>3. a \in Int /\ b \in Int
    OBVIOUS
  <2>4. w = Slot(v + n)
    BY <1>1, <2>2, <2>3, OneRemainder, Zenon
  <2> QED
    BY <1>1, <1>5, <2>1, <2>4, BlockAssumption DEF Blk
<1> QED
  BY <1>1, <1>4, <1>5, BlockAssumption DEF Blk

LEMMA SlotAround == ASSUME NEW v \in Nat PROVE Slot(v + BlockCount - Slot(v)) = 0
<1>1. Slot(v) \in Blk
  BY SlotInBlk
<1>2. PICK n : n = BlockCount - Slot(v)
  BY Zenon
<1>3. n \in Nat /\ Slot(v) + n = BlockCount /\ v + BlockCount - Slot(v) = v + n
  BY <1>1, <1>2, BlockAssumption DEF Blk
<1>4. Slot(v) + n <= BlockCount
  BY <1>3, BlockAssumption
<1> QED
  BY <1>3, <1>4, SlotAfter, Zenon

-----------------------------------------------------------------------------
(* ed_create: what obj_reserve removes. *)

(* Every entry in the way is met before one that is not. *)
LEMMA ReplacedAll ==
  ASSUME NEW i \in Index, NEW no \in Blk, NEW n \in 1 .. BlockCount, no + n <= BlockCount,
         \A b \in i.blocks : ~Inside(no, b.no, b.count),
         NEW b \in i.blocks, Overlap(b, no, no + n)
  PROVE  b \in Replaced(i.blocks, no, no + n)
<1>1. b.no \in Blk /\ b.count \in Nat \ {0}
  BY EntryTypes, Zenon
<1>2. no <= b.no /\ b.no < no + n
  BY <1>1, BlockAssumption DEF Inside, Overlap, Blk
<1>3. ASSUME NEW c \in i.blocks, Turn(c, no) <= Turn(b, no) PROVE Overlap(c, no, no + n)
  <2>1. c.no \in Blk /\ c.count \in Nat \ {0}
    BY EntryTypes, Zenon
  <2> QED
    BY <1>1, <1>2, <1>3, <2>1, BlockAssumption DEF Turn, Overlap, Blk
<1> QED
  BY <1>3, Zenon DEF Replaced

(* Key entries of a removed block entry are removed too. *)
LEMMA ClearedMatches ==
  ASSUME NEW i \in Index, NEW j \in Index, NEW D, Matches(i, slab), OneEach(i),
         j.blocks = i.blocks \ D, j.keys \subseteq i.keys,
         \A e \in j.keys, b \in D : ~(e.key = slab[b.no].hdr.key /\ Slot(e.vno) = b.no)
  PROVE  Matches(j, slab) /\ OneEach(j)
<1>1. ASSUME NEW e \in j.keys
      PROVE  \E b \in j.blocks : b.no = Slot(e.vno) /\ b.count = e.count
  <2>1. e \in i.keys /\ \A b \in D : ~(e.key = slab[b.no].hdr.key /\ Slot(e.vno) = b.no)
    BY Zenon
  <2>2. PICK b \in i.blocks : b.no = Slot(e.vno) /\ b.count = e.count
    BY <2>1, Zenon DEF Matches
  <2>3. slab[Slot(e.vno)].hdr.key = e.key
    BY <2>1, Zenon DEF Matches
  <2>4. b \notin D
    BY <2>1, <2>2, <2>3, Zenon
  <2> QED
    BY <2>2, <2>4, Zenon
<1>2. j.keys \subseteq i.keys /\ j.blocks \subseteq i.blocks
  BY Zenon
<1>3. Matches(j, slab)
  BY <1>1, <1>2, Zenon DEF Matches
<1> QED
  BY <1>2, <1>3, Zenon DEF OneEach

(* Index j is what is left of i when n blocks at no are taken. *)
Cleared(i, j, no, n) ==
  /\ j \in Index /\ j.keys \subseteq i.keys
  /\ Slot(j.vno) = IF no + n = BlockCount THEN 0 ELSE no + n
  /\ j.blocks = i.blocks \ Replaced(i.blocks, no, no + n)
  /\ \A e \in j.keys, b \in Replaced(i.blocks, no, no + n) :
       ~(e.key = slab[b.no].hdr.key /\ Slot(e.vno) = b.no)

(* The range of r is taken: what is left of the index has nothing there, and
   the next position is between the entries and outside the other ranges. *)
LEMMA ClearedFits ==
  ASSUME NEW i \in Index, NEW j, NEW R, Fits(i, slab, R),
         NEW no \in Blk, NEW n \in 1 .. BlockCount, no + n <= BlockCount,
         \A b \in i.blocks : ~Inside(no, b.no, b.count), Cleared(i, j, no, n),
         NEW r, r.no = no, r.n = n, Apart(R, no, n)
  PROVE  Fits(j, slab, R \cup {r})
<1>0. /\ j \in Index /\ j.keys \subseteq i.keys
      /\ Slot(j.vno) = IF no + n = BlockCount THEN 0 ELSE no + n
      /\ j.blocks = i.blocks \ Replaced(i.blocks, no, no + n)
      /\ \A e \in j.keys, b \in Replaced(i.blocks, no, no + n) :
           ~(e.key = slab[b.no].hdr.key /\ Slot(e.vno) = b.no)
  BY Zenon DEF Cleared
<1>1. Matches(j, slab) /\ OneEach(j) /\ j.blocks \subseteq i.blocks
  <2>1. PICK D : D = Replaced(i.blocks, no, no + n)
    BY Zenon
  <2>2. /\ j.blocks = i.blocks \ D
        /\ \A e \in j.keys, b \in D : ~(e.key = slab[b.no].hdr.key /\ Slot(e.vno) = b.no)
    BY <1>0, <2>1, Zenon
  <2>3. Matches(i, slab) /\ OneEach(i)
    BY Zenon DEF Fits
  <2> QED
    BY <1>0, <2>2, <2>3, ClearedMatches, Zenon
<1>2. ASSUME NEW b \in j.blocks PROVE ~Overlap(b, no, no + n)
  BY <1>0, <1>2, ReplacedAll, Zenon
<1>3. ASSUME NEW b \in j.blocks PROVE ~Inside(Slot(j.vno), b.no, b.count)
  <2>1. b.no \in Blk /\ b.count \in Nat \ {0} /\ ~Overlap(b, no, no + n)
    BY <1>1, <1>2, EntryTypes, Zenon
  <2> QED
    BY <1>0, <2>1, BlockAssumption DEF Inside, Overlap, Blk
<1>4. ASSUME NEW q \in R PROVE ~Inside(Slot(j.vno), q.no, q.n)
  <2>1. /\ q.no \in Blk /\ q.n \in 1 .. BlockCount /\ q.no + q.n <= BlockCount
        /\ Span(no, n) \cap Span(q.no, q.n) = {}
    BY <1>4, Zenon DEF Apart
  <2>2. no + n <= q.no \/ q.no + q.n <= no
    BY <2>1, ApartSpans
  <2> QED
    BY <1>0, <2>1, <2>2, BlockAssumption DEF Inside, Blk
<1>5. ~Inside(Slot(j.vno), no, n)
  BY <1>0, BlockAssumption DEF Inside, Blk
<1>6. \A b \in j.blocks, q \in R : ~Overlap(b, q.no, q.no + q.n)
  BY <1>1, Zenon DEF Fits
<1> QED
  BY <1>0, <1>1, <1>2, <1>3, <1>4, <1>5, <1>6, Zenon DEF Fits, Between

-----------------------------------------------------------------------------
(* ed_create: the steps. *)

(* A step of a process that searches. *)
LEMMA SearchStep ==
  ASSUME Separate, CacheInv, NEW p \in Proc, NEW c \in ReserveCall, Go(p, c),
         UNCHANGED <<slab, lck, idx, obj, now, load>>, wlock \in {p, NoProc}, wlock' = p,
         Owner[c.h] = p, ~obj[c.h].open, c.txn = idx, c.start = c.no, idx.xid < MaxXid,
         Between(c.no, idx.blocks, Taken)
  PROVE  Kept
<1>1. DOMAIN proc' = Proc /\ proc'[p] = c /\ \A q \in Proc : q # p => proc'[q] = proc[q]
  BY GoIs, Zenon
<1>2. c.pc = "reserve" /\ c.h \in Handle
  BY DEF ReserveCall
<1>3. Frame(p)
  BY <1>1, Zenon DEF Frame, CacheInv, Common
<1>4. proc'[p].pc \notin {"commit", "init"}
  BY <1>1, <1>2, Zenon
<1>5. Taken' \subseteq Taken /\ Claims' \subseteq Claims
  BY <1>3, <1>4, NoNewClaims, Zenon
<1>6. Guarded(p)
  BY <1>5, Zenon DEF Guarded, SameIn
<1>7. Mine(p) /\ slab \in [Blk -> Block]
  BY Zenon DEF CacheInv, Common
<1>8. Call(p)'
  BY <1>1, <1>2, Zenon DEF Call
<1>9. Pending(p)'
  <2>1. Between(c.no, idx'.blocks, Taken')
    BY <1>5, Zenon DEF Between
  <2> QED
    BY <1>1, <1>2, <2>1, Zenon DEF Pending
<1>10. Mine(p)'
  BY <1>5, <1>7, <1>8, <1>9, Zenon DEF Mine, Object
<1> QED
  BY <1>3, <1>5, <1>6, <1>7, <1>10, LocksKept, StepOf, Zenon

LEMMA CreateBeginStep ==
  ASSUME Separate, CacheInv, NEW h \in Handle, NEW k \in Key, NEW n \in load.sizes,
         CreateBegin(h, k, n)
  PROVE  Kept
<1>1. PICK p \in Proc : p = Owner[h]
  BY OwnerIn, Zenon
<1>2. PICK c : c = [pc |-> "reserve", h |-> h, key |-> k, n |-> n, txn |-> idx,
                    vno |-> idx.vno, no |-> Slot(idx.vno), start |-> Slot(idx.vno)]
  BY Zenon
<1>3. /\ UNCHANGED <<slab, lck, idx, obj, now, load>> /\ wlock = NoProc /\ wlock' = p /\ Go(p, c)
      /\ ~obj[h].open /\ idx.xid < load.last
  BY <1>1, <1>2, Zenon DEF CreateBegin, CanStart, CanChange
<1>4. Asked /\ Fits(idx, slab, Taken)
  BY Zenon DEF CacheInv, Common
<1>5. idx \in Index /\ Between(Slot(idx.vno), idx.blocks, Taken)
  BY <1>4, Zenon DEF Fits
<1>6. n \in 1 .. BlockCount /\ idx.vno \in Nat /\ Slot(idx.vno) \in Blk
  BY <1>4, <1>5, EntryTypes, Zenon DEF Asked
<1>7. idx.xid < MaxXid
  <2>1. idx.xid \in Nat /\ load.last \in 0 .. MaxXid
    BY <1>4, <1>5 DEF Asked, Index
  <2> QED
    BY <1>3, <2>1, BlockAssumption
<1>8. c \in ReserveCall
  BY <1>2, <1>5, <1>6 DEF ReserveCall
<1>9. c.h = h /\ c.txn = idx /\ c.start = c.no /\ c.no = Slot(idx.vno)
  BY <1>2
<1> QED
  BY <1>1, <1>3, <1>5, <1>7, <1>8, <1>9, SearchStep, Zenon

(* Where the search goes on at the beginning. *)
LEMMA WrappedIs ==
  ASSUME NEW c \in ReserveCall, Slot(c.vno) = c.no, c.start = c.no
  PROVE  /\ Wrapped(c) \in ReserveCall /\ Wrapped(c).h = c.h /\ Wrapped(c).txn = c.txn
         /\ Wrapped(c).key = c.key /\ Wrapped(c).n = c.n
         /\ Wrapped(c).start = Wrapped(c).no /\ Slot(Wrapped(c).vno) = Wrapped(c).no
         /\ Wrapped(c).no \in {0, c.no} /\ Wrapped(c).no + c.n <= BlockCount
<1>1. c.vno \in Nat /\ c.no \in Blk /\ c.n \in 1 .. BlockCount
  BY DEF ReserveCall
<1>2. c.no \in Nat /\ c.n \in Nat /\ c.n <= BlockCount /\ c.no < BlockCount /\ 0 \in Blk
  BY <1>1, BlockAssumption DEF Blk
<1>3. PICK v : v = c.vno + BlockCount - c.no
  BY Zenon
<1>4. v \in Nat /\ Slot(v) = 0
  <2>1. v \in Nat
    BY <1>1, <1>2, <1>3, BlockAssumption
  <2>2. Slot(c.vno + BlockCount - Slot(c.vno)) = 0
    BY <1>1, SlotAround, Zenon
  <2> QED
    BY <1>3, <2>1, <2>2, Zenon
<1>5. CASE c.start + c.n <= BlockCount
  <2>1. Wrapped(c) = c
    BY <1>5, Zenon DEF Wrapped
  <2> QED
    BY <1>5, <2>1, Zenon
<1>6. CASE ~(c.start + c.n <= BlockCount)
  <2>1. PICK w : w = [c EXCEPT !.start = 0, !.vno = v, !.no = Slot(v)]
    BY Zenon
  <2>2. Wrapped(c) = w
    BY <1>3, <1>6, <2>1, Zenon DEF Wrapped
  <2>3. /\ w \in ReserveCall /\ w.h = c.h /\ w.txn = c.txn /\ w.key = c.key /\ w.n = c.n
        /\ w.start = 0 /\ w.vno = v /\ w.no = Slot(v)
    BY <1>2, <1>4, <2>1, Zenon DEF ReserveCall
  <2>4. 0 + c.n <= BlockCount
    BY <1>2
  <2> QED
    BY <1>4, <2>2, <2>3, <2>4, Zenon
<1> QED
  BY <1>5, <1>6, Zenon

(* An entry begins between two objects. *)
LEMMA BetweenHere ==
  ASSUME NEW i \in Index, NEW s, NEW R, Fits(i, s, R), NEW b \in i.blocks,
         \A r \in R : r.no \in Blk /\ r.n \in 1 .. BlockCount
  PROVE  Between(b.no, i.blocks, R)
<1>1. b.no \in Blk /\ b.count \in Nat \ {0}
  BY EntryTypes, Zenon
<1>2. ASSUME NEW c \in i.blocks PROVE ~Inside(b.no, c.no, c.count)
  <2>1. b # c => ~Overlap(b, c.no, c.no + c.count)
    BY <1>2, Zenon DEF Fits, Matches
  <2>2. c.no \in Blk /\ c.count \in Nat \ {0}
    BY <1>2, EntryTypes, Zenon
  <2> QED
    BY <1>1, <2>1, <2>2, BlockAssumption DEF Inside, Overlap, Blk
<1>3. ASSUME NEW r \in R PROVE ~Inside(b.no, r.no, r.n)
  <2>1. ~Overlap(b, r.no, r.no + r.n) /\ r.no \in Blk /\ r.n \in 1 .. BlockCount
    BY <1>3, Zenon DEF Fits
  <2> QED
    BY <1>1, <2>1, BlockAssumption DEF Inside, Overlap, Blk
<1> QED
  BY <1>2, <1>3, Zenon DEF Between

(* Nothing begins before the slab. *)
LEMMA BetweenAtZero ==
  ASSUME NEW i \in Index, NEW R, \A r \in R : r.no \in Blk
  PROVE  Between(0, i.blocks, R)
<1>1. \A x, n : x \in Blk => ~Inside(0, x, n)
  BY BlockAssumption DEF Inside, Blk
<1>2. \A b \in i.blocks : b.no \in Blk
  BY EntryTypes, Zenon
<1> QED
  BY <1>1, <1>2, Zenon DEF Between

LEMMA ReserveSkipStep ==
  ASSUME Separate, CacheInv, InStep, NEW p \in Proc, ReserveSkip(p)
  PROVE  Kept
<1>1. proc[p].pc = "reserve"
  BY Zenon DEF ReserveSkip
<1>2. /\ proc[p] \in ReserveCall /\ Owner[proc[p].h] = p /\ ~obj[proc[p].h].open /\ wlock = p
      /\ proc[p].txn = idx /\ proc[p].start = proc[p].no /\ idx.xid < MaxXid
      /\ Slot(proc[p].vno) = proc[p].no
  BY <1>1, Zenon DEF CacheInv, Mine, Call, Pending, Opening, Changing, InStep
<1>3. PICK c : c = Wrapped(proc[p])
  BY Zenon
<1>4. c \in ReserveCall /\ c.h = proc[p].h /\ c.txn = idx
  BY <1>2, <1>3, WrappedIs, Zenon
<1>5. Fits(idx, slab, Taken) /\ idx \in Index
  BY Zenon DEF CacheInv, Common, Fits
<1>6. UNCHANGED <<slab, lck, idx, wlock, obj, now, load>>
  BY Zenon DEF ReserveSkip
<1>7. PICK b \in NextBlock(c.txn.blocks, c.no) :
        Go(p, [c EXCEPT !.vno = @ + b.count, !.no = b.no, !.start = b.no])
  BY <1>3, Zenon DEF ReserveSkip
<1>8. b \in idx.blocks
  BY <1>4, <1>7, Zenon DEF NextBlock
<1>9. b.no \in Blk /\ b.count \in Nat
  BY <1>5, <1>8, EntryTypes
<1>10. PICK d : d = [c EXCEPT !.vno = @ + b.count, !.no = b.no, !.start = b.no]
  BY Zenon
<1>11. d \in ReserveCall /\ d.h = c.h /\ d.txn = c.txn /\ d.start = b.no /\ d.no = b.no
  <2>1. PICK v : v = c.vno + b.count
    BY Zenon
  <2>2. v \in Nat
    BY <1>4, <1>9, <2>1 DEF ReserveCall
  <2>3. d = [c EXCEPT !.vno = v, !.no = b.no, !.start = b.no]
    BY <1>10, <2>1, Zenon
  <2> QED
    BY <1>4, <1>9, <2>2, <2>3, Zenon DEF ReserveCall
<1>12. PICK R : R = Taken
  BY Zenon
<1>13. \A r \in R : r.no \in Blk /\ r.n \in 1 .. BlockCount
  BY <1>12, ClaimsIs, ClaimTypes, Zenon
<1>14. Between(b.no, idx.blocks, Taken)
  BY <1>5, <1>8, <1>12, <1>13, BetweenHere, Zenon
<1>15. Go(p, d) /\ wlock' = p
  BY <1>2, <1>6, <1>7, <1>10, Zenon
<1> QED
  BY <1>2, <1>4, <1>6, <1>11, <1>14, <1>15, SearchStep, Zenon

LEMMA NoClaimsYet ==
  ASSUME NEW p \in Proc, proc[p].pc \notin {"commit", "init"},
         \A h \in Handle : Owner[h] = p => ~(obj[h].open /\ ~obj[h].rdonly),
         NEW r \in Claims
  PROVE  r.p # p
<1>1. CASE \E h \in Handle : /\ obj[h].open /\ ~obj[h].rdonly
                             /\ r = [p |-> Owner[h], no |-> obj[h].no, n |-> obj[h].count]
  <2>1. PICK h \in Handle : /\ obj[h].open /\ ~obj[h].rdonly
                            /\ r = [p |-> Owner[h], no |-> obj[h].no, n |-> obj[h].count]
    BY <1>1, Zenon
  <2>2. r.p = Owner[h]
    BY <2>1
  <2> QED
    BY <2>1, <2>2, Zenon
<1>2. CASE \E q \in Proc : /\ proc[q].pc \in {"commit", "init"}
                           /\ r = [p |-> q, no |-> Slot(proc[q].vno), n |-> proc[q].n]
  <2>1. PICK q \in Proc : /\ proc[q].pc \in {"commit", "init"}
                          /\ r = [p |-> q, no |-> Slot(proc[q].vno), n |-> proc[q].n]
    BY <1>2, Zenon
  <2>2. r.p = q
    BY <2>1
  <2> QED
    BY <2>1, <2>2, Zenon
<1>3. CASE r \in Taken
  BY <1>1, <1>2, <1>3, TakenIs, Zenon
<1> QED
  BY <1>2, <1>3, ClaimsIs, Zenon

(* What the granted lock covers is not taken. *)
LEMMA GrantedApart ==
  ASSUME CacheInv, NEW p \in Proc, NEW S, CanLock(p, "ex", S), NEW r \in Claims, r.p # p
  PROVE  Span(r.no, r.n) \cap S = {}
<1>1. ASSUME NEW b \in Span(r.no, r.n), b \in S PROVE FALSE
  <2>1. r.p \in Proc /\ lck[r.p][b] = "ex"
    BY <1>1, ClaimTypes, Zenon
  <2> QED
    BY <1>1, <2>1, Zenon DEF CanLock
<1> QED
  BY <1>1, Zenon

(* The index that the range of c is cleared for. *)
LEMMA ClearedIs ==
  ASSUME NEW c \in ReserveCall
  PROVE  LET i == c.txn
             D == Replaced(i.blocks, c.no, c.no + c.n)
             j == [ClearedFor(c) EXCEPT !.vno = c.vno + c.n]
         IN  /\ j \in Index /\ j.vno = c.vno + c.n /\ j.blocks = i.blocks \ D /\ j.keys \subseteq i.keys
             /\ \A e \in j.keys, b \in D : ~(e.key = slab[b.no].hdr.key /\ Slot(e.vno) = b.no)
<1>1. PICK i, D : i = c.txn /\ D = Replaced(i.blocks, c.no, c.no + c.n)
  BY Zenon
<1>2. PICK v : v = c.vno + c.n
  BY Zenon
<1>3. i \in Index /\ v \in Nat
  BY <1>1, <1>2 DEF ReserveCall
<1>4. PICK K : K = {e \in i.keys : \A b \in D : ~(e.key = slab[b.no].hdr.key /\ Slot(e.vno) = b.no)}
  BY Zenon
<1>5. ClearedFor(c) = [i EXCEPT !.blocks = @ \ D, !.keys = K]
  BY <1>1, <1>4, Zenon DEF ClearedFor, WithoutObjects
<1>6. PICK j : j = [ClearedFor(c) EXCEPT !.vno = v]
  BY Zenon
<1>7. K \subseteq i.keys
  BY <1>4, Zenon
<1>8. j \in Index /\ j.vno = v /\ j.blocks = i.blocks \ D /\ j.keys = K
  BY <1>3, <1>5, <1>6, <1>7, Zenon DEF Index
<1> QED
  BY <1>1, <1>2, <1>4, <1>6, <1>7, <1>8, Zenon

(* The index fits around the range of c once it is cleared for it. *)
LEMMA TakeFits ==
  ASSUME CacheInv, NEW p \in Proc, NEW c \in ReserveCall, c.txn = idx,
         Slot(c.vno) = c.no, c.no + c.n <= BlockCount, CanLock(p, "ex", Span(c.no, c.n)),
         \A b \in idx.blocks : ~Inside(c.no, b.no, b.count), \A r \in Claims : r.p # p,
         NEW j, j = [ClearedFor(c) EXCEPT !.vno = c.vno + c.n], NEW r, r.no = c.no, r.n = c.n
  PROVE  j \in Index /\ j.keys \subseteq idx.keys /\ Fits(j, slab, Taken \cup {r})
<1>1. c.no \in Blk /\ c.n \in 1 .. BlockCount /\ c.vno \in Nat /\ c.n \in Nat
  BY DEF ReserveCall
<1>2. PICK D : D = Replaced(idx.blocks, c.no, c.no + c.n)
  BY Zenon
<1>3. /\ j \in Index /\ j.vno = c.vno + c.n /\ j.blocks = idx.blocks \ D /\ j.keys \subseteq idx.keys
      /\ \A e \in j.keys, b \in D : ~(e.key = slab[b.no].hdr.key /\ Slot(e.vno) = b.no)
  BY <1>2, ClearedIs, Zenon
<1>4. Slot(j.vno) = IF c.no + c.n = BlockCount THEN 0 ELSE c.no + c.n
  <2>1. PICK v \in Nat, n \in Nat : v = c.vno /\ n = c.n
    BY <1>1, Zenon
  <2>2. Slot(v) = c.no /\ Slot(v) + n <= BlockCount
    BY <2>1, Zenon
  <2>3. Slot(v + n) = IF Slot(v) + n = BlockCount THEN 0 ELSE Slot(v) + n
    BY <2>2, SlotAfter, Zenon
  <2> QED
    BY <1>3, <2>1, <2>2, <2>3, Zenon
<1>5. Fits(idx, slab, Taken) /\ idx \in Index
  BY Zenon DEF CacheInv, Common, Fits
<1>6. ASSUME NEW q \in Taken
      PROVE  /\ q.no \in Blk /\ q.n \in 1 .. BlockCount /\ q.no + q.n <= BlockCount
             /\ Span(q.no, q.n) \cap Span(c.no, c.n) = {}
  <2>1. q \in Claims /\ q.p # p
    BY <1>6, ClaimsIs, Zenon
  <2>2. PICK S : S = Span(c.no, c.n)
    BY Zenon
  <2>3. Span(q.no, q.n) \cap S = {}
    BY <2>1, <2>2, GrantedApart, Zenon
  <2> QED
    BY <2>1, <2>2, <2>3, ClaimTypes, Zenon
<1>7. PICK R : R = Taken
  BY Zenon
<1>8. PICK no \in Blk, n \in 1 .. BlockCount : no = c.no /\ n = c.n
  BY <1>1, Zenon
<1>9. Fits(j, slab, R \cup {r})
  <2>1. Cleared(idx, j, no, n)
    BY <1>2, <1>3, <1>4, <1>8, Zenon DEF Cleared
  <2>2. Apart(R, no, n)
    BY <1>6, <1>7, <1>8, Zenon DEF Apart
  <2>3. /\ no + n <= BlockCount /\ r.no = no /\ r.n = n /\ Fits(idx, slab, R)
        /\ \A b \in idx.blocks : ~Inside(no, b.no, b.count)
    BY <1>5, <1>7, <1>8, Zenon
  <2> QED
    BY <1>5, <2>1, <2>2, <2>3, ClearedFits, Zenon
<1> QED
  BY <1>3, <1>7, <1>9, Zenon

LEMMA ReserveTakeStep ==
  ASSUME Separate, CacheInv, InStep, NEW p \in Proc, ReserveTake(p)
  PROVE  Kept
<1>1. proc[p].pc = "reserve"
  BY Zenon DEF ReserveTake
<1>2. /\ proc[p] \in ReserveCall /\ Owner[proc[p].h] = p /\ ~obj[proc[p].h].open /\ wlock = p
      /\ proc[p].txn = idx /\ proc[p].start = proc[p].no /\ idx.xid < MaxXid
      /\ Slot(proc[p].vno) = proc[p].no /\ Between(proc[p].no, idx.blocks, Taken)
  BY <1>1, Zenon DEF CacheInv, Mine, Call, Pending, Opening, Changing, InStep
<1>3. PICK c : c = Wrapped(proc[p])
  BY Zenon
<1>4. /\ c \in ReserveCall /\ c.h = proc[p].h /\ c.txn = idx /\ c.start = c.no
      /\ Slot(c.vno) = c.no /\ c.no \in {0, proc[p].no} /\ c.no + c.n <= BlockCount
  BY <1>2, <1>3, WrappedIs, Zenon
<1>5. PICK j : j = [ClearedFor(c) EXCEPT !.vno = c.vno + c.n]
  BY Zenon
<1>6. PICK d : d = [pc |-> "commit", h |-> c.h, key |-> c.key, n |-> c.n, vno |-> c.vno, txn |-> j]
  BY Zenon
<1>7. /\ slab' = slab /\ idx' = idx /\ wlock' = wlock /\ obj' = obj /\ now' = now /\ load' = load
      /\ Go(p, d) /\ CanLock(p, "ex", Span(c.no, c.n))
  BY <1>3, <1>4, <1>5, <1>6, Zenon DEF ReserveTake
<1>8. c.h \in Handle
  BY <1>4 DEF ReserveCall
<1>9. \A r \in Claims : r.p # p
  <2>1. \A h \in Handle : Owner[h] = p => ~(obj[h].open /\ ~obj[h].rdonly)
    BY <1>2, <1>4, <1>8, Zenon DEF Separate
  <2> QED
    BY <1>1, <2>1, NoClaimsYet, Zenon
<1>10. \A b \in idx.blocks : ~Inside(c.no, b.no, b.count)
  <2>1. CASE c.no = proc[p].no
    BY <1>2, <2>1, Zenon DEF Between
  <2>2. CASE c.no = 0
    <3>1. idx \in Index
      BY Zenon DEF CacheInv, Common, Fits
    <3>2. Between(0, idx.blocks, {})
      BY <3>1, BetweenAtZero, Zenon
    <3> QED
      BY <2>2, <3>2, Zenon DEF Between
  <2> QED
    BY <1>4, <2>1, <2>2, Zenon
<1>11. PICK r : r = [p |-> p, no |-> c.no, n |-> c.n]
  BY Zenon
<1>12. r.p = p /\ r.no = c.no /\ r.n = c.n
  BY <1>11
<1>13. j \in Index /\ j.keys \subseteq idx.keys /\ Fits(j, slab, Taken \cup {r})
  BY <1>4, <1>5, <1>7, <1>9, <1>10, <1>12, TakeFits, Zenon
<1>14. d \in CommitCall /\ d.pc = "commit" /\ d.h = c.h /\ d.vno = c.vno /\ d.n = c.n /\ d.txn = j
  BY <1>4, <1>6, <1>13 DEF ReserveCall, CommitCall
<1>15. DOMAIN proc' = Proc /\ proc'[p] = d /\ \A q \in Proc : q # p => proc'[q] = proc[q]
  BY <1>7, GoIs, Zenon
<1>16. LocksOf(p) /\ \A b \in Span(c.no, c.n) : lck'[p][b] = "ex"
  <2>1. PICK S : S = Span(c.no, c.n)
    BY Zenon
  <2>2. lck' = Locked(p, "ex", S) /\ CanLock(p, "ex", S) /\ "ex" \in {"un", "sh", "ex"}
    BY <1>3, <1>4, <2>1, Zenon DEF ReserveTake
  <2>3. LocksOf(p) /\ \A b \in Blk : b \in S => lck'[p][b] = "ex"
    BY <2>2, Relocked, Zenon
  <2> QED
    BY <2>1, <2>3, Zenon DEF Span
<1>17. Frame(p)
  BY <1>7, <1>15, <1>16, Zenon DEF Frame, LocksOf, CacheInv, Common
<1>18. Guarded(p)
  BY <1>2, <1>7, Zenon DEF Guarded, SameIn
<1>19. ASSUME NEW x \in Taken' PROVE x \in Taken
  <2>1. proc'[p].pc # "init"
    BY <1>14, <1>15, Zenon
  <2>2. Taken' \subseteq Taken
    BY <1>7, <1>17, <2>1, NoNewTaken, Zenon
  <2> QED
    BY <1>19, <2>2, Zenon
<1>20. ASSUME NEW x \in Claims' PROVE x \in Taken \cup {r}
  <2>1. ASSUME NEW q \in Proc, proc'[q].pc = "commit",
               x = [p |-> q, no |-> Slot(proc'[q].vno), n |-> proc'[q].n]
        PROVE  x = r
    <3>1. q = p
      <4>1. ASSUME q # p PROVE wlock = q
        BY <1>15, <2>1, <4>1, Zenon DEF CacheInv, Mine, Call, Changing
      <4> QED
        BY <1>2, <4>1, Zenon
    <3> QED
      BY <1>4, <1>11, <1>14, <1>15, <2>1, <3>1, Zenon
  <2> QED
    BY <1>19, <1>20, <2>1, ClaimsIsNext, Zenon
<1>21. Call(p)'
  BY <1>2, <1>4, <1>7, <1>8, <1>14, <1>15, Zenon DEF Call
<1>22. Pending(p)'
  <2>1. PICK R, Q : R = Taken \cup {r} /\ Q = Claims'
    BY Zenon
  <2>2. Q \subseteq R
    BY <1>20, <2>1, Zenon
  <2>3. Fits(j, slab, Q)
    BY <1>13, <2>1, <2>2, FitsFewer, Zenon
  <2>4. Fits(d.txn, slab', Claims')
    BY <1>7, <1>14, <2>1, <2>3, Zenon
  <2> QED
    BY <1>2, <1>7, <1>13, <1>14, <1>15, <2>4, Zenon DEF Pending
<1>23. ASSUME NEW x \in Claims', x.p = p
       PROVE  x.no + x.n <= BlockCount /\ \A b \in Span(x.no, x.n) : lck'[p][b] = "ex"
  <2>1. x = r
    BY <1>9, <1>20, <1>23, ClaimsIs, Zenon
  <2> QED
    BY <1>4, <1>12, <1>16, <2>1, Zenon
<1>24. ASSUME NEW h \in Handle, Owner[h] = p PROVE Object(h)'
  BY <1>7, <1>24, Zenon DEF CacheInv, Mine, Object
<1>25. Mine(p)'
  BY <1>21, <1>22, <1>23, <1>24, Zenon DEF Mine
<1>26. slab' \in [Blk -> Block]
  BY <1>7, Zenon DEF CacheInv, Common
<1> QED
  BY <1>7, <1>16, <1>17, <1>18, <1>19, <1>25, <1>26, StepOf, Zenon

LEMMA CreateCommitStep ==
  ASSUME Separate, CacheInv, NEW p \in Proc, CreateCommit(p)
  PROVE  Kept
<1>1. PICK c : c = proc[p]
  BY Zenon
<1>2. PICK x, d : x = idx.xid + 1 /\ d = [c EXCEPT !.pc = "init", !.txn = x]
  BY Zenon
<1>3. /\ slab' = slab /\ lck' = lck /\ obj' = obj /\ now' = now /\ load' = load
      /\ c.pc = "commit" /\ Go(p, d)
      /\ idx' = [c.txn EXCEPT !.xid = @ + 1] /\ wlock' = NoProc
  BY <1>1, <1>2, Zenon DEF CreateCommit, Commit
<1>4. /\ wlock = p /\ Fits(c.txn, slab, Claims) /\ idx.xid < MaxXid /\ c \in CommitCall
      /\ c.h \in Handle /\ Owner[c.h] = p /\ ~obj[c.h].open
  BY <1>1, <1>3, Zenon DEF CacheInv, Mine, Call, Pending, Opening, Changing
<1>5. x \in 0 .. MaxXid
  <2>1. idx.xid \in Nat
    BY DEF CacheInv, Common, Fits, Index
  <2> QED
    BY <1>2, <1>4, <2>1, BlockAssumption
<1>6. d \in InitCall /\ d.pc = "init" /\ d.h = c.h /\ d.vno = c.vno /\ d.n = c.n
  BY <1>2, <1>4, <1>5, Zenon DEF CommitCall, InitCall
<1>7. DOMAIN proc' = Proc /\ proc'[p] = d /\ \A q \in Proc : q # p => proc'[q] = proc[q]
  BY <1>3, GoIs, Zenon
<1>8. LocksOf(p) /\ DOMAIN obj' = Handle
  BY <1>3, LocksKept, Zenon DEF CacheInv, Common
<1>9. Frame(p)
  BY <1>3, <1>7, <1>8, Zenon DEF Frame, LocksOf
<1>10. ASSUME NEW r \in Claims' PROVE r \in Claims
  <2>1. ASSUME NEW q \in Proc, proc'[q].pc \in {"init", "commit"},
               r = [p |-> q, no |-> Slot(proc'[q].vno), n |-> proc'[q].n]
        PROVE  r \in Claims
    <3>1. /\ proc[q].pc \in {"init", "commit"}
          /\ r = [p |-> q, no |-> Slot(proc[q].vno), n |-> proc[q].n]
      BY <1>1, <1>3, <1>6, <1>7, <2>1, Zenon
    <3> QED
      BY <3>1, TakenIs, ClaimsIs, Zenon
  <2>2. ASSUME NEW h \in Handle, obj'[h].open, ~obj'[h].rdonly,
               r = [p |-> Owner[h], no |-> obj'[h].no, n |-> obj'[h].count]
        PROVE  r \in Claims
    BY <1>3, <2>2, TakenIs, ClaimsIs, Zenon
  <2>3. CASE r \in Taken'
    BY <2>1, <2>2, <2>3, TakenIsNext, Zenon
  <2> QED
    BY <1>10, <2>1, <2>3, ClaimsIsNext, Zenon
<1>11. Guarded(p)
  BY <1>3, <1>4, Zenon DEF Guarded, SameIn
<1>12. Fits(idx', slab', Taken')
  <2>1. PICK j, i, R, Q : j = idx' /\ i = c.txn /\ R = Claims /\ Q = Taken'
    BY Zenon
  <2>2. Fits(i, slab, R) /\ j = [i EXCEPT !.xid = @ + 1]
    BY <1>3, <1>4, <2>1, Zenon
  <2>3. Q \subseteq R
    BY <1>10, <2>1, ClaimsIsNext, Zenon
  <2>4. Fits(j, slab, Q)
    BY <2>2, <2>3, NewXid, FitsFewer, Zenon
  <2> QED
    BY <1>3, <2>1, <2>4, Zenon
<1>13. Mine(p) /\ slab' \in [Blk -> Block]
  BY <1>3, Zenon DEF CacheInv, Common
<1>14. Call(p)'
  BY <1>3, <1>4, <1>6, <1>7, Zenon DEF Call, Changing
<1>15. Pending(p)'
  BY <1>6, <1>7, Zenon DEF Pending
<1>16. ASSUME NEW y \in Claims', y.p = p
       PROVE  y.no + y.n <= BlockCount /\ \A b \in Span(y.no, y.n) : lck'[p][b] = "ex"
  BY <1>3, <1>10, <1>13, <1>16, Zenon DEF Mine
<1>17. ASSUME NEW h \in Handle, Owner[h] = p PROVE Object(h)'
  BY <1>3, <1>13, <1>17, Zenon DEF Mine, Object
<1>18. Mine(p)'
  BY <1>14, <1>15, <1>16, <1>17, Zenon DEF Mine
<1> QED
  BY <1>8, <1>9, <1>11, <1>12, <1>13, <1>18, StepOf, Zenon

LEMMA CreateInitStep ==
  ASSUME Separate, CacheInv, NEW p \in Proc, CreateInit(p)
  PROVE  Kept
<1>1. PICK c, no, h : c = proc[p] /\ no = Slot(c.vno) /\ h = c.h
  BY Zenon
<1>2. PICK H, o : /\ H = [key |-> c.key, val |-> c.txn, count |-> c.n,
                          exp |-> ED_TIME_DELETE, xid |-> 0, crc |-> 0]
                  /\ o = [open |-> TRUE, rdonly |-> FALSE, key |-> c.key, vno |-> c.vno, no |-> no,
                          count |-> c.n, val |-> c.txn, exp |-> ED_TIME_INF, seek |-> 0]
  BY Zenon
<1>3. /\ c.pc = "init" /\ Go(p, Idle) /\ slab' = [slab EXCEPT ![no].hdr = H]
      /\ obj' = [obj EXCEPT ![h] = o]
  BY <1>1, <1>2, Zenon DEF CreateInit
<1>4. lck' = lck /\ idx' = idx /\ wlock' = wlock /\ now' = now /\ load' = load
  BY Zenon DEF CreateInit
<1>5. c \in InitCall /\ h \in Handle /\ Owner[h] = p /\ ~obj[h].open
  BY <1>1, <1>3, Zenon DEF CacheInv, Mine, Call, Opening
<1>6. c.key \in Key /\ c.n \in 1 .. BlockCount /\ c.vno \in Nat /\ c.txn \in 0 .. MaxXid
  BY <1>5, Zenon DEF InitCall
<1>7. no \in Blk /\ c.n \in Nat /\ 0 <= c.n /\ 0 # c.n
  BY <1>1, <1>6, SlotInBlk
<1>8. DOMAIN proc' = Proc /\ proc'[p].pc = "idle" /\ \A q \in Proc : q # p => proc'[q] = proc[q]
  BY <1>3, GoIs, IdleIs, Zenon
<1>9. DOMAIN obj' = Handle /\ obj'[h] = o /\ \A g \in Handle : g # h => obj'[g] = obj[g]
  BY <1>3, <1>5, ObjIs, Zenon
<1>10. LocksOf(p)
  BY <1>4, LocksKept, Zenon
<1>11. Frame(p)
  BY <1>4, <1>5, <1>8, <1>9, <1>10, Zenon DEF Frame, LocksOf
<1>12. slab \in [Blk -> Block] /\ Mine(p)
  BY Zenon DEF CacheInv, Common
<1>13. /\ H.key = c.key /\ H.val = c.txn /\ H.count = c.n
       /\ H \in [key : Key \cup {NoKey}, val : 0 .. MaxXid, count : Nat, exp : Int, xid : Nat, crc : Nat]
  BY <1>2, <1>6, <1>7, TimesIn, Zenon
<1>14. slab' \in [Blk -> Block] /\ slab'[no].hdr = H /\ \A b \in Blk : b # no => slab'[b] = slab[b]
  BY <1>3, <1>7, <1>12, <1>13, Zenon DEF Block
<1>15. /\ o \in WriteObj /\ o.key = c.key /\ o.val = c.txn /\ o.count = c.n /\ o.no = no
       /\ o.vno = c.vno /\ o.seek = 0 /\ o.open /\ ~o.rdonly
  BY <1>2, <1>6, <1>7, TimesIn DEF WriteObj
<1>16. PICK r : r = [p |-> p, no |-> no, n |-> c.n]
  BY Zenon
<1>17. r \in Taken
  BY <1>1, <1>3, <1>16, TakenIs, Zenon
<1>18. r.p = p /\ r.no = no /\ r.n = c.n
  BY <1>16
<1>19. ASSUME NEW x \in Taken' PROVE x \in Taken
  <2>1. ASSUME NEW g \in Handle, obj'[g].open, ~obj'[g].rdonly,
               x = [p |-> Owner[g], no |-> obj'[g].no, n |-> obj'[g].count]
        PROVE  x \in Taken
    <3>1. CASE g = h
      BY <1>5, <1>9, <1>15, <1>16, <1>17, <2>1, <3>1, Zenon
    <3>2. CASE g # h
      BY <1>9, <2>1, <3>2, TakenIs, Zenon
    <3> QED
      BY <3>1, <3>2, Zenon
  <2>2. ASSUME NEW q \in Proc, proc'[q].pc = "init",
               x = [p |-> q, no |-> Slot(proc'[q].vno), n |-> proc'[q].n]
        PROVE  x \in Taken
    BY <1>8, <2>2, TakenIs, Zenon
  <2> QED
    BY <1>19, <2>1, <2>2, TakenIsNext, Zenon
<1>20. ASSUME NEW x \in Claims' PROVE x \in Claims
  <2>1. ASSUME NEW q \in Proc, proc'[q].pc = "commit",
               x = [p |-> q, no |-> Slot(proc'[q].vno), n |-> proc'[q].n]
        PROVE  x \in Claims
    BY <1>8, <2>1, ClaimsIs, Zenon
  <2> QED
    BY <1>19, <1>20, <2>1, ClaimsIs, ClaimsIsNext, Zenon
<1>21. Guarded(p)
  <2>1. ASSUME NEW b \in Blk, ~SameIn(slab, slab', b) PROVE b \in Span(r.no, r.n)
    <3>1. b = no
      BY <1>14, <2>1, Zenon DEF SameIn
    <3> QED
      BY <1>6, <1>7, <1>18, <3>1, BlockAssumption DEF Span, Blk
  <2>2. Taken' \subseteq Taken /\ Claims' \subseteq Claims
    BY <1>19, <1>20, Zenon
  <2> QED
    BY <1>4, <1>17, <1>18, <2>1, <2>2, Zenon DEF Guarded
<1>22. HasPart(slab', o)
  <2>1. \A b : b \notin Span(no, 0)
    BY <1>7, BlockAssumption DEF Span, Blk
  <2> QED
    BY <1>1, <1>7, <1>13, <1>14, <1>15, <2>1, Zenon DEF HasPart
<1>23. Call(p)' /\ Pending(p)'
  BY <1>8, Zenon DEF Call, Pending, Opening, Changing
<1>24. ASSUME NEW x \in Claims', x.p = p
       PROVE  x.no + x.n <= BlockCount /\ \A b \in Span(x.no, x.n) : lck'[p][b] = "ex"
  BY <1>4, <1>12, <1>20, <1>24, Zenon DEF Mine
<1>25. ASSUME NEW g \in Handle, Owner[g] = p PROVE Object(g)'
  <2>1. g = h
    BY <1>5, <1>25, Zenon DEF Separate
  <2> QED
    BY <1>9, <1>15, <1>22, <2>1, Zenon DEF Object
<1>26. Mine(p)'
  BY <1>23, <1>24, <1>25, Zenon DEF Mine
<1>27. Taken' \subseteq Taken
  BY <1>19, Zenon
<1> QED
  BY <1>4, <1>10, <1>11, <1>14, <1>21, <1>26, <1>27, StepOf, Zenon

-----------------------------------------------------------------------------
(* What writing, closing and updating objects changes. *)

(* Index j is i with the entries x and e of object o. *)
Entered(i, j, o, x, e) ==
  /\ j \in Index /\ j.vno = i.vno
  /\ x.no = o.no /\ x.count = o.count
  /\ e.key = o.key /\ e.vno = o.vno /\ e.count = o.count /\ e.exp = o.exp
  /\ j.blocks = {b \in i.blocks : b.no # o.no} \cup {x}
  /\ j.keys = {f \in i.keys : f.key # o.key} \cup {e}

(* What a write stores. *)
Stores(o) ==
  /\ slab' \in [Blk -> Block]
  /\ \A b \in Blk : b # o.no /\ b # o.no + o.seek => slab'[b] = slab[b]
  /\ \A b \in Blk : b = o.no + o.seek => slab'[b].val = o.val
  /\ o.no # o.no + o.seek => slab'[o.no].val = slab[o.no].val
  /\ slab'[o.no].hdr.key = slab[o.no].hdr.key /\ slab'[o.no].hdr.val = slab[o.no].hdr.val
  /\ slab'[o.no].hdr.count = slab[o.no].hdr.count
  /\ o.seek + 1 = o.count => slab'[o.no].hdr.crc = o.val
  /\ \A b \in Blk : b # o.no /\ b = o.no + o.seek => slab'[b].hdr.count = 0

LEMMA WriteStores ==
  ASSUME NEW h, NEW o, o = obj[h], o \in WriteObj, Write(h), slab \in [Blk -> Block]
  PROVE  Stores(o)
<1>1. PICK no, val, at, last : no = o.no /\ val = o.val /\ at = o.no + o.seek /\ last = (o.seek + 1 = o.count)
  BY Zenon
<1>2. no \in Blk /\ val \in Nat /\ val \in 0 .. MaxXid
  <2>1. o.no \in Blk /\ o.val \in 0 .. MaxXid
    BY Zenon DEF WriteObj
  <2>2. \A v \in 0 .. MaxXid : v \in Nat
    BY BlockAssumption
  <2> QED
    BY <1>1, <2>1, <2>2, Zenon
<1>3. slab' = [b \in Blk |->
                 IF b = no
                 THEN [(IF b = at THEN [hdr |-> IF b = no THEN slab[b].hdr ELSE NoHdr, val |-> val] ELSE slab[b])
                         EXCEPT !.hdr.crc = IF last THEN val ELSE @]
                 ELSE IF b = at THEN [hdr |-> IF b = no THEN slab[b].hdr ELSE NoHdr, val |-> val] ELSE slab[b]]
  BY <1>1, Zenon DEF Write
<1>4. ASSUME NEW b \in Blk, b # no, b # at PROVE slab'[b] = slab[b]
  BY <1>3, <1>4, Zenon
<1>5. ASSUME NEW b \in Blk, b # no, b = at PROVE slab'[b] = [hdr |-> NoHdr, val |-> val]
  BY <1>3, <1>5, Zenon
<1>6. PICK blk : blk = IF no = at THEN [hdr |-> slab[no].hdr, val |-> val] ELSE slab[no]
  BY Zenon
<1>7. slab'[no] = [blk EXCEPT !.hdr.crc = IF last THEN val ELSE @]
  <2>1. slab'[no] = [(IF no = at THEN [hdr |-> IF no = no THEN slab[no].hdr ELSE NoHdr, val |-> val] ELSE slab[no])
                       EXCEPT !.hdr.crc = IF last THEN val ELSE @]
    BY <1>2, <1>3, Zenon
  <2>2. (IF no = at THEN [hdr |-> IF no = no THEN slab[no].hdr ELSE NoHdr, val |-> val] ELSE slab[no]) = blk
    BY <1>6, Zenon
  <2> QED
    BY <2>1, <2>2, Zenon
<1>8. blk \in Block /\ blk.hdr = slab[no].hdr /\ (no = at => blk.val = val) /\ (no # at => blk = slab[no])
  <2>1. slab[no] \in Block
    BY <1>2, Zenon
  <2>2. CASE no = at
    <3>1. blk = [hdr |-> slab[no].hdr, val |-> val]
      BY <1>6, <2>2, Zenon
    <3> QED
      BY <1>2, <2>1, <2>2, <3>1 DEF Block
  <2>3. CASE no # at
    BY <1>6, <2>1, <2>3, Zenon
  <2> QED
    BY <2>2, <2>3, Zenon
<1>9. PICK crc : crc = IF last THEN val ELSE blk.hdr.crc
  BY Zenon
<1>10. crc \in Nat
  <2>1. blk.hdr.crc \in Nat
    BY <1>8 DEF Block
  <2> QED
    BY <1>2, <1>9, <2>1, Zenon
<1>11. PICK H : H = blk.hdr
  BY Zenon
<1>12. /\ H \in [key : Key \cup {NoKey}, val : 0 .. MaxXid, count : Nat, exp : Int, xid : Nat, crc : Nat]
       /\ blk.val \in Nat
  BY <1>8, <1>11, Zenon DEF Block
<1>13. PICK G : G = [H EXCEPT !.crc = crc]
  BY Zenon
<1>14. /\ G \in [key : Key \cup {NoKey}, val : 0 .. MaxXid, count : Nat, exp : Int, xid : Nat, crc : Nat]
       /\ G.key = H.key /\ G.val = H.val /\ G.count = H.count /\ G.crc = crc
  BY <1>10, <1>12, <1>13, Zenon
<1>15. slab'[no] = [blk EXCEPT !.hdr = G]
  BY <1>7, <1>8, <1>9, <1>11, <1>13 DEF Block
<1>16. slab'[no] \in Block /\ slab'[no].hdr = G /\ slab'[no].val = blk.val
  BY <1>8, <1>12, <1>14, <1>15, Zenon DEF Block
<1>17. [hdr |-> NoHdr, val |-> val] \in Block
  BY <1>2, TimesIn, BlockAssumption DEF Block, NoHdr
<1>18. ASSUME NEW b \in Blk PROVE slab'[b] \in Block
  <2>1. slab[b] \in Block
    BY Zenon
  <2> QED
    BY <1>4, <1>5, <1>16, <1>17, <2>1, Zenon
<1>19. slab' \in [Blk -> Block]
  BY <1>3, <1>18, Zenon
<1>20. ASSUME NEW b \in Blk, b = at PROVE slab'[b].val = val
  <2>1. [hdr |-> NoHdr, val |-> val].val = val
    OBVIOUS
  <2>2. CASE b = no
    BY <1>8, <1>16, <1>20, <2>2, Zenon
  <2>3. CASE b # no
    BY <1>5, <1>20, <2>1, <2>3, Zenon
  <2> QED
    BY <2>2, <2>3, Zenon
<1>21. no # at => slab'[no].val = slab[no].val
  BY <1>8, <1>16, Zenon
<1>22. /\ slab'[no].hdr.key = slab[no].hdr.key /\ slab'[no].hdr.val = slab[no].hdr.val
       /\ slab'[no].hdr.count = slab[no].hdr.count /\ (last => slab'[no].hdr.crc = val)
  BY <1>8, <1>9, <1>11, <1>14, <1>16, Zenon
<1>23. ASSUME NEW b \in Blk, b # no, b = at PROVE slab'[b].hdr.count = 0
  <2>1. [hdr |-> NoHdr, val |-> val].hdr.count = 0
    BY DEF NoHdr
  <2> QED
    BY <1>5, <1>23, <2>1, Zenon
<1> QED
  BY <1>1, <1>4, <1>19, <1>20, <1>21, <1>22, <1>23, Zenon DEF Stores

Alike(B, t) ==
  /\ t.val = B.val /\ t.hdr.key = B.hdr.key /\ t.hdr.val = B.hdr.val
  /\ t.hdr.count = B.hdr.count /\ t.hdr.crc = B.hdr.crc

(* The expiry and the id in a header are not looked at here. *)
LEMMA OtherExpiry ==
  ASSUME NEW B \in Block, NEW x \in Int, NEW y \in Nat,
         NEW t, t = [B EXCEPT !.hdr.exp = x] \/ t = [B EXCEPT !.hdr.exp = x, !.hdr.xid = y]
  PROVE  t \in Block /\ Alike(B, t)
<1>2. PICK H : H = B.hdr
  BY Zenon
<1>3. /\ H \in [key : Key \cup {NoKey}, val : 0 .. MaxXid, count : Nat, exp : Int, xid : Nat, crc : Nat]
      /\ B.val \in Nat
  BY <1>2, Zenon DEF Block
<1>4. PICK G : /\ G = [H EXCEPT !.exp = x] \/ G = [H EXCEPT !.exp = x, !.xid = y]
               /\ t = [B EXCEPT !.hdr = G]
  BY <1>2, Zenon DEF Block
<1>5. /\ G \in [key : Key \cup {NoKey}, val : 0 .. MaxXid, count : Nat, exp : Int, xid : Nat, crc : Nat]
      /\ G.key = H.key /\ G.val = H.val /\ G.count = H.count /\ G.crc = H.crc
  <2>1. CASE G = [H EXCEPT !.exp = x]
    BY <1>3, <2>1, Zenon
  <2>2. CASE G = [H EXCEPT !.exp = x, !.xid = y]
    BY <1>3, <2>2, Zenon
  <2> QED
    BY <1>4, <2>1, <2>2, Zenon
<1>6. t \in Block /\ t.hdr = G /\ t.val = B.val
  BY <1>3, <1>4, <1>5, Zenon DEF Block
<1> QED
  BY <1>2, <1>5, <1>6, Zenon DEF Alike

LEMMA FinishedSame ==
  ASSUME NEW o, NEW old, slab \in [Blk -> Block], o.exp \in Int, idx.xid + 1 \in Nat,
         NEW t, t = Finished(o, old)
  PROVE  t \in [Blk -> Block] /\ \A b \in Blk : SameIn(slab, t, b)
<1>1. ASSUME NEW b \in Blk PROVE t[b] \in Block /\ SameIn(slab, t, b)
  <2>0. PICK B, d : B = slab[b] /\ d = t[b]
    BY Zenon
  <2>1. ASSUME NEW x \in Int, NEW y \in Nat,
               d = [B EXCEPT !.hdr.exp = x] \/ d = [B EXCEPT !.hdr.exp = x, !.hdr.xid = y]
        PROVE  t[b] \in Block /\ SameIn(slab, t, b)
    <3>3. B \in Block
      BY <2>0, Zenon
    <3>4. d \in Block /\ Alike(B, d)
      BY <2>1, <3>3, OtherExpiry, Zenon
    <3> QED
      BY <2>0, <3>4, Zenon DEF SameIn, Alike
  <2>2. CASE t[b] = slab[b]
    BY <2>2, Zenon DEF SameIn
  <2>3. \/ d = [B EXCEPT !.hdr.exp = o.exp, !.hdr.xid = idx.xid + 1]
        \/ d = [B EXCEPT !.hdr.exp = ED_TIME_DELETE]
        \/ t[b] = slab[b]
    BY <2>0, Zenon DEF Finished
  <2> QED
    BY <2>1, <2>2, <2>3, TimesIn, Zenon
<1>2. t = [b \in Blk |-> t[b]]
  BY Zenon DEF Finished
<1> QED
  BY <1>1, <1>2, Zenon

(* The key entries that ed_close and ed_update_ttl find. *)
LEMMA EntriesAre ==
  ASSUME CacheInv, NEW k, NEW e
  PROVE  e \in Entries(idx, k, k) <=> e \in idx.keys /\ e.key = k
<1>1. \A f \in idx.keys : slab[Slot(f.vno)].hdr.key = f.key
  BY Zenon DEF CacheInv, Common, Fits, Matches
<1> QED
  BY <1>1, Zenon DEF Entries, HasHdr

(* Neither ed_update_ttl nor ed_close touches more of an object than its expiry
   and its id. *)
LEMMA UpdateSame ==
  ASSUME CacheInv, NEW p, NEW k, NEW x \in Int, NEW restore, UpdateBegin(p, k, x, restore)
  PROVE  slab' \in [Blk -> Block] /\ \A b \in Blk : SameIn(slab, slab', b)
<1>1. PICK e \in idx.keys : slab' = WithExpiry(Slot(e.vno), x)
  BY Zenon DEF UpdateBegin, Entries
<1>2. idx \in Index /\ slab \in [Blk -> Block]
  BY Zenon DEF CacheInv, Common, Fits
<1>3. PICK no, B, d : no = Slot(e.vno) /\ B = slab[no] /\ d = [B EXCEPT !.hdr.exp = x]
  BY Zenon
<1>4. slab' = [slab EXCEPT ![no] = d]
  BY <1>1, <1>3, Zenon DEF WithExpiry
<1>5. B \in Block /\ no \in Blk /\ 0 \in Nat
  BY <1>2, <1>3, EntryTypes, Zenon
<1>6. d \in Block /\ Alike(B, d)
  BY <1>3, <1>5, OtherExpiry, Zenon
<1>7. slab' \in [Blk -> Block] /\ slab'[no] = d /\ \A b \in Blk : b # no => slab'[b] = slab[b]
  BY <1>2, <1>4, <1>5, <1>6, Zenon
<1> QED
  BY <1>3, <1>6, <1>7, Zenon DEF SameIn, Alike

LEMMA CloseSame ==
  ASSUME CacheInv, NEW h \in Handle, CloseBegin(h)
  PROVE  slab' \in [Blk -> Block] /\ \A b \in Blk : SameIn(slab, slab', b)
<1>1. PICK o, t : o = obj[h] /\ t = slab'
  BY Zenon
<1>2. o \in WriteObj /\ slab \in [Blk -> Block] /\ idx \in Index
  BY <1>1, OwnerIn, Zenon DEF CacheInv, Common, Fits, Mine, Object, CloseBegin, Writing
<1>3. PICK old : t = Finished(o, old)
  BY <1>1, Zenon DEF CloseBegin
<1>4. o.exp \in Int
  BY <1>2, Zenon DEF WriteObj
<1>5. idx.xid + 1 \in Nat
  BY <1>2 DEF Index
<1>6. t \in [Blk -> Block] /\ \A b \in Blk : SameIn(slab, t, b)
  BY <1>2, <1>3, <1>4, <1>5, FinishedSame, Zenon
<1> QED
  BY <1>1, <1>6, Zenon

(* The index that ed_close is to commit. *)
LEMMA UpsertedIs ==
  ASSUME CacheInv, NEW o \in WriteObj, NEW old, old \subseteq Entries(idx, o.key, o.key),
         old = {} => Entries(idx, o.key, o.key) = {}
  PROVE  \E x, e : Entered(idx, Upserted(idx, o, o.key, old), o, x, e)
<1>1. idx \in Index /\ OneEach(idx)
  BY Zenon DEF CacheInv, Common, Fits
<1>2. \A f \in idx.keys : f \in old <=> f.key = o.key
  <2>1. ASSUME NEW f \in old PROVE f \in idx.keys /\ f.key = o.key
    BY <2>1, EntriesAre, Zenon
  <2>2. ASSUME NEW f \in idx.keys, f.key = o.key PROVE f \in old
    <3>1. PICK g : g \in old
      BY <2>2, EntriesAre, Zenon
    <3> QED
      BY <1>1, <2>1, <2>2, <3>1, Zenon DEF OneEach
  <2> QED
    BY <2>1, <2>2, Zenon
<1>3. PICK y : y = idx.xid + 1
  BY Zenon
<1>4. y \in Nat
  BY <1>1, <1>3 DEF Index
<1>5. PICK x, e : /\ x = [no |-> o.no, count |-> o.count, xid |-> y]
                  /\ e = [key |-> o.key, vno |-> o.vno, count |-> o.count, exp |-> o.exp]
  BY Zenon
<1>6. /\ x.no = o.no /\ x.count = o.count
      /\ e.key = o.key /\ e.vno = o.vno /\ e.count = o.count /\ e.exp = o.exp
      /\ x \in [no : Blk, count : Nat \ {0}, xid : Nat]
      /\ e \in [key : Key, vno : Nat, count : Nat \ {0}, exp : Int]
  BY <1>4, <1>5 DEF WriteObj
<1>7. PICK j : j = Upserted(idx, o, o.key, old)
  BY Zenon
<1>8. j = [idx EXCEPT !.blocks = {b \in @ : b.no # o.no} \cup {x}, !.keys = (@ \ old) \cup {e}]
  BY <1>3, <1>5, <1>7, Zenon DEF Upserted
<1>9. PICK C, K : C = {b \in idx.blocks : b.no # o.no} \cup {x} /\ K = (idx.keys \ old) \cup {e}
  BY Zenon
<1>10. /\ C \subseteq [no : Blk, count : Nat \ {0}, xid : Nat]
       /\ K \subseteq [key : Key, vno : Nat, count : Nat \ {0}, exp : Int]
  BY <1>1, <1>6, <1>9, Zenon DEF Index
<1>11. j = [idx EXCEPT !.blocks = C, !.keys = K]
  BY <1>8, <1>9, Zenon
<1>12. j \in Index /\ j.vno = idx.vno /\ j.blocks = C /\ j.keys = K
  BY <1>1, <1>10, <1>11, Zenon DEF Index
<1>13. K = {f \in idx.keys : f.key # o.key} \cup {e}
  BY <1>2, <1>9, Zenon
<1>14. Entered(idx, j, o, x, e)
  BY <1>6, <1>9, <1>12, <1>13, Zenon DEF Entered
<1> QED
  BY <1>7, <1>14, Zenon

=============================================================================
