---------------------------- MODULE CacheProofs -----------------------------
(***************************************************************************)
(* Proofs that writing, closing and updating objects keep the invariant of *)
(* the cache, and what follows: the index and the slab agree, blocks in use*)
(* are reserved, and the cache is a map from keys to values.               *)
(***************************************************************************)
EXTENDS CacheSteps

-----------------------------------------------------------------------------
(* What obj_upsert and ed_update_object change. *)

(* The finished object o, which was alone on the range of r, is entered. *)
LEMMA UpsertedFits ==
  ASSUME NEW i \in Index, NEW j, NEW s, NEW R, Fits(i, s, R),
         NEW o \in WriteObj, HasPart(s, o), o.seek = o.count, o.no + o.count <= BlockCount,
         NEW r \in R, r.no = o.no, r.n = o.count, NEW x, NEW e, Entered(i, j, o, x, e),
         NEW Q, Q \subseteq R, Apart(Q, o.no, o.count)
  PROVE  Fits(j, s, Q)
<1>0. /\ j \in Index /\ j.vno = i.vno
      /\ x.no = o.no /\ x.count = o.count /\ e.key = o.key /\ e.vno = o.vno /\ e.count = o.count
      /\ j.blocks = {b \in i.blocks : b.no # o.no} \cup {x}
      /\ j.keys = {f \in i.keys : f.key # o.key} \cup {e}
  BY Zenon DEF Entered
<1>1. o.no \in Blk /\ o.count \in 1 .. BlockCount
  BY Zenon DEF WriteObj
<1>2. ASSUME NEW b \in i.blocks PROVE b.no # o.no /\ ~Overlap(b, o.no, o.no + o.count)
  <2>1. ~Overlap(b, o.no, o.no + o.count)
    BY Zenon DEF Fits
  <2>2. b.no \in Blk /\ b.count \in Nat \ {0}
    BY EntryTypes, Zenon
  <2> QED
    BY <1>1, <2>1, <2>2, BlockAssumption DEF Overlap, Blk
<1>3. j.blocks = i.blocks \cup {x}
  BY <1>0, <1>2, Zenon
<1>4. Whole(s, o.no) /\ s[o.no].hdr.key = o.key /\ s[o.no].hdr.count = o.count /\ Slot(e.vno) = o.no
  BY <1>0, Zenon DEF HasPart, Whole
<1>5. ASSUME NEW f \in j.keys
      PROVE  /\ s[Slot(f.vno)].hdr.key = f.key /\ s[Slot(f.vno)].hdr.count = f.count
             /\ Whole(s, Slot(f.vno))
             /\ \E b \in j.blocks : b.no = Slot(f.vno) /\ b.count = f.count
  <2>1. CASE f = e
    BY <1>0, <1>3, <1>4, <2>1, Zenon
  <2>2. CASE f \in i.keys
    BY <1>3, <2>2, Zenon DEF Fits, Matches
  <2> QED
    BY <1>0, <1>5, <2>1, <2>2, Zenon
<1>6. ASSUME NEW b \in j.blocks, NEW c \in j.blocks, b # c PROVE ~Overlap(b, c.no, c.no + c.count)
  <2>1. CASE b \in i.blocks /\ c \in i.blocks
    BY <1>6, <2>1, Zenon DEF Fits, Matches
  <2>2. CASE b \in i.blocks /\ c = x
    BY <1>0, <1>2, <2>2, Zenon
  <2>3. CASE b = x /\ c \in i.blocks
    <3>1. ~Overlap(c, o.no, o.no + o.count) /\ c.no \in Blk /\ c.count \in Nat \ {0}
      BY <1>2, <2>3, EntryTypes, Zenon
    <3> QED
      BY <1>0, <1>1, <2>3, <3>1, BlockAssumption DEF Overlap, Blk
  <2> QED
    BY <1>3, <1>6, <2>1, <2>2, <2>3, Zenon
<1>7. Matches(j, s)
  BY <1>5, <1>6, Zenon DEF Matches
<1>8. OneEach(j)
  BY <1>0, Zenon DEF OneEach, Fits
<1>9. ASSUME NEW q \in Q PROVE ~Overlap(x, q.no, q.no + q.n)
  <2>1. /\ q.no \in Blk /\ q.n \in 1 .. BlockCount /\ q.no + q.n <= BlockCount
        /\ Span(q.no, q.n) \cap Span(o.no, o.count) = {}
    BY <1>9, Zenon DEF Apart
  <2>2. q.no + q.n <= o.no \/ o.no + o.count <= q.no
    BY <1>1, <2>1, ApartSpans
  <2> QED
    BY <1>0, <1>1, <2>1, <2>2, BlockAssumption DEF Overlap, Blk
<1>10. Between(Slot(j.vno), j.blocks, Q)
  <2>1. ~Inside(Slot(i.vno), o.no, o.count) /\ Between(Slot(i.vno), i.blocks, R)
    BY Zenon DEF Fits, Between
  <2> QED
    BY <1>0, <1>3, <2>1, Zenon DEF Between
<1>11. \A b \in j.blocks, q \in Q : ~Overlap(b, q.no, q.no + q.n)
  BY <1>3, <1>9, Zenon DEF Fits
<1> QED
  BY <1>0, <1>7, <1>8, <1>10, <1>11, Zenon DEF Fits

(* The key entry e is replaced by one with another expiry. *)
LEMMA UpdatedFits ==
  ASSUME NEW i \in Index, NEW j \in Index, NEW s, NEW R, Fits(i, s, R), NEW e \in i.keys,
         NEW f, f.key = e.key, f.vno = e.vno, f.count = e.count,
         j.vno = i.vno, j.blocks = i.blocks, j.keys = (i.keys \ {e}) \cup {f}
  PROVE  Fits(j, s, R) /\ SameKeys(i, j)
<1>1. Matches(j, s)
  <2>1. Matches(i, s)
    BY Zenon DEF Fits
  <2>2. ASSUME NEW g \in j.keys
        PROVE  /\ s[Slot(g.vno)].hdr.key = g.key /\ s[Slot(g.vno)].hdr.count = g.count
               /\ Whole(s, Slot(g.vno))
               /\ \E b \in j.blocks : b.no = Slot(g.vno) /\ b.count = g.count
    <3>1. PICK d \in i.keys : d.key = g.key /\ d.vno = g.vno /\ d.count = g.count
      BY Zenon
    <3>2. /\ s[Slot(d.vno)].hdr.key = d.key /\ s[Slot(d.vno)].hdr.count = d.count
          /\ Whole(s, Slot(d.vno))
          /\ \E b \in i.blocks : b.no = Slot(d.vno) /\ b.count = d.count
      BY <2>1, Zenon DEF Matches
    <3> QED
      BY <3>1, <3>2, Zenon
  <2> QED
    BY <2>1, <2>2, Zenon DEF Matches
<1>2. OneEach(j)
  BY Zenon DEF Fits, OneEach
<1>3. SameKeys(i, j)
  BY Zenon DEF SameKeys
<1> QED
  BY <1>1, <1>2, <1>3, Zenon DEF Fits

-----------------------------------------------------------------------------
(* Writing, closing and updating objects. *)

(* ed_close and ed_update_ttl commit. *)
LEMMA CommitStep ==
  ASSUME Separate, CacheInv, NEW p \in Proc, CloseCommit(p) \/ UpdateCommit(p)
  PROVE  Kept
<1>1. /\ slab' = slab /\ lck' = lck /\ obj' = obj /\ now' = now /\ load' = load
      /\ proc[p].pc \in {"closing", "update"} /\ Go(p, Idle)
      /\ idx' = [proc[p].txn EXCEPT !.xid = @ + 1] /\ wlock' = NoProc
  BY Zenon DEF CloseCommit, UpdateCommit, Commit
<1>2. wlock = p /\ Fits(proc[p].txn, slab, Claims)
  BY <1>1, Zenon DEF CacheInv, Mine, Call, Pending, Changing
<1>3. DOMAIN proc' = Proc /\ proc'[p].pc = "idle" /\ \A q \in Proc : q # p => proc'[q] = proc[q]
  BY <1>1, GoIs, IdleIs, Zenon
<1>4. LocksOf(p) /\ DOMAIN obj' = Handle
  BY <1>1, LocksKept, Zenon DEF CacheInv, Common
<1>5. Frame(p)
  BY <1>1, <1>3, <1>4, Zenon DEF Frame, LocksOf
<1>6. Taken' \subseteq Taken /\ Claims' \subseteq Claims
  BY <1>1, <1>3, <1>5, NoNewClaims, Zenon
<1>7. Guarded(p)
  BY <1>1, <1>2, Zenon DEF Guarded, SameIn
<1>8. Fits(idx', slab', Taken')
  <2>1. PICK j, i, R, Q : j = idx' /\ i = proc[p].txn /\ R = Claims /\ Q = Taken'
    BY Zenon
  <2>2. Fits(i, slab, R) /\ j = [i EXCEPT !.xid = @ + 1] /\ Q \subseteq R
    BY <1>1, <1>2, <1>6, <2>1, ClaimsIs, Zenon
  <2>3. Fits(j, slab, Q)
    BY <2>2, NewXid, FitsFewer, Zenon
  <2> QED
    BY <1>1, <2>1, <2>3, Zenon
<1>9. Mine(p) /\ slab' \in [Blk -> Block]
  BY <1>1, Zenon DEF CacheInv, Common
<1>10. Call(p)' /\ Pending(p)'
  BY <1>3, Zenon DEF Call, Pending, Opening, Changing
<1>11. ASSUME NEW x \in Claims', x.p = p
       PROVE  x.no + x.n <= BlockCount /\ \A b \in Span(x.no, x.n) : lck'[p][b] = "ex"
  BY <1>1, <1>6, <1>9, <1>11, Zenon DEF Mine
<1>12. ASSUME NEW h \in Handle, Owner[h] = p PROVE Object(h)'
  BY <1>1, <1>9, <1>12, Zenon DEF Mine, Object
<1>13. Mine(p)'
  BY <1>10, <1>11, <1>12, Zenon DEF Mine
<1> QED
  BY <1>4, <1>5, <1>7, <1>8, <1>9, <1>13, StepOf, Zenon

(* The object of handle h goes on being written, by a process that does nothing
   else. *)
LEMMA WritingStep ==
  ASSUME Separate, CacheInv, NEW p \in Proc, NEW h \in Handle, Owner[h] = p, Writing(h),
         NEW o \in WriteObj, o.no = obj[h].no, o.count = obj[h].count, DOMAIN obj' = Handle,
         obj'[h] = o, \A g \in Handle : g # h => obj'[g] = obj[g],
         UNCHANGED <<lck, idx, wlock, proc, now, load>>, slab' \in [Blk -> Block], HasPart(slab', o),
         \A b \in Blk : SameIn(slab, slab', b) \/ b \in Span(o.no, o.count)
  PROVE  Kept
<1>1. obj[h].open /\ ~obj[h].rdonly /\ proc[p].pc = "idle"
  BY Zenon DEF Writing
<1>2. \A g \in Handle : Owner[g] = p => g = h
  BY Zenon DEF Separate
<1>3. LocksOf(p)
  BY LocksKept, Zenon
<1>4. Frame(p)
  BY Zenon DEF Frame, CacheInv, Common
<1>5. Taken' \subseteq Taken /\ Claims' \subseteq Claims
  <2>1. proc'[p].pc \notin {"commit", "init"}
    BY <1>1, Zenon
  <2>2. \A g \in Handle : Owner[g] = p /\ obj'[g].open /\ ~obj'[g].rdonly =>
          /\ obj[g].open /\ ~obj[g].rdonly
          /\ obj'[g].no = obj[g].no /\ obj'[g].count = obj[g].count
    BY <1>1, <1>2, Zenon
  <2> QED
    BY <1>4, <2>1, <2>2, NoNewClaims, Zenon
<1>6. PICK r : r = [p |-> Owner[h], no |-> obj[h].no, n |-> obj[h].count]
  BY Zenon
<1>7. r \in Taken /\ r.p = p /\ r.no = o.no /\ r.n = o.count
  BY <1>1, <1>6, TakenIs
<1>8. Guarded(p)
  BY <1>5, <1>7, Zenon DEF Guarded
<1>9. Mine(p)
  BY Zenon DEF CacheInv
<1>10. Call(p)' /\ Pending(p)'
  BY <1>1, Zenon DEF Call, Pending, Opening, Changing
<1>11. ASSUME NEW x \in Claims', x.p = p
       PROVE  x.no + x.n <= BlockCount /\ \A b \in Span(x.no, x.n) : lck'[p][b] = "ex"
  BY <1>5, <1>9, <1>11, Zenon DEF Mine
<1>12. ASSUME NEW g \in Handle, Owner[g] = p PROVE Object(g)'
  BY <1>2, <1>12, Zenon DEF Object
<1>13. Mine(p)'
  BY <1>10, <1>11, <1>12, Zenon DEF Mine
<1> QED
  BY <1>3, <1>4, <1>5, <1>8, <1>13, StepOf, Zenon

LEMMA WriteStep ==
  ASSUME Separate, CacheInv, NEW h \in Handle, Write(h)
  PROVE  Kept
<1>1. PICK p \in Proc : p = Owner[h]
  BY OwnerIn, Zenon
<1>2. PICK o : o = obj[h]
  BY Zenon
<1>3. Writing(h) /\ o.seek < o.count /\ UNCHANGED <<lck, idx, wlock, proc, now, load>>
  BY <1>2, Zenon DEF Write
<1>4. o \in WriteObj /\ HasPart(slab, o) /\ slab \in [Blk -> Block]
  BY <1>1, <1>2, <1>3, Zenon DEF CacheInv, Common, Mine, Object, Writing
<1>5. PICK x : x = o.seek + 1
  BY Zenon
<1>6. PICK w : w = [o EXCEPT !.seek = x]
  BY Zenon
<1>7. x \in Nat /\ x <= o.count /\ o.no \in Blk /\ o.seek \in Nat /\ o.count \in Nat
  BY <1>3, <1>4, <1>5 DEF WriteObj
<1>8. /\ w \in WriteObj /\ w.no = o.no /\ w.count = o.count /\ w.key = o.key /\ w.val = o.val
      /\ w.vno = o.vno /\ w.seek = x
  BY <1>4, <1>6, <1>7, Zenon DEF WriteObj
<1>9. obj' = [obj EXCEPT ![h] = w]
  <2>1. obj' = [obj EXCEPT ![h].seek = @ + 1]
    BY Zenon DEF Write
  <2> QED
    BY <1>2, <1>5, <1>6, <2>1, Zenon
<1>10. DOMAIN obj' = Handle /\ obj'[h] = w /\ \A g \in Handle : g # h => obj'[g] = obj[g]
  BY <1>9, ObjIs, Zenon
<1>11. /\ slab' \in [Blk -> Block]
       /\ \A b \in Blk : b # o.no /\ b # o.no + o.seek => slab'[b] = slab[b]
       /\ \A b \in Blk : b = o.no + o.seek => slab'[b].val = o.val
       /\ o.no # o.no + o.seek => slab'[o.no].val = slab[o.no].val
       /\ slab'[o.no].hdr.key = slab[o.no].hdr.key /\ slab'[o.no].hdr.val = slab[o.no].hdr.val
       /\ slab'[o.no].hdr.count = slab[o.no].hdr.count
       /\ o.seek + 1 = o.count => slab'[o.no].hdr.crc = o.val
  <2>1. Stores(o)
    BY <1>2, <1>4, WriteStores, Zenon
  <2> QED
    BY <2>1, Zenon DEF Stores
<1>12. ASSUME NEW b \in Blk PROVE SameIn(slab, slab', b) \/ b \in Span(w.no, w.count)
  <2>1. CASE b # o.no /\ b # o.no + o.seek
    BY <1>11, <2>1, Zenon DEF SameIn
  <2>2. CASE b = o.no \/ b = o.no + o.seek
    BY <1>3, <1>7, <1>8, <2>2, BlockAssumption DEF Span, Blk
  <2> QED
    BY <2>1, <2>2, Zenon
<1>13. ASSUME NEW b \in Span(o.no, x) PROVE slab'[b].val = o.val
  <2>1. b \in Blk /\ (b = o.no + o.seek \/ b \in Span(o.no, o.seek))
    BY <1>5, <1>7, <1>13, BlockAssumption DEF Span, Blk
  <2>2. CASE b = o.no + o.seek
    BY <1>11, <2>1, <2>2, Zenon
  <2>3. CASE b # o.no + o.seek
    <3>1. slab[b].val = o.val
      BY <1>4, <2>1, <2>3, Zenon DEF HasPart
    <3> QED
      BY <1>11, <2>1, <2>3, <3>1, Zenon
  <2> QED
    BY <2>2, <2>3, Zenon
<1>14. HasPart(slab', w)
  BY <1>4, <1>5, <1>7, <1>8, <1>11, <1>13, Zenon DEF HasPart
<1>15. slab' \in [Blk -> Block] /\ w.no = obj[h].no /\ w.count = obj[h].count
  BY <1>2, <1>8, <1>11, Zenon
<1> QED
  BY <1>1, <1>3, <1>8, <1>10, <1>12, <1>14, <1>15, WritingStep, Zenon

LEMMA SetTtlStep ==
  ASSUME Separate, CacheInv, NEW h \in Handle, NEW ttl \in load.ttls, SetTtl(h, ttl)
  PROVE  Kept
<1>1. PICK p \in Proc : p = Owner[h]
  BY OwnerIn, Zenon
<1>2. PICK o, x : o = obj[h] /\ x = ed_expiry_at(Epoch, ttl, now)
  BY Zenon
<1>3. Writing(h) /\ slab' = slab /\ UNCHANGED <<lck, idx, wlock, proc, now, load>>
  BY Zenon DEF SetTtl
<1>4. o \in WriteObj /\ HasPart(slab, o) /\ slab \in [Blk -> Block] /\ now \in Int /\ ttl \in Int
  BY <1>1, <1>2, <1>3, Zenon DEF CacheInv, Common, Mine, Object, Writing, Asked
<1>5. x \in Int
  BY <1>2, <1>4, TimesIn, Zenon
<1>6. PICK w : w = [o EXCEPT !.exp = x]
  BY Zenon
<1>7. /\ w \in WriteObj /\ w.no = o.no /\ w.count = o.count /\ w.key = o.key /\ w.val = o.val
      /\ w.vno = o.vno /\ w.seek = o.seek
  BY <1>4, <1>5, <1>6, Zenon DEF WriteObj
<1>8. obj' = [obj EXCEPT ![h] = w]
  BY <1>2, <1>6, Zenon DEF SetTtl
<1>9. DOMAIN obj' = Handle /\ obj'[h] = w /\ \A g \in Handle : g # h => obj'[g] = obj[g]
  BY <1>8, ObjIs, Zenon
<1>10. HasPart(slab', w) /\ w.no = obj[h].no /\ w.count = obj[h].count /\ slab' \in [Blk -> Block]
  BY <1>2, <1>3, <1>4, <1>7, Zenon DEF HasPart
<1>11. \A b \in Blk : SameIn(slab, slab', b)
  BY <1>3, Zenon DEF SameIn
<1>12. UNCHANGED <<lck, idx, wlock, proc, now, load>>
  BY <1>3, Zenon
<1> QED
  BY <1>1, <1>3, <1>7, <1>9, <1>10, <1>11, <1>12, WritingStep, Zenon

LEMMA ClaimsTaken == ASSUME CacheInv, wlock = NoProc PROVE Claims \subseteq Taken
<1>1. ASSUME NEW q \in Proc, proc[q].pc = "commit" PROVE FALSE
  <2>1. wlock = q
    BY <1>1, Zenon DEF CacheInv, Mine, Call, Changing
  <2> QED
    BY <2>1, LoadAssumption, Zenon
<1> QED
  BY <1>1, ClaimsIs, Zenon

(* A step after which p will commit the index j. *)
LEMMA ChangeStep ==
  ASSUME Separate, CacheInv, NEW p \in Proc, NEW c, Go(p, c), c.pc \in {"closing", "update"},
         wlock = NoProc, wlock' = p, idx' = idx, now' = now, load' = load,
         slab' \in [Blk -> Block], \A b \in Blk : SameIn(slab, slab', b), LocksOf(p),
         DOMAIN obj' = Handle, \A g \in Handle : Owner[g] # p => obj'[g] = obj[g],
         \A g \in Handle : Owner[g] = p => obj'[g] = obj[g] \/ ~(obj'[g].open /\ ~obj'[g].rdonly),
         \/ lck'[p] = lck[p]
         \/ \A g \in Handle : Owner[g] = p => ~(obj'[g].open /\ ~obj'[g].rdonly),
         Claims' \subseteq Taken => Fits(c.txn, slab', Claims'),
         c.pc = "closing" => \E e \in c.txn.keys : Publishes(idx, c.txn, e),
         c.pc = "update" => SameKeys(idx, c.txn)
  PROVE  Kept
<1>1. DOMAIN proc' = Proc /\ proc'[p] = c /\ \A q \in Proc : q # p => proc'[q] = proc[q]
  BY GoIs, Zenon
<1>2. Frame(p)
  BY <1>1, Zenon DEF Frame, LocksOf
<1>3. proc'[p].pc \notin {"commit", "init"}
  BY <1>1, Zenon
<1>4. Taken' \subseteq Taken /\ Claims' \subseteq Claims
  BY <1>2, <1>3, NoNewClaims, Zenon
<1>5. Guarded(p)
  BY <1>4, Zenon DEF Guarded
<1>6. Mine(p)
  BY Zenon DEF CacheInv
<1>7. Call(p)'
  BY <1>1, Zenon DEF Call, Opening
<1>8. Pending(p)'
  <2>1. Fits(c.txn, slab', Claims')
    BY <1>4, ClaimsTaken, Zenon
  <2> QED
    BY <1>1, <2>1, Zenon DEF Pending
<1>9. ASSUME NEW x \in Claims', x.p = p
      PROVE  x.no + x.n <= BlockCount /\ \A b \in Span(x.no, x.n) : lck'[p][b] = "ex"
  <2>1. lck'[p] = lck[p]
    BY <1>3, <1>9, NoClaims, Zenon
  <2> QED
    BY <1>4, <1>6, <1>9, <2>1, Zenon DEF Mine
<1>10. ASSUME NEW g \in Handle, Owner[g] = p PROVE Object(g)'
  <2>1. SUFFICES ASSUME obj'[g].open, ~obj'[g].rdonly PROVE obj'[g] \in WriteObj /\ HasPart(slab', obj'[g])
    BY Zenon DEF Object
  <2>2. PICK o : o = obj[g]
    BY Zenon
  <2>3. obj'[g] = o /\ o \in WriteObj /\ HasPart(slab, o)
    BY <1>6, <1>10, <2>1, <2>2, Zenon DEF Mine, Object
  <2>4. \A b \in Span(o.no, o.count) : SameIn(slab, slab', b)
    BY Zenon DEF Span
  <2>5. HasPart(slab', o)
    BY <2>3, <2>4, HasPartKept, Zenon
  <2> QED
    BY <2>3, <2>5, Zenon
<1>11. Mine(p)'
  BY <1>7, <1>8, <1>9, <1>10, Zenon DEF Mine
<1> QED
  BY <1>2, <1>4, <1>5, <1>11, StepOf, Zenon

LEMMA UpdateBeginStep ==
  ASSUME Separate, CacheInv, NEW p \in Proc, NEW k, NEW x \in Int, NEW restore,
         UpdateBegin(p, k, x, restore)
  PROVE  Kept
<1>1. PICK e \in idx.keys :
        /\ slab' = WithExpiry(Slot(e.vno), x)
        /\ Go(p, [pc |-> "update", txn |-> [idx EXCEPT !.keys = (@ \ {e}) \cup {[e EXCEPT !.exp = x]}]])
  BY Zenon DEF UpdateBegin, Entries
<1>2. /\ wlock = NoProc /\ wlock' = p
      /\ lck' = lck /\ idx' = idx /\ obj' = obj /\ now' = now /\ load' = load
  BY Zenon DEF UpdateBegin, CanChange
<1>3. Fits(idx, slab, Taken) /\ idx \in Index /\ slab \in [Blk -> Block] /\ DOMAIN obj = Handle
  BY Zenon DEF CacheInv, Common, Fits
<1>5. slab' \in [Blk -> Block] /\ \A b \in Blk : SameIn(slab, slab', b)
  BY UpdateSame, Zenon
<1>6. PICK f, j : f = [e EXCEPT !.exp = x] /\ j = [idx EXCEPT !.keys = (@ \ {e}) \cup {f}]
  BY Zenon
<1>7. /\ f.key = e.key /\ f.vno = e.vno /\ f.count = e.count
      /\ f \in [key : Key, vno : Nat, count : Nat \ {0}, exp : Int]
  <2>1. e \in [key : Key, vno : Nat, count : Nat \ {0}, exp : Int]
    BY <1>1, <1>3, Zenon DEF Index
  <2> QED
    BY <1>6, <2>1, Zenon
<1>8. j \in Index /\ j.vno = idx.vno /\ j.blocks = idx.blocks /\ j.keys = (idx.keys \ {e}) \cup {f}
  BY <1>3, <1>6, <1>7, Zenon DEF Index
<1>9. PICK c : c = [pc |-> "update", txn |-> j]
  BY Zenon
<1>10. c.pc = "update" /\ c.txn = j
  BY <1>9
<1>11. Go(p, c)
  BY <1>1, <1>6, <1>9, Zenon
<1>12. PICK R : R = Taken
  BY Zenon
<1>13. Fits(j, slab, R) /\ SameKeys(idx, j)
  BY <1>1, <1>3, <1>7, <1>8, <1>12, UpdatedFits, Zenon
<1>14. ASSUME Claims' \subseteq Taken PROVE Fits(c.txn, slab', Claims')
  <2>1. PICK Q : Q = Claims'
    BY Zenon
  <2>2. Fits(j, slab, Q)
    BY <1>12, <1>13, <1>14, <2>1, FitsFewer, Zenon
  <2>3. Fits(j, slab', Q)
    BY <1>5, <2>2, FitsSame, Zenon
  <2> QED
    BY <1>10, <2>1, <2>3, Zenon
<1>15. LocksOf(p)
  BY <1>2, LocksKept, Zenon
<1>16. c.pc \in {"closing", "update"} /\ c.pc # "closing" /\ SameKeys(idx, c.txn)
  BY <1>10, <1>13, Zenon
<1> QED
  BY <1>2, <1>3, <1>5, <1>11, <1>14, <1>15, <1>16, ChangeStep, Zenon

LEMMA CloseBeginStep ==
  ASSUME Separate, CacheInv, NEW h \in Handle, CloseBegin(h)
  PROVE  Kept
<1>1. PICK p \in Proc : p = Owner[h]
  BY OwnerIn, Zenon
<1>2. PICK o : o = obj[h]
  BY Zenon
<1>3. Writing(h) /\ o.seek = o.count /\ wlock = NoProc /\ wlock' = p
  BY <1>1, <1>2, Zenon DEF CloseBegin, CanChange
<1>4. idx' = idx /\ now' = now /\ load' = load
  BY Zenon DEF CloseBegin
<1>5. o \in WriteObj /\ HasPart(slab, o) /\ slab \in [Blk -> Block]
  BY <1>1, <1>2, <1>3, Zenon DEF CacheInv, Common, Mine, Object, Writing
<1>6. slab[o.no].hdr.key = o.key
  BY <1>5, Zenon DEF HasPart
<1>7. PICK old : /\ old \subseteq Entries(idx, o.key, o.key)
                 /\ old = {} => Entries(idx, o.key, o.key) = {}
                 /\ slab' = Finished(o, old)
                 /\ Go(p, [pc |-> "closing", txn |-> Upserted(idx, o, o.key, old)])
  BY <1>1, <1>2, <1>6, Zenon DEF CloseBegin
<1>8. Fits(idx, slab, Taken) /\ idx \in Index
  BY Zenon DEF CacheInv, Common, Fits
<1>9. slab' \in [Blk -> Block] /\ \A b \in Blk : SameIn(slab, slab', b)
  BY CloseSame, Zenon
<1>10. PICK j, c : j = Upserted(idx, o, o.key, old) /\ c = [pc |-> "closing", txn |-> j]
  BY Zenon
<1>11. c.pc = "closing" /\ c.txn = j
  BY <1>10
<1>12. PICK x, e : Entered(idx, j, o, x, e)
  BY <1>5, <1>7, <1>10, UpsertedIs, Zenon
<1>13. Go(p, c)
  BY <1>7, <1>10, Zenon
<1>14. e \in j.keys /\ Publishes(idx, j, e)
  BY <1>12, Zenon DEF Entered, Publishes
<1>15. DOMAIN obj' = Handle /\ obj'[h] = NoObj /\ \A g \in Handle : g # h => obj'[g] = obj[g]
  <2>1. obj' = [obj EXCEPT ![h] = NoObj]
    BY Zenon DEF CloseBegin
  <2> QED
    BY <2>1, ObjIs, Zenon
<1>16. \A g \in Handle : Owner[g] = p => ~(obj'[g].open /\ ~obj'[g].rdonly)
  <2>1. \A g \in Handle : Owner[g] = p => g = h
    BY <1>1, Zenon DEF Separate
  <2> QED
    BY <1>15, <2>1, IdleIs, Zenon
<1>17. LocksOf(p)
  <2>1. PICK S : S = Span(o.no, o.count)
    BY Zenon
  <2>2. lck' = Locked(p, "un", S)
    BY <1>1, <1>2, <2>1, Zenon DEF CloseBegin
  <2> QED
    BY <2>2, Released, Zenon
<1>18. PICK r : r = [p |-> Owner[h], no |-> obj[h].no, n |-> obj[h].count]
  BY Zenon
<1>19. r.p = p /\ r.no = o.no /\ r.n = o.count
  BY <1>1, <1>2, <1>18
<1>20. r \in Taken /\ r \in Claims
  BY <1>2, <1>3, <1>18, TakenIs, ClaimsIs, Zenon DEF Writing
<1>21. o.no + o.count <= BlockCount
  BY <1>19, <1>20, ClaimTypes, Zenon
<1>22. ASSUME Claims' \subseteq Taken PROVE Fits(c.txn, slab', Claims')
  <2>1. PICK R, Q, t : R = Taken /\ Q = Claims' /\ t = slab'
    BY Zenon
  <2>2. Fits(idx, t, R)
    <3>1. \A b \in Blk : SameIn(slab, t, b)
      BY <1>9, <2>1, Zenon
    <3> QED
      BY <1>8, <2>1, <3>1, FitsSame, Zenon
  <2>3. HasPart(t, o)
    <3>1. \A b \in Span(o.no, o.count) : SameIn(slab, t, b)
      BY <1>9, <2>1, Zenon DEF Span
    <3> QED
      BY <1>5, <3>1, HasPartKept, Zenon
  <2>4. ASSUME NEW q \in Q
        PROVE  /\ q.no \in Blk /\ q.n \in 1 .. BlockCount /\ q.no + q.n <= BlockCount
               /\ Span(q.no, q.n) \cap Span(o.no, o.count) = {}
    <3>1. q \in Claims
      BY <1>22, <2>1, <2>4, ClaimsIs, Zenon
    <3>2. q.p # p
      <4>1. proc'[p].pc \notin {"commit", "init"}
        BY <1>11, <1>13, GoIs, Zenon
      <4> QED
        BY <1>16, <2>1, <2>4, <4>1, NoClaims, Zenon
    <3>3. q # r
      BY <1>19, <3>2, Zenon
    <3>4. Span(q.no, q.n) \cap Span(r.no, r.n) = {}
      BY <1>20, <3>1, <3>3, ClaimsApart, Zenon
    <3> QED
      BY <1>19, <3>1, <3>4, ClaimTypes, Zenon
  <2>5. Apart(Q, o.no, o.count)
    BY <2>4, Zenon DEF Apart
  <2>6. r \in R /\ Q \subseteq R
    BY <1>20, <1>22, <2>1, Zenon
  <2>7. Fits(j, t, Q)
    <3>1. o.seek = o.count /\ r.no = o.no /\ r.n = o.count /\ o \in WriteObj /\ idx \in Index
      BY <1>3, <1>5, <1>8, <1>19, Zenon
    <3> QED
      BY <1>12, <1>21, <2>2, <2>3, <2>5, <2>6, <3>1, UpsertedFits, Zenon
  <2> QED
    BY <1>11, <2>1, <2>7, Zenon
<1>23. \A g \in Handle : Owner[g] # p => obj'[g] = obj[g]
  BY <1>1, <1>15, Zenon
<1>24. c.pc \in {"closing", "update"} /\ c.pc # "update" /\ \E f \in c.txn.keys : Publishes(idx, c.txn, f)
  BY <1>11, <1>14, Zenon
<1>25. wlock = NoProc /\ wlock' = p /\ DOMAIN obj' = Handle
  BY <1>3, <1>15, Zenon
<1> QED
  BY <1>4, <1>9, <1>13, <1>16, <1>17, <1>22, <1>23, <1>24, <1>25, ChangeStep, Zenon

(* Lists and the clock. *)
LEMMA IdleStep ==
  ASSUME CacheInv, UNCHANGED <<slab, lck, idx, wlock, proc, obj, load>>, now' \in Int
  PROVE  Kept
<1>1. Taken' = Taken /\ Claims' = Claims
  BY DEF Taken, Claims
<1>2. Common'
  <2>1. Common
    BY Zenon DEF CacheInv
  <2>2. Exclusive' /\ Asked'
    BY <2>1 DEF Common, Exclusive, Asked
  <2> QED
    BY <1>1, <2>1, <2>2, Zenon DEF Common
<1>3. ASSUME NEW p \in Proc PROVE Mine(p)'
  <2>1. Mine(p)
    BY <1>3, Zenon DEF CacheInv
  <2>2. Call(p)' /\ Pending(p)'
    <3>1. Call(p) /\ Pending(p)
      BY <2>1, Zenon DEF Mine
    <3>2. Call(p)'
      BY <3>1, Zenon DEF Call
    <3>3. Pending(p)'
      BY <1>1, <3>1, Zenon DEF Pending
    <3> QED
      BY <3>2, <3>3, Zenon
  <2>3. \A h \in Handle : Owner[h] = p => Object(h)'
    BY <2>1, Zenon DEF Mine, Object
  <2> QED
    BY <1>1, <2>1, <2>2, <2>3, Zenon DEF Mine
<1>4. CacheInv'
  BY <1>2, <1>3, Zenon DEF CacheInv
<1> QED
  BY <1>4, Zenon DEF Kept

-----------------------------------------------------------------------------
(* The invariant holds. *)

LEMMA CacheInvInit == ASSUME Init PROVE CacheInv
<1>1. PICK l \in Loads : load = l.ask /\ idx = l.idx /\ slab = StartSlab(l)
  BY Zenon DEF Init
<1>2. /\ lck = [p \in Proc |-> Unlocked] /\ proc = [p \in Proc |-> Idle] /\ obj = [h \in Handle |-> NoObj]
      /\ now = Epoch + 1
  BY Zenon DEF Init
<1>3. Consistent(l)
  BY LoadAssumption, Zenon
<1>4. \A p \in Proc : proc[p].pc = "idle"
  BY <1>2, IdleIs, Zenon
<1>5. \A h \in Handle : ~obj[h].open
  BY <1>2, IdleIs, Zenon
<1>6. Taken = {} /\ Claims = {}
  <2>1. \A r : r \notin Taken
    BY <1>4, <1>5, TakenIs, Zenon
  <2>2. \A r : r \notin Claims
    BY <1>4, <2>1, ClaimsIs, Zenon
  <2> QED
    BY <2>1, <2>2, Zenon
<1>7. Fits(idx, slab, Taken)
  BY <1>1, <1>3, <1>6, Zenon DEF Consistent, Fits, Between
<1>8. lck \in LockTable /\ Exclusive
  <2>1. \A p \in Proc, b \in Blk : lck[p][b] = "un"
    BY <1>2, Zenon DEF Unlocked
  <2>2. Exclusive
    BY <2>1, Zenon DEF Exclusive
  <2> QED
    BY <1>2, <2>2 DEF LockTable, Unlocked
<1>9. now \in Int
  BY <1>2, BlockAssumption
<1>10. Asked /\ slab \in [Blk -> Block]
  BY <1>1, <1>3, Zenon DEF Consistent, Asked
<1>11. Common
  BY <1>2, <1>7, <1>8, <1>9, <1>10, Zenon DEF Common
<1>12. ASSUME NEW p \in Proc PROVE Mine(p)
  BY <1>4, <1>5, <1>6, Zenon DEF Mine, Call, Pending, Object, Opening, Changing
<1> QED
  BY <1>11, <1>12, Zenon DEF CacheInv

LEMMA HandleSteps ==
  ASSUME Separate, CacheInv, NEW h \in Handle,
         \/ \E k \in Key : (\E n \in load.sizes : CreateBegin(h, k, n)) \/ OpenBegin(h, k)
         \/ Write(h) \/ CloseBegin(h) \/ Discard(h) \/ CloseRead(h)
         \/ \E ttl \in load.ttls : SetTtl(h, ttl)
         \/ \E xid \in 1 .. idx.xid, no \in Blk : OpenIdBegin(h, xid, no)
  PROVE  Kept /\ idx' = idx
<1>1. Kept
  BY CreateBeginStep, OpenBeginStep, WriteStep, CloseBeginStep, DisposeStep, SetTtlStep, Zenon
<1>2. idx' = idx
  BY Zenon DEF CreateBegin, OpenBegin, Write, CloseBegin, Discard, CloseRead, Dispose, SetTtl, OpenIdBegin
<1> QED
  BY <1>1, <1>2, Zenon

LEMMA ProcSteps ==
  ASSUME Separate, CacheInv, InStep, NEW p \in Proc,
         \/ ReserveSkip(p) \/ ReserveTake(p) \/ ReserveDies(p)
         \/ CreateFails(p) \/ CreateInit(p) \/ CloseFails(p) \/ OpenKey(p) \/ OpenId(p)
         \/ \E k \in Key, ttl \in load.ttls, restore \in BOOLEAN :
              UpdateBegin(p, k, ed_expiry_at(Epoch, ttl, now), restore)
         \/ Crash(p)
  PROVE  Kept /\ idx' = idx
<1>1. CASE \/ ReserveSkip(p) \/ ReserveTake(p) \/ CreateFails(p) \/ CreateInit(p) \/ CloseFails(p)
           \/ OpenKey(p) \/ OpenId(p)
  <2>1. Kept
    BY <1>1, ReserveSkipStep, ReserveTakeStep, CreateFailsStep, CreateInitStep, OpenStep, Zenon
  <2>2. idx' = idx
    BY <1>1, Zenon DEF ReserveSkip, ReserveTake, CreateFails, CreateInit, CloseFails, OpenKey, OpenId
  <2> QED
    BY <2>1, <2>2, Zenon
<1>2. CASE ReserveDies(p) \/ Crash(p)
  <2>1. Die(p)
    BY <1>2, Zenon DEF ReserveDies, Crash
  <2>2. idx' = idx
    BY <2>1, Zenon DEF Die
  <2> QED
    BY <2>1, <2>2, DieStep, Zenon
<1>3. ASSUME NEW k, NEW ttl \in load.ttls, NEW restore,
             UpdateBegin(p, k, ed_expiry_at(Epoch, ttl, now), restore)
      PROVE  Kept /\ idx' = idx
  <2>1. PICK x : x = ed_expiry_at(Epoch, ttl, now)
    BY Zenon
  <2>2. ttl \in Int /\ now \in Int
    BY <1>3, Zenon DEF CacheInv, Common, Asked
  <2>3. x \in Int
    BY <2>1, <2>2, TimesIn, Zenon
  <2>4. UpdateBegin(p, k, x, restore)
    BY <1>3, <2>1, Zenon
  <2>5. idx' = idx
    BY <2>4, Zenon DEF UpdateBegin
  <2> QED
    BY <2>3, <2>4, <2>5, UpdateBeginStep, Zenon
<1> QED
  BY <1>1, <1>2, <1>3, Zenon

LEMMA RestSteps ==
  ASSUME CacheInv, \/ \E from : ListOpen(from)
                   \/ ListStart \/ ListNext \/ ListClose \/ Tick \/ UNCHANGED vars
  PROVE  Kept /\ idx' = idx
<1>1. UNCHANGED <<slab, lck, idx, wlock, proc, obj, load>> /\ (now' = now \/ now' = now + 1)
  BY Zenon DEF ListOpen, ListStart, ListNext, ListClose, Tick, vars
<1>2. now \in Int
  BY Zenon DEF CacheInv, Common
<1>3. now' \in Int
  BY <1>1, <1>2
<1> QED
  BY <1>1, <1>3, IdleStep, Zenon

(* Every step keeps the invariant; the commits change the index. *)
LEMMA CacheInvNext ==
  ASSUME Separate, CacheInv, InStep, [Next]_vars
  PROVE  /\ Kept
         /\ idx' = idx \/ \E p \in Proc : CreateCommit(p) \/ CloseCommit(p) \/ UpdateCommit(p)
<1>1. ASSUME NEW h \in Handle, NEW k \in Key,
             (\E n \in load.sizes : CreateBegin(h, k, n)) \/ OpenBegin(h, k)
      PROVE  Kept /\ idx' = idx
  BY <1>1, HandleSteps, Zenon
<1>2. ASSUME NEW h \in Handle,
             \/ Write(h) \/ CloseBegin(h) \/ Discard(h) \/ CloseRead(h)
             \/ \E ttl \in load.ttls : SetTtl(h, ttl)
             \/ \E xid \in 1 .. idx.xid, no \in Blk : OpenIdBegin(h, xid, no)
      PROVE  Kept /\ idx' = idx
  BY <1>2, HandleSteps, Zenon
<1>3. ASSUME NEW p \in Proc,
             \/ ReserveSkip(p) \/ ReserveTake(p) \/ ReserveDies(p)
             \/ CreateFails(p) \/ CreateInit(p) \/ CloseFails(p) \/ OpenKey(p) \/ OpenId(p)
             \/ \E k \in Key, ttl \in load.ttls, restore \in BOOLEAN :
                  UpdateBegin(p, k, ed_expiry_at(Epoch, ttl, now), restore)
             \/ Crash(p)
      PROVE  Kept /\ idx' = idx
  BY <1>3, ProcSteps, Zenon
<1>4. ASSUME NEW p \in Proc, CreateCommit(p) \/ CloseCommit(p) \/ UpdateCommit(p)
      PROVE  Kept
  BY <1>4, CreateCommitStep, CommitStep, Zenon
<1>5. CASE \/ \E from \in {Oldest} \cup 0 .. idx.vno : ListOpen(from)
           \/ ListStart \/ ListNext \/ ListClose \/ Tick \/ UNCHANGED vars
  BY <1>5, RestSteps, Zenon
<1> QED
  BY <1>1, <1>2, <1>3, <1>4, <1>5, Zenon DEF Next

(* Under Separate and InStep the invariant holds throughout. *)
LEMMA CacheInvHolds == ASSUME Separate PROVE Spec /\ []InStep => []CacheInv
<1>1. Init => CacheInv
  BY CacheInvInit, Zenon
<1>2. CacheInv /\ InStep /\ [Next]_vars => CacheInv'
  BY CacheInvNext, Zenon DEF Kept
<1> QED
  BY <1>1, <1>2, PTL DEF Spec

-----------------------------------------------------------------------------
(* The theorems. *)

(* The committed index leads to finished objects only (IndexMatchesSlab), in
   every cache whose processes have one object open at a time, whatever the
   sizes, faults and crashes, as long as obj_reserve keeps its two positions in
   step: the stores of ed_create and ed_write into the slab hit nothing that
   the index has, and obj_reserve clears all of the range it takes. *)
THEOREM IndexTheorem == ASSUME Separate PROVE Spec /\ []InStep => []IndexMatchesSlab
<1>1. CacheInv => IndexMatchesSlab
  BY Zenon DEF CacheInv, Common, Fits, IndexMatchesSlab
<1> QED
  BY <1>1, CacheInvHolds, PTL

(* Under the same conditions an object that is being written is alone on its
   blocks, which are locked and inside the slab (ReservedApart). *)
THEOREM ReservedTheorem == ASSUME Separate PROVE Spec /\ []InStep => []ReservedApart
<1>1. ASSUME CacheInv PROVE ReservedApart
  <2>1. Taken \subseteq Claims
    BY ClaimsIs, Zenon
  <2>2. \A r \in Taken : r.no + r.n <= BlockCount /\ \A b \in Span(r.no, r.n) : lck[r.p][b] = "ex"
    BY <1>1, <2>1, ClaimTypes, Zenon
  <2>3. \A r \in Taken, b \in idx.blocks : ~Overlap(b, r.no, r.no + r.n)
    BY <1>1, Zenon DEF CacheInv, Common, Fits
  <2>4. \A r, s \in Taken : s # r => Span(s.no, s.n) \cap Span(r.no, r.n) = {}
    BY <1>1, <2>1, ClaimsApart, Zenon
  <2> QED
    BY <2>2, <2>3, <2>4, Zenon DEF ReservedApart
<1>2. CacheInv => ReservedApart
  BY <1>1, Zenon
<1> QED
  BY <1>2, CacheInvHolds, PTL

(* What a lookup of key k finds in index i and slab s. *)
Found(i, s, k) == {s[Slot(e.vno)].hdr.val : e \in {f \in i.keys : f.key = k}}

LEMMA FoundSub ==
  ASSUME NEW i, NEW s, NEW j, NEW t, NEW k,
         \A e \in i.keys : e.key = k =>
           \E f \in j.keys : f.key = k /\ t[Slot(f.vno)].hdr.val = s[Slot(e.vno)].hdr.val
  PROVE  Found(i, s, k) \subseteq Found(j, t, k)
BY Zenon DEF Found

LEMMA FoundVal ==
  ASSUME CacheInv, NEW k, NEW v \in Found(idx, slab, k)
  PROVE  v \in 0 .. MaxXid /\ Found(idx, slab, k) = {v}
<1>1. idx \in Index /\ OneEach(idx) /\ slab \in [Blk -> Block]
  BY Zenon DEF CacheInv, Common, Fits
<1>2. PICK e \in idx.keys : e.key = k /\ v = slab[Slot(e.vno)].hdr.val
  BY Zenon DEF Found
<1>3. Slot(e.vno) \in Blk
  BY <1>1, <1>2, EntryTypes, Zenon
<1>4. slab[Slot(e.vno)] \in Block
  BY <1>1, <1>3, Zenon
<1>5. v \in 0 .. MaxXid
  BY <1>2, <1>4, Zenon DEF Block
<1>6. ASSUME NEW w \in Found(idx, slab, k) PROVE w = v
  <2>1. PICK f \in idx.keys : f.key = k /\ w = slab[Slot(f.vno)].hdr.val
    BY <1>6, Zenon DEF Found
  <2>2. f = e
    BY <1>1, <1>2, <2>1, Zenon DEF OneEach
  <2> QED
    BY <1>2, <2>1, <2>2, Zenon
<1> QED
  BY <1>5, <1>6, Zenon

(* The object that a commit of ed_create replaces is evicted, that of ed_close
   is published, and no other step is seen by lookups. *)
LEMMA FoundNext ==
  ASSUME Separate, CacheInv, InStep, [Next]_vars
  PROVE  \/ \A k \in Key : Found(idx', slab', k) = Found(idx, slab, k)
         \/ \E k \in Key, v \in 0 .. MaxXid :
              /\ Found(idx', slab', k) = {v}
              /\ \A l \in Key : l # k => Found(idx', slab', l) = Found(idx, slab, l)
         \/ \A k \in Key : Found(idx', slab', k) \in {Found(idx, slab, k), {}}
<1>1. /\ CacheInv' /\ \A e \in idx.keys : slab'[Slot(e.vno)].hdr.val = slab[Slot(e.vno)].hdr.val
      /\ idx' = idx \/ \E p \in Proc : CreateCommit(p) \/ CloseCommit(p) \/ UpdateCommit(p)
  BY CacheInvNext, Zenon DEF Kept
<1>2. CASE idx' = idx
  <2>1. PICK t : t = slab'
    BY Zenon
  <2>2. \A e \in idx.keys : t[Slot(e.vno)].hdr.val = slab[Slot(e.vno)].hdr.val
    BY <1>1, <2>1, Zenon
  <2>3. ASSUME NEW k \in Key PROVE Found(idx, t, k) = Found(idx, slab, k)
    <3>1. Found(idx, t, k) \subseteq Found(idx, slab, k) /\ Found(idx, slab, k) \subseteq Found(idx, t, k)
      BY <2>2, FoundSub, Zenon
    <3> QED
      BY <3>1, Zenon
  <2> QED
    BY <1>2, <2>1, <2>3, Zenon
<1>3. ASSUME NEW p \in Proc, CreateCommit(p)
      PROVE  \A k \in Key : Found(idx', slab', k) \in {Found(idx, slab, k), {}}
  <2>1. PICK j : j = proc[p].txn
    BY Zenon
  <2>2. Fits(j, slab, Claims) /\ j.keys \subseteq idx.keys
    BY <1>3, <2>1, Zenon DEF CacheInv, Mine, Pending, CreateCommit
  <2>3. idx' = [j EXCEPT !.xid = @ + 1] /\ slab' = slab
    BY <1>3, <2>1, Zenon DEF CreateCommit, Commit
  <2>4. PICK i : i = idx' /\ i.keys \subseteq idx.keys
    <3>1. PICK R, x : R = Claims /\ x = idx'
      BY Zenon
    <3>2. x.keys = j.keys
      BY <2>2, <2>3, <3>1, NewXid, Zenon
    <3> QED
      BY <2>2, <3>1, <3>2, Zenon
  <2>5. ASSUME NEW k \in Key, NEW v \in Found(i, slab, k) PROVE Found(i, slab, k) = Found(idx, slab, k)
    <3>1. Found(i, slab, k) \subseteq Found(idx, slab, k)
      BY <2>4, FoundSub, Zenon
    <3>2. Found(idx, slab, k) = {v}
      BY <2>5, <3>1, FoundVal, Zenon
    <3> QED
      BY <2>5, <3>1, <3>2, Zenon
  <2> QED
    BY <2>3, <2>4, <2>5, Zenon
<1>4. ASSUME NEW p \in Proc, CloseCommit(p)
      PROVE  \E k \in Key, v \in 0 .. MaxXid :
               /\ Found(idx', slab', k) = {v}
               /\ \A l \in Key : l # k => Found(idx', slab', l) = Found(idx, slab, l)
  <2>1. PICK j : j = proc[p].txn
    BY Zenon
  <2>2. Fits(j, slab, Claims) /\ \E e \in j.keys : Publishes(idx, j, e)
    BY <1>4, <2>1, Zenon DEF CacheInv, Mine, Pending, CloseCommit
  <2>3. idx' = [j EXCEPT !.xid = @ + 1] /\ slab' = slab
    BY <1>4, <2>1, Zenon DEF CloseCommit, Commit
  <2>4. PICK i : i = idx' /\ i.keys = j.keys /\ i \in Index /\ slab' \in [Blk -> Block]
    <3>1. PICK R, x : R = Claims /\ x = idx'
      BY Zenon
    <3>2. x.keys = j.keys
      BY <2>2, <2>3, <3>1, NewXid, Zenon
    <3> QED
      BY <1>1, <3>1, <3>2, Zenon DEF CacheInv, Common, Fits
  <2>5. PICK e \in i.keys : i.keys = {f \in idx.keys : f.key # e.key} \cup {e}
    BY <2>2, <2>4, Zenon DEF Publishes
  <2>6. PICK k, v : k = e.key /\ v = slab[Slot(e.vno)].hdr.val
    BY Zenon
  <2>7. k \in Key /\ Slot(e.vno) \in Blk
    BY <2>4, <2>5, <2>6, EntryTypes, Zenon
  <2>8. v \in 0 .. MaxXid
    <3>1. slab[Slot(e.vno)] \in Block
      BY <2>3, <2>4, <2>7, Zenon
    <3> QED
      BY <2>6, <3>1, Zenon DEF Block
  <2>9. Found(i, slab, k) = {v}
    <3>1. \A w : w \in Found(i, slab, k) <=> w = v
      BY <2>5, <2>6, Zenon DEF Found
    <3> QED
      BY <3>1, Zenon
  <2>10. ASSUME NEW l \in Key, l # k PROVE Found(i, slab, l) = Found(idx, slab, l)
    <3>1. \A f : f.key = l => (f \in i.keys <=> f \in idx.keys)
      BY <2>5, <2>6, <2>10, Zenon
    <3>2. Found(i, slab, l) \subseteq Found(idx, slab, l) /\ Found(idx, slab, l) \subseteq Found(i, slab, l)
      BY <3>1, FoundSub, Zenon
    <3> QED
      BY <3>2, Zenon
  <2> QED
    BY <2>3, <2>4, <2>7, <2>8, <2>9, <2>10, Zenon
<1>5. ASSUME NEW p \in Proc, UpdateCommit(p)
      PROVE  \A k \in Key : Found(idx', slab', k) = Found(idx, slab, k)
  <2>1. PICK j : j = proc[p].txn
    BY Zenon
  <2>2. Fits(j, slab, Claims) /\ SameKeys(idx, j)
    BY <1>5, <2>1, Zenon DEF CacheInv, Mine, Pending, UpdateCommit
  <2>3. idx' = [j EXCEPT !.xid = @ + 1] /\ slab' = slab
    BY <1>5, <2>1, Zenon DEF UpdateCommit, Commit
  <2>4. PICK i : i = idx' /\ i.keys = j.keys
    <3>1. PICK R, x : R = Claims /\ x = idx'
      BY Zenon
    <3>2. x.keys = j.keys
      BY <2>2, <2>3, <3>1, NewXid, Zenon
    <3> QED
      BY <3>1, <3>2, Zenon
  <2>5. ASSUME NEW k \in Key PROVE Found(i, slab, k) = Found(idx, slab, k)
    <3>1. /\ \A e \in idx.keys : \E f \in i.keys : f.key = e.key /\ f.vno = e.vno
          /\ \A f \in i.keys : \E e \in idx.keys : f.key = e.key /\ f.vno = e.vno
      BY <2>2, <2>4, Zenon DEF SameKeys
    <3>2. Found(i, slab, k) \subseteq Found(idx, slab, k)
      <4>1. ASSUME NEW e \in i.keys, e.key = k
            PROVE  \E f \in idx.keys : f.key = k /\ slab[Slot(f.vno)].hdr.val = slab[Slot(e.vno)].hdr.val
        <5>1. PICK f \in idx.keys : f.key = e.key /\ f.vno = e.vno
          BY <3>1, <4>1, Zenon
        <5> QED
          BY <4>1, <5>1, Zenon
      <4> QED
        BY <4>1, FoundSub, Zenon
    <3>3. Found(idx, slab, k) \subseteq Found(i, slab, k)
      <4>1. ASSUME NEW e \in idx.keys, e.key = k
            PROVE  \E f \in i.keys : f.key = k /\ slab[Slot(f.vno)].hdr.val = slab[Slot(e.vno)].hdr.val
        <5>1. PICK f \in i.keys : f.key = e.key /\ f.vno = e.vno
          BY <3>1, <4>1, Zenon
        <5> QED
          BY <4>1, <5>1, Zenon
      <4> QED
        BY <4>1, FoundSub, Zenon
    <3> QED
      BY <3>2, <3>3, Zenon
  <2> QED
    BY <2>3, <2>4, <2>5, Zenon
<1> QED
  BY <1>1, <1>2, <1>3, <1>4, <1>5, Zenon

(* To those who look up keys the cache is the map of CacheMap (ImplementsMap):
   the commit of ed_close publishes its object in place of the one with its
   key, the commit of ed_create evicts the objects on the blocks it takes, and
   nothing else that a process does, or leaves undone when it dies, is seen. *)
THEOREM MapTheorem == ASSUME Separate PROVE Spec /\ []InStep => ImplementsMap
<1> DEFINE map == [k \in Key |-> {slab[Slot(e.vno)].hdr.val : e \in {f \in idx.keys : f.key = k}}]
<1>1. map = [k \in Key |-> Found(idx, slab, k)] /\ map' = [k \in Key |-> Found(idx', slab', k)]
  BY Zenon DEF Found
<1>2. ASSUME CacheInv PROVE Map!Init
  <2>1. ASSUME NEW k \in Key PROVE Found(idx, slab, k) \in {{}} \cup {{v} : v \in 0 .. MaxXid}
    BY <1>2, FoundVal, Zenon
  <2> QED
    BY <1>1, <2>1, Zenon DEF Map!Init
<1>3. ASSUME CacheInv, InStep, [Next]_vars PROVE Map!Publish \/ Map!Evict \/ map' = map
  <2>1. CASE \A k \in Key : Found(idx', slab', k) = Found(idx, slab, k)
    BY <1>1, <2>1, Zenon
  <2>2. ASSUME NEW k \in Key, NEW v \in 0 .. MaxXid, Found(idx', slab', k) = {v},
               \A l \in Key : l # k => Found(idx', slab', l) = Found(idx, slab, l)
        PROVE  Map!Publish
    <3>1. map' = [map EXCEPT ![k] = {v}]
      BY <1>1, <2>2, Zenon
    <3> QED
      BY <3>1, Zenon DEF Map!Publish
  <2>3. CASE \A k \in Key : Found(idx', slab', k) \in {Found(idx, slab, k), {}}
    <3>1. map' \in [Key -> SUBSET (0 .. MaxXid)]
      <4>1. ASSUME NEW k \in Key PROVE Found(idx, slab, k) \subseteq 0 .. MaxXid
        BY <1>3, FoundVal, Zenon
      <4>2. ASSUME NEW k \in Key PROVE Found(idx', slab', k) \subseteq 0 .. MaxXid
        BY <2>3, <4>1, Zenon
      <4> QED
        BY <1>1, <4>2, Zenon
    <3>2. \A k \in Key : map'[k] \in {map[k], {}}
      BY <1>1, <2>3, Zenon
    <3> QED
      BY <3>1, <3>2, Zenon DEF Map!Evict
  <2> HIDE DEF map
  <2> QED
    BY <1>3, <2>1, <2>2, <2>3, FoundNext, Zenon
<1>4. CacheInv => Map!Init
  BY <1>2, Zenon
<1>5. CacheInv /\ InStep /\ [Next]_vars => [Map!Publish \/ Map!Evict]_map
  BY <1>3, Zenon
<1> QED
  BY <1>4, <1>5, CacheInvHolds, PTL DEF Spec, ImplementsMap, Map!Spec

(* A process that has the cache to itself and one object open at a time never
   has a lock refused, so obj_reserve keeps its positions in step, and all of
   the above holds without a condition: its index matches the slab, what it
   writes is apart from everything else, and the cache is a map to it, whatever
   it creates, gives up or fails to commit, and wherever it is killed. *)
THEOREM AloneTheorem ==
  ASSUME Separate, Alone
  PROVE  Spec => []InStep /\ []IndexMatchesSlab /\ []ReservedApart /\ ImplementsMap
<1>1. Init => CacheInv /\ InStep
  <2>1. Init => InStep
    BY IdleIs, Zenon DEF Init, InStep
  <2> QED
    BY <2>1, CacheInvInit, Zenon
<1>2. CacheInv /\ InStep /\ [Next]_vars => CacheInv' /\ InStep'
  BY CacheInvNext, InStepNext, Zenon DEF Kept
<1>3. Spec => []InStep
  BY <1>1, <1>2, PTL DEF Spec
<1> QED
  BY <1>3, IndexTheorem, ReservedTheorem, MapTheorem, PTL

-----------------------------------------------------------------------------
(* Times to live. *)

(* What ed_expiry_at makes of a time to live that 32 bits can hold. *)
LEMMA ExpiryValue ==
  ASSUME NEW epoch \in Nat, NEW at \in Nat, NEW ttl \in Nat, at + ttl <= ED_TIME_MAX
  PROVE  ed_expiry_at(epoch, ttl, at) =
           IF at + ttl <= epoch THEN ED_TIME_DELETE ELSE at + ttl - epoch
BY TimeAssumption DEF ed_expiry_at, ed_time_from_unix, ED_TIME_MAX, ED_TIME_DELETE, ED_TIME_INF

(* An object that is given a time to live at some moment is expired exactly
   from the end of that time on: ed_expiry_at stores what ed_expired_at needs,
   wherever the epoch of the index is, and neither special value is met by
   accident.  The sum must be a UNIX time that 32 bits can hold. *)
THEOREM TtlExact ==
  ASSUME NEW epoch \in Nat, NEW at \in Nat, NEW ttl \in Nat, NEW t \in Nat,
         at + ttl <= ED_TIME_MAX, t >= epoch
  PROVE  ed_expired_at(epoch, ed_expiry_at(epoch, ttl, at), t) <=> t >= at + ttl
<1> DEFINE exp == ed_expiry_at(epoch, ttl, at)
<1>1. exp = IF at + ttl <= epoch THEN 0 ELSE at + ttl - epoch
  BY ExpiryValue DEF ED_TIME_DELETE
<1>2. CASE at + ttl <= epoch
  BY <1>1, <1>2, TimeAssumption DEF ed_expired_at, ED_TIME_DELETE, ED_TIME_INF
<1>3. CASE at + ttl > epoch
  <2>1. exp = at + ttl - epoch /\ exp # ED_TIME_INF /\ exp # ED_TIME_DELETE
    BY <1>1, <1>3, TimeAssumption DEF ED_TIME_DELETE, ED_TIME_INF, ED_TIME_MAX
  <2>2. ed_time_to_unix(epoch, exp) = at + ttl
    BY <2>1 DEF ed_time_to_unix
  <2> QED
    BY <2>1, <2>2 DEF ed_expired_at
<1> QED
  BY <1>2, <1>3

(* ed_ttl_at gives back what is left of a time to live: all of it at the
   moment it was set, and 0 from its end on. *)
THEOREM TtlReadBack ==
  ASSUME NEW epoch \in Nat, NEW at \in Nat, NEW ttl \in Nat, NEW t \in Nat,
         at + ttl <= ED_TIME_MAX, t >= epoch
  PROVE  ed_ttl_at(epoch, ed_expiry_at(epoch, ttl, at), t) =
           IF t >= at + ttl THEN 0 ELSE at + ttl - t
<1> DEFINE exp == ed_expiry_at(epoch, ttl, at)
<1>1. exp = IF at + ttl <= epoch THEN 0 ELSE at + ttl - epoch
  BY ExpiryValue DEF ED_TIME_DELETE
<1>2. CASE at + ttl <= epoch
  BY <1>1, <1>2, TimeAssumption DEF ed_ttl_at, ED_TIME_DELETE, ED_TIME_INF
<1>3. CASE at + ttl > epoch
  <2>1. exp = at + ttl - epoch /\ exp # ED_TIME_INF /\ exp # ED_TIME_DELETE
    BY <1>1, <1>3, TimeAssumption DEF ED_TIME_DELETE, ED_TIME_INF, ED_TIME_MAX
  <2>2. ed_time_to_unix(epoch, exp) = at + ttl
    BY <2>1 DEF ed_time_to_unix
  <2> QED
    BY <2>1, <2>2 DEF ed_ttl_at
<1> QED
  BY <1>2, <1>3

(* ed_time_from_unix clamps but never reorders: of two expiries the later one
   is stored as the later one or as the same, and what it stores is an EdTime
   other than "never". *)
THEOREM ExpiryOrder ==
  ASSUME NEW epoch \in Nat, NEW a \in Nat, NEW b \in Nat, a <= b
  PROVE  /\ ed_time_from_unix(epoch, a) \in 0 .. ED_TIME_MAX
         /\ ed_time_from_unix(epoch, a) <= ed_time_from_unix(epoch, b)
BY TimeAssumption DEF ed_time_from_unix, ED_TIME_MAX, ED_TIME_DELETE, ED_TIME_INF

=============================================================================
