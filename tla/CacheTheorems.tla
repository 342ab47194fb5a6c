--------------------------- MODULE CacheTheorems ----------------------------
(***************************************************************************)
(* What a user of the cache relies on: headers and key entries agree about *)
(* expiry, and an open object stays.                                       *)
(***************************************************************************)
EXTENDS CacheProofs, CacheReaders, CacheExpiry

-----------------------------------------------------------------------------
(* Expiry. *)

(* Lists, which look at the headers in the slab, and lookups, which look at the
   key entries, agree about what is expired or replaced (ExpiryAgrees): if they
   agree when the cache is opened, they agree between any two changes, as long
   as no change was cut short and obj_reserve keeps its two positions in step.
   ed_close and ed_update_ttl store into headers before they commit; the proof
   carries what they are about to commit, and that no other store into the slab
   reaches a header that the index leads to. *)
THEOREM ExpiryTheorem ==
  ASSUME Separate
  PROVE  Spec /\ ExpiryAgrees /\ []InStep => []ExpiryAgrees
<1>1. ASSUME Init, ExpiryAgrees PROVE ExpiryInv
  <2>1. wlock = NoProc /\ crashes = 0 /\ \A p \in Proc : proc[p] = Idle
    BY <1>1, Zenon DEF Init
  <2>2. crashes \in Nat
    BY <2>1
  <2>3. ASSUME NEW b \in idx.blocks
        PROVE  /\ (\A e \in idx.keys : Slot(e.vno) # b.no) => slab[b.no].hdr.exp = ED_TIME_DELETE
               /\ \A e \in idx.keys : Slot(e.vno) = b.no => slab[b.no].hdr.exp = e.exp
    <3>1. LET es == {e \in idx.keys : Slot(e.vno) = b.no}
          IN  IF es = {} THEN slab[b.no].hdr.exp = ED_TIME_DELETE
              ELSE \A e \in es : slab[b.no].hdr.exp = e.exp
      BY <1>1, <2>1, <2>3, Zenon DEF ExpiryAgrees
    <3> QED
      BY <3>1, Zenon
  <2>4. Agrees(idx, slab)
    BY <2>3, Zenon DEF Agrees
  <2> QED
    BY <2>1, <2>2, <2>4, IdleIs, Zenon DEF ExpiryInv, Marking
<1>2. ASSUME CacheInv, ExpiryInv PROVE ExpiryAgrees
  <2>1. ASSUME wlock = NoProc, crashes = 0, NEW b \in idx.blocks
        PROVE  LET es == {e \in idx.keys : Slot(e.vno) = b.no}
               IN  IF es = {} THEN slab[b.no].hdr.exp = ED_TIME_DELETE
                   ELSE \A e \in es : slab[b.no].hdr.exp = e.exp
    <3>1. Agrees(idx, slab)
      BY <1>2, <2>1, AgreesNow, Zenon
    <3>2. /\ (\A e \in idx.keys : Slot(e.vno) # b.no) => slab[b.no].hdr.exp = ED_TIME_DELETE
          /\ \A e \in idx.keys : Slot(e.vno) = b.no => slab[b.no].hdr.exp = e.exp
      BY <2>1, <3>1, Zenon DEF Agrees
    <3> QED
      BY <3>2, Zenon
  <2> QED
    BY <2>1, Zenon DEF ExpiryAgrees
<1>3. Init /\ ExpiryAgrees => ExpiryInv
  BY <1>1, Zenon
<1>4. CacheInv /\ InStep /\ ExpiryInv /\ [Next]_vars => ExpiryInv'
  BY ExpiryNext, Zenon
<1>5. CacheInv /\ ExpiryInv => ExpiryAgrees
  BY <1>2, Zenon
<1> QED
  BY <1>3, <1>4, <1>5, CacheInvHolds, PTL DEF Spec

-----------------------------------------------------------------------------
(* Open objects. *)

LEMMA InwardStored ==
  ASSUME NEW S, NEW r, Inward(r), Headed(S)'
  PROVE  Stored(S)
BY Zenon DEF Stored, Inward, Untouched

LEMMA SameStored ==
  ASSUME NEW S, Headed(S), \A b \in Blk : SameIn(slab, slab', b)
  PROVE  Stored(S)
<1>1. Headed(S)'
  BY Zenon DEF Headed, SameIn
<1> QED
  BY <1>1, Zenon DEF Stored, Untouched, SameIn

LEMMA WriteStored ==
  ASSUME CacheInv, NEW S, Headed(S), NEW h \in Handle, Write(h)
  PROVE  Stored(S)
<1>1. PICK o : o = obj[h]
  BY Zenon
<1>2. o \in WriteObj /\ slab \in [Blk -> Block]
  BY <1>1, OwnerIn, Zenon DEF CacheInv, Common, Mine, Object, Write, Writing
<1>3. Stores(o)
  BY <1>1, <1>2, WriteStores, Zenon
<1>4. Headed(S)'
  BY <1>3, Zenon DEF Headed, Stores
<1> QED
  BY <1>4, WriteInward, InwardStored, Zenon

LEMMA InitStored ==
  ASSUME CacheInv, NEW S, TypeInv(S), Headed(S), NEW p \in Proc, CreateInit(p)
  PROVE  Stored(S)
<1>1. PICK c, no, H : /\ c = proc[p] /\ no = Slot(c.vno)
                      /\ H = [key |-> c.key, val |-> c.txn, count |-> c.n,
                              exp |-> ED_TIME_DELETE, xid |-> 0, crc |-> 0]
  BY Zenon
<1>2. c.pc = "init" /\ slab' = [slab EXCEPT ![no].hdr = H]
  BY <1>1, Zenon DEF CreateInit
<1>3. c.n \in S /\ slab \in [Blk -> Block]
  BY <1>1, <1>2, Zenon DEF CacheInv, Common, TypeInv, Typed
<1>4. H.count = c.n
  BY <1>1
<1>5. ASSUME NEW b \in Blk PROVE slab'[b].hdr.count \in S \cup {0}
  <2>1. CASE b = no
    <3>1. PICK B, d : B = slab[b] /\ d = [B EXCEPT !.hdr = H]
      BY Zenon
    <3>2. slab'[b] = d
      BY <1>2, <1>3, <2>1, <3>1, Zenon
    <3>3. d.hdr = H
      BY <1>3, <3>1, Zenon DEF Block
    <3> QED
      BY <1>3, <1>4, <3>2, <3>3, Zenon
  <2>2. CASE b # no
    BY <1>2, <1>3, <2>2, Zenon DEF Headed
  <2> QED
    BY <2>1, <2>2, Zenon
<1>6. Headed(S)'
  BY <1>5, Zenon DEF Headed
<1> QED
  BY <1>6, InitInward, InwardStored, Zenon

LEMMA StoredNext ==
  ASSUME CacheInv, NEW S, TypeInv(S), Headed(S), [Next]_vars
  PROVE  Stored(S)
<1>1. ASSUME slab' = slab PROVE Stored(S)
  BY <1>1, Zenon DEF Stored, Headed, Untouched
<1>2. ASSUME NEW p \in Proc, NEW k, NEW ttl \in load.ttls, NEW restore,
             UpdateBegin(p, k, ed_expiry_at(Epoch, ttl, now), restore)
      PROVE  Stored(S)
  <2>1. PICK x : x = ed_expiry_at(Epoch, ttl, now)
    BY Zenon
  <2>2. x \in Int
    BY <1>2, <2>1, TimesIn, Zenon DEF CacheInv, Common, Asked
  <2> QED
    BY <1>2, <2>1, <2>2, UpdateSame, SameStored, Zenon
<1>3. ASSUME NEW h \in Handle, CloseBegin(h) PROVE Stored(S)
  BY <1>3, CloseSame, SameStored, Zenon
<1>4. ASSUME NEW h \in Handle, NEW k, (\E n : CreateBegin(h, k, n)) \/ OpenBegin(h, k)
      PROVE  slab' = slab
  BY <1>4, Zenon DEF CreateBegin, OpenBegin
<1>5. ASSUME NEW h \in Handle,
             \/ Discard(h) \/ CloseRead(h) \/ \E ttl : SetTtl(h, ttl)
             \/ \E xid, no : OpenIdBegin(h, xid, no)
      PROVE  slab' = slab
  BY <1>5, Zenon DEF Discard, CloseRead, Dispose, SetTtl, OpenIdBegin
<1>6. ASSUME NEW p \in Proc,
             \/ ReserveSkip(p) \/ ReserveTake(p) \/ ReserveDies(p) \/ CreateCommit(p) \/ CreateFails(p)
             \/ CloseCommit(p) \/ CloseFails(p) \/ OpenKey(p) \/ OpenId(p) \/ UpdateCommit(p) \/ Crash(p)
      PROVE  slab' = slab
  BY <1>6, Zenon DEF ReserveSkip, ReserveTake, ReserveDies, CreateCommit, CreateFails, CloseCommit,
     CloseFails, OpenKey, OpenId, UpdateCommit, Crash, Die
<1>7. CASE \/ \E from \in {Oldest} \cup 0 .. idx.vno : ListOpen(from)
           \/ ListStart \/ ListNext \/ ListClose \/ Tick \/ UNCHANGED vars
  BY <1>1, <1>7, Zenon DEF ListOpen, ListStart, ListNext, ListClose, Tick, vars
<1> QED
  BY <1>1, <1>2, <1>3, <1>4, <1>5, <1>6, <1>7, WriteStored, InitStored, Zenon DEF Next

LEMMA GuardsHold ==
  ASSUME Separate, CacheInv
  PROVE  Guards
<1>1. ASSUME NEW r \in Taken, NEW q \in Proc, NEW b \in Span(r.no, r.n) PROVE lck[q][b] # "sh"
  <2>1. r \in Claims
    BY <1>1, ClaimsIs, Zenon
  <2>2. r.p \in Proc /\ lck[r.p][b] = "ex" /\ b \in Blk
    BY <1>1, <2>1, ClaimTypes, Zenon DEF Span
  <2>3. Exclusive
    BY Zenon DEF CacheInv, Common
  <2>4. CASE q # r.p
    BY <1>1, <2>2, <2>3, <2>4, Zenon DEF Exclusive
  <2>5. CASE q = r.p
    BY <2>2, <2>5, Zenon
  <2> QED
    BY <2>4, <2>5, Zenon
<1>2. ASSUME NEW p \in Proc, proc[p].pc \in {"reserve", "commit", "init", "open", "openid"}
      PROVE  /\ proc[p].h \in Handle /\ Owner[proc[p].h] = p
             /\ \A h \in Handle : Owner[h] = p => ~obj[h].open
  <2>1. proc[p].h \in Handle /\ Owner[proc[p].h] = p /\ ~obj[proc[p].h].open
    BY <1>2, Zenon DEF CacheInv, Mine, Call, Opening
  <2> QED
    BY <2>1, Zenon DEF Separate
<1>3. DOMAIN lck = Proc
  BY Zenon DEF CacheInv, Common, LockTable
<1> QED
  BY <1>1, <1>2, <1>3, Zenon DEF Guards, Separate

(* The cache has, and is asked for, objects of n blocks. *)
OneSize(n) == SizedIn({n}) /\ Headed({n})

(* An object that is open for reading stays what it was (ActiveNotEvicted): its
   header and its blocks are not stored into and its blocks are not taken by
   ed_create, whatever other processes write, replace or are killed in.  ed_open
   looks the object up without a lock, and locks as many blocks as the entry of
   its snapshot has; the theorem needs the checksum, which turns away what a
   killed writer left unfinished in that place in between, and objects of one
   size, with which the header found there cannot claim more blocks than were
   locked. *)
THEOREM ActiveTheorem ==
  ASSUME Separate, Checksum, NEW n \in 1 .. BlockCount
  PROVE  Spec /\ OneSize(n) /\ []InStep => []ActiveNotEvicted
<1>1. n \in Nat \ {0}
  BY BlockAssumption
<1>2. {n} \in SUBSET Nat
  BY <1>1, Zenon
<1>3. Init /\ OneSize(n) => TypeInv({n}) /\ ReaderInv(n)
  <2>1. ASSUME Init, OneSize(n) PROVE ReaderInv(n)
    <3>1. \A h \in Handle : ~obj[h].open
      BY <2>1, IdleIs, Zenon DEF Init
    <3> QED
      BY <2>1, <3>1, Zenon DEF OneSize, ReaderInv, Reads, Reading
  <2> QED
    BY <1>2, <2>1, TypeInit, Zenon DEF OneSize
<1>4. CacheInv /\ TypeInv({n}) /\ ReaderInv(n) /\ [Next]_vars => TypeInv({n})' /\ ReaderInv(n)'
  <2>1. ASSUME CacheInv, TypeInv({n}), ReaderInv(n), [Next]_vars PROVE ReaderInv(n)'
    <3>1. Headed({n})
      BY <2>1, Zenon DEF ReaderInv
    <3>2. Stored({n})
      BY <2>1, <3>1, StoredNext, Zenon
    <3> QED
      BY <1>1, <2>1, <3>2, GuardsHold, ReadsNext, Zenon
  <2> QED
    BY <1>2, <2>1, TypeNext, Zenon
<1>5. CacheInv /\ ReaderInv(n) => ActiveNotEvicted
  <2>1. ASSUME CacheInv, ReaderInv(n), NEW h \in Handle, Reading(h)
        PROVE  /\ slab[obj[h].no].hdr.key = obj[h].key /\ slab[obj[h].no].hdr.val = obj[h].val
               /\ \A b \in Span(obj[h].no, obj[h].count) : slab[b].val = obj[h].val
               /\ \A r \in Taken : Span(obj[h].no, obj[h].count) \cap Span(r.no, r.n) = {}
    <3>1. PICK no, m, p : no = obj[h].no /\ m = obj[h].count /\ p = Owner[h]
      BY Zenon
    <3>2. /\ no \in Blk /\ m \in {0, n} /\ slab[no].hdr.key = obj[h].key /\ slab[no].hdr.val = obj[h].val
          /\ \A b \in Span(no, m) : slab[b].val = obj[h].val
          /\ \A b \in Span(no, n) : lck[p][b] = "sh"
      BY <2>1, <3>1, Zenon DEF ReaderInv, Reads
    <3>3. \A b \in Span(no, m) : b \in Span(no, n)
      BY <1>1, <3>2, Within, Zenon
    <3>4. \A r \in Taken : \A q \in Proc, b \in Span(r.no, r.n) : lck[q][b] # "sh"
      BY <2>1, GuardsHold, Zenon DEF Guards
    <3>5. p \in Proc
      BY <2>1, <3>1, OwnerIn, Zenon
    <3>6. \A r \in Taken : Span(no, m) \cap Span(r.no, r.n) = {}
      BY <3>2, <3>3, <3>4, <3>5, Zenon
    <3> QED
      BY <3>1, <3>2, <3>6, Zenon
  <2> QED
    BY <2>1, Zenon DEF ActiveNotEvicted, Reading
<1> QED
  BY <1>3, <1>4, <1>5, CacheInvHolds, PTL DEF Spec

=============================================================================
