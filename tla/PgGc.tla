------------------------------- MODULE PgGc -------------------------------
(***************************************************************************)
(* The page allocator of the index: ed_alloc, ed_free_pgno and the linked  *)
(* gc pages of lib/pg.c.                                                   *)
(*                                                                         *)
(* A gc page holds lists of page numbers in an array of 4-byte words.  A   *)
(* list at word o is its transaction id (words o, o+1), its page count     *)
(* (word o+2) and its pages.  The array is kept word by word because the   *)
(* code reads a list header before it knows that there is a list.  A       *)
(* process may be killed between any two stores.                           *)
(*                                                                         *)
(* A failed assert stops the process (pc is "remain", "nonew" or           *)
(* "unused").  In the default build, which defines NDEBUG, the code goes   *)
(* on instead: a negative room becomes a large uint16_t and ed_free_pgno   *)
(* writes past the gc page.  The model does not follow it there.           *)
(***************************************************************************)
EXTENDS Integers, Sequences, FiniteSets, SequencesExt, TLC

CONSTANTS
  DataWords,       \* words of EdPgGc.data (1018)
  MaxPage,         \* bound: the last page the file can grow to
  AllocCount,      \* pages the file grows by (ED_ALLOC_COUNT, 16)
  TxnIds,          \* the ids pages are freed under, 0 included
  Xmins,           \* the results of ed_idx_xmin
  MaxAlloc,        \* bound on the pages of one ed_alloc call
  CrashAt,         \* the program points at which a process may be killed
  MaxCrashes,      \* bound on the number of processes killed
  MapFails         \* whether a page may fail to map

ASSUME PgGcAssumption ==
  /\ DataWords \in Nat /\ (DataWords % 2) = 0 /\ DataWords >= 4
  /\ MaxPage \in Nat \ {0} /\ AllocCount \in Nat \ {0}
  /\ TxnIds \subseteq Nat /\ 0 \in TxnIds /\ Xmins \subseteq Nat
  /\ MaxAlloc \in Nat /\ MaxCrashes \in Nat /\ MapFails \in BOOLEAN

Points == {"end", "count", "state", "head", "failed", "plan", "shift", "shifted", "put",
           "list", "link", "init", "tail", "fill", "filled", "remain", "nonew",
           "unused"}

Page == 1 .. MaxPage
None == 0                    \* ED_PG_NONE
PagesAt == 3                    \* offsetof(EdPgGcList, pages), in words
ListSizeMin == 4             \* sizeof(EdPgGcList), in words
AlignList(n) == n + (n % 2)
ListSize(n) == AlignList(PagesAt + n)
ListMax == DataWords - ListSizeMin + 1

VARIABLES
  gc,              \* the contents of the gc pages
  gc_head, gc_tail, tail_start, tail_count,     \* fields of the header
  out,             \* pages handed out and not freed again
  pc,              \* the store the running call makes next
  op,              \* the running call, "alloc" or "free"
  xmin,            \* ed_idx_xmin, when the running call looked at it
  plan,            \* what ed_alloc decided to hand out
  fpg, fxid,       \* the pages ed_free_pgno still has to record; its id
  new,             \* the gc pages it has allocated and not used yet
  crashes          \* processes killed so far (only to bound them)

hdrVars == <<gc_head, gc_tail, tail_start, tail_count>>
callVars == <<op, xmin, plan, fpg, fxid, new>>
vars == <<gc, hdrVars, out, pc, callVars, crashes>>

NoPlan == [at |-> None, state |-> [head |-> 0, tail |-> 0, nlists |-> 0, nskip |-> 0],
           pages |-> {}, recycled |-> {}, npages |-> 0]

NoState == NoPlan.state
EmptyGc == [state |-> NoState, next |-> None, data |-> [o \in 0 .. DataWords - 1 |-> 0]]

(* ed_idx_open of a new index: page 1 is the only gc page. *)
Init ==
  /\ gc = (1 :> EmptyGc)
  /\ gc_head = 1 /\ gc_tail = 1 /\ tail_start = 2 /\ tail_count = 0
  /\ out = {} /\ pc = "idle" /\ op = "alloc" /\ xmin = 0 /\ plan = NoPlan
  /\ fpg = <<>> /\ fxid = 0 /\ new = <<>> /\ crashes = 0

-----------------------------------------------------------------------------
(* Reading a gc page.                                                      *)

(* A word of the page.  Words past its end are read only by gc_list_remain,
   whose result is then negative whatever they hold. *)
Word(g, o) == IF o < DataWords THEN gc[g].data[o] ELSE 0
ListXid(g, o) == Word(g, o)
ListNpages(g, o) == Word(g, o + 2)

(* gc_list_remain for the list at o. *)
Remain(g, o) == DataWords - o - PagesAt - ListNpages(g, o)

(* gc_list_npages_for: how many pages of transaction xid still fit. *)
NpagesFor(g, xid) ==
  LET o == gc[g].state.tail
      end == AlignList(DataWords - Remain(g, o))
      size == DataWords - end
  IN  IF xid <= ListXid(g, o) THEN Remain(g, o)
      ELSE IF size <= PagesAt THEN 0 ELSE size - PagesAt

(* The gc pages from g to the last one. *)
RECURSIVE ChainFrom(_)
ChainFrom(g) == IF g = gc_tail THEN {g} ELSE {g} \cup ChainFrom(gc[g].next)
Chain == ChainFrom(gc_head)

(* The positions (gc page, list, index) of the page numbers in n lists of g
   from word o on, without the first skip ones. *)
RECURSIVE Positions(_, _, _, _)
Positions(g, o, n, skip) ==
  IF n = 0 THEN {}
  ELSE {<<g, o, j>> : j \in skip .. ListNpages(g, o) - 1}
         \cup Positions(g, o + ListSize(ListNpages(g, o)), n - 1, 0)

(* The live entries of all gc pages.  A list that is being added does not
   count before its header is stored. *)
Entries ==
  UNION {LET s == gc[g].state
             n == s.nlists - IF pc = "list" /\ g = gc_tail THEN 1 ELSE 0
         IN  Positions(g, s.head, n, s.nskip) : g \in Chain}
At(e) == Word(e[1], e[2] + PagesAt + e[3])

(* ed_pg_mark_gc together with the unused end of the file: every page the
   allocator owns. *)
FreePages == {At(e) : e \in Entries} \cup Chain \cup (tail_start .. MaxPage)

-----------------------------------------------------------------------------
(* ed_alloc                                                                *)

(* Mutant: a list as old as the oldest snapshot is taken. *)
OldEnoughOrEqual(xid, min) == xid = 0 \/ xid <= min

(* Whether a list may be reused. *)
OldEnough(xid, min) == xid = 0 \/ xid < min

(* Mutant: the pages taken are not skipped. *)
SkipNone(s, use) == s

SkipPages(s, use) == [s EXCEPT !.nskip = @ + use]

(* Mutant: the skip count of the used up list stays. *)
NextListKeepSkip(s, n) == [s EXCEPT !.head = @ + ListSize(n), !.nlists = @ - 1]

(* The list after one of n pages. *)
NextList(s, n) == [s EXCEPT !.head = @ + ListSize(n), !.nlists = @ - 1, !.nskip = 0]

RECURSIVE Collect(_, _, _)

(* Pages of the head list, if its transaction is old enough. *)
TakeList(p, want, min) ==
  LET s == p.state
      g == p.at
      n == ListNpages(g, s.head) - s.nskip
      left == want - p.npages
      use == IF n > left THEN left ELSE n
      q == [p EXCEPT !.npages = @ + use,
                     !.pages = @ \cup {Word(g, s.head + PagesAt + s.nskip + i) : i \in 0 .. use - 1}]
  IN  IF ~OldEnough(ListXid(g, s.head), min) THEN p
      ELSE IF use < n THEN [q EXCEPT !.state = SkipPages(@, use)]
      ELSE Collect([q EXCEPT !.state = NextList(@, ListNpages(g, s.head))], want, min)

(* The loop of ed_alloc: lists of the head page and, once they are used up,
   the page itself, unless it is the last one. *)
Collect(p, want, min) ==
  IF p.npages >= want THEN p
  ELSE IF p.state.nlists > 0 THEN TakeList(p, want, min)
  ELSE IF p.at = gc_tail THEN p
  ELSE LET next == gc[p.at].next
           q == [p EXCEPT !.recycled = @ \cup {p.at}, !.npages = @ + 1,
                          !.at = next, !.state = gc[next].state]
       IN  IF q.state.nlists = 0 THEN q ELSE TakeList(q, want, min)

Collected(want, min) ==
  LET p == Collect([NoPlan EXCEPT !.at = gc_head, !.state = gc[gc_head].state], want, min)
  IN  [p EXCEPT !.state.tail = IF p.state.head > @ THEN p.state.head ELSE @]

(* Pages still missing are mapped from the end of the file, which grows. *)
Grown(n) ==
  IF n > tail_count
  THEN tail_count + AllocCount * ((n + AllocCount - 1) \div AllocCount)
  ELSE tail_count

(* Mutant: the result of ftruncate is ignored. *)
FitsAlways(n) == TRUE

(* Pages the header already counts are not checked against the file. *)
Fits(n) == n <= tail_count \/ tail_start + Grown(n) - 1 <= MaxPage

(* ed_alloc up to its first store.  n pages are wanted; min is ed_idx_xmin. *)
AllocBegin(n, min) ==
  LET p == Collected(n, min)
      k == n - p.npages
  IN
  /\ xmin' = min
  /\ \/ /\ k = 0 \/ Fits(k)
        /\ plan' = [p EXCEPT !.pages = @ \cup (tail_start .. tail_start + k - 1), !.npages = k]
        /\ pc' = "end"
        /\ UNCHANGED tail_count
     \/ /\ MapFails \/ (k > 0 /\ ~Fits(k))
        /\ plan' = NoPlan
        /\ pc' = "failed"
        /\ tail_count' \in {tail_count, IF k > 0 /\ Fits(k) THEN Grown(k) ELSE tail_count}
  /\ UNCHANGED <<gc, gc_head, gc_tail, tail_start, out, fxid, new, crashes>>

Alloc(n, min) ==
  /\ pc = "idle"
  /\ op' = "alloc"
  /\ AllocBegin(n, min)
  /\ UNCHANGED fpg

(* map_end_pages: the new start of the end of the file, then its length. *)
StoreTailStart ==
  /\ pc = "end"
  /\ tail_start' = tail_start + plan.npages
  /\ pc' = IF plan.npages > 0 THEN "count" ELSE "state"
  /\ UNCHANGED <<gc, gc_head, gc_tail, tail_count, out, callVars, crashes>>

StoreTailCount ==
  /\ pc = "count"
  /\ tail_count' = Grown(plan.npages) - plan.npages
  /\ pc' = "state"
  /\ UNCHANGED <<gc, gc_head, gc_tail, tail_start, out, callVars, crashes>>

(* gc->state = state *)
StoreState ==
  /\ pc = "state"
  /\ gc' = [gc EXCEPT ![plan.at].state = plan.state]
  /\ pc' = "head"
  /\ UNCHANGED <<hdrVars, out, callVars, crashes>>

(* gc_set(&idx->gc_head): recycled gc pages leave the chain. *)
StoreHead ==
  LET got == plan.pages \cup plan.recycled
  IN
  /\ pc = "head"
  /\ gc_head' = plan.at
  /\ gc' = [g \in DOMAIN gc \ plan.recycled |-> gc[g]]
  /\ IF op = "alloc"
     THEN out' = out \cup got /\ pc' = "idle" /\ UNCHANGED new
     ELSE new' = SetToSortSeq(got, <) /\ pc' = "put" /\ UNCHANGED out
  /\ plan' = NoPlan /\ xmin' = 0
  /\ UNCHANGED <<gc_tail, tail_start, tail_count, op, fpg, fxid, crashes>>

(* The error return of ed_alloc; ed_free_pgno returns it to its caller, who
   keeps the pages. *)
Failed ==
  /\ pc = "failed"
  /\ out' = out \cup Range(fpg)
  /\ fpg' = <<>>
  /\ pc' = "idle" /\ op' = "alloc" /\ xmin' = 0 /\ fxid' = 0
  /\ UNCHANGED <<gc, hdrVars, plan, new, crashes>>

-----------------------------------------------------------------------------
(* ed_free_pgno                                                            *)

(* The pages leave their owner.  Which of its pages a client frees, and in
   which order, does not matter to the code: they are the n lowest. *)
Free(n, xid) ==
  /\ pc = "idle"
  /\ fpg' = SubSeq(SetToSortSeq(out, <), 1, n)
  /\ out' = out \ Range(fpg')
  /\ fxid' = xid
  /\ op' = "free"
  /\ pc' = "plan"
  /\ UNCHANGED <<gc, hdrVars, xmin, plan, new, crashes>>

TailState == gc[gc_tail].state
RemainOk == Remain(gc_tail, TailState.tail) >= 0      \* the assert of gc_list_remain

AllocPages ==
  LET avail == NpagesFor(gc_tail, fxid)
      remain == IF avail > Len(fpg) THEN 0 ELSE Len(fpg) - avail
  IN  (remain + ListMax - 1) \div ListMax

(* How many new gc pages are needed; all of them are allocated at once. *)
Plan(min) ==
  /\ pc = "plan" /\ RemainOk
  /\ IF AllocPages = 1 /\ TailState.head >= DataWords \div 2
     THEN pc' = "shift" /\ UNCHANGED <<gc, hdrVars, out, callVars, crashes>>
     ELSE IF AllocPages > 0
     THEN AllocBegin(AllocPages, min) /\ UNCHANGED <<op, fpg>>
     ELSE pc' = "put" /\ UNCHANGED <<gc, hdrVars, out, callVars, crashes>>

(* Lists in the second half of the page are copied to its start, and then the
   state follows them. *)
ShiftCopy ==
  /\ pc = "shift"
  /\ gc' = [gc EXCEPT ![gc_tail].data =
              [o \in DOMAIN @ |-> IF o < DataWords - TailState.head THEN @[o + TailState.head] ELSE @[o]]]
  /\ pc' = "shifted"
  /\ UNCHANGED <<hdrVars, out, callVars, crashes>>

ShiftState ==
  /\ pc = "shifted"
  /\ gc' = [gc EXCEPT ![gc_tail].state.tail = @ - TailState.head, ![gc_tail].state.head = 0]
  /\ pc' = "plan"
  /\ UNCHANGED <<hdrVars, out, callVars, crashes>>

(* gc_list_next: the last list is extended when it is as new as the pages. *)
Merges == TailState.nlists > 0 /\ fxid <= ListXid(gc_tail, TailState.tail)

ListNext ==
  LET remain == Remain(gc_tail, TailState.tail)
  IN
  /\ pc = "put" /\ RemainOk
  /\ \/ /\ Merges /\ remain >= 1
        /\ pc' = "fill"
        /\ UNCHANGED gc
     \/ /\ ~Merges /\ remain >= ListSizeMin
        /\ gc' = [gc EXCEPT
             ![gc_tail].state.nlists = @ + 1,
             ![gc_tail].state.tail =
                IF TailState.nlists > 0 THEN @ + ListSize(ListNpages(gc_tail, @)) ELSE TailState.head]
        /\ pc' = "list"
     \/ /\ IF Merges THEN remain < 1 ELSE remain < ListSizeMin
        /\ new # <<>>
        /\ pc' = "link"
        /\ UNCHANGED gc
  /\ UNCHANGED <<hdrVars, out, callVars, crashes>>

(* The id and the count of the new list, after the state that counts it. *)
ListHeader ==
  /\ pc = "list"
  /\ gc' = [gc EXCEPT ![gc_tail].data[TailState.tail] = fxid, ![gc_tail].data[TailState.tail + 2] = 0]
  /\ pc' = "fill"
  /\ UNCHANGED <<hdrVars, out, callVars, crashes>>

(* A new gc page: it is linked, initialised with its first list, and made the
   last one. *)
Link ==
  /\ pc = "link"
  /\ gc' = [gc EXCEPT ![gc_tail].next = new[1]]
  /\ pc' = "init"
  /\ UNCHANGED <<hdrVars, out, callVars, crashes>>

InitPage ==
  /\ pc = "init"
  /\ gc' = (new[1] :> [EmptyGc EXCEPT !.state.nlists = 1, !.data[0] = fxid]) @@ gc
  /\ pc' = "tail"
  /\ UNCHANGED <<hdrVars, out, callVars, crashes>>

StoreTail ==
  /\ pc = "tail"
  /\ gc_tail' = new[1]
  /\ new' = Tail(new)
  /\ pc' = "fill"
  /\ UNCHANGED <<gc, gc_head, tail_start, tail_count, out, op, xmin, plan, fpg, fxid, crashes>>

(* As many pages as fit go into the last list ... *)
FillCount ==
  LET remain == Remain(gc_tail, TailState.tail)
  IN  IF remain > Len(fpg) THEN Len(fpg) ELSE remain

Fill ==
  LET at == TailState.tail + PagesAt + ListNpages(gc_tail, TailState.tail)
  IN
  /\ pc = "fill"
  /\ gc' = [gc EXCEPT ![gc_tail].data =
              [w \in DOMAIN @ |-> IF w \in at .. at + FillCount - 1 THEN fpg[w - at + 1] ELSE @[w]]]
  /\ pc' = "filled"
  /\ UNCHANGED <<hdrVars, out, callVars, crashes>>

(* ... and are then counted; the call ends when none is left. *)
FillCounted ==
  LET done == FillCount = Len(fpg)
  IN
  /\ pc = "filled"
  /\ gc' = [gc EXCEPT ![gc_tail].data[TailState.tail + 2] = @ + FillCount]
  /\ fpg' = SubSeq(fpg, FillCount + 1, Len(fpg))
  /\ pc' = IF ~done THEN "put" ELSE IF new = <<>> THEN "idle" ELSE "unused"
  /\ op' = IF done THEN "alloc" ELSE op
  /\ fxid' = IF done THEN 0 ELSE fxid
  /\ UNCHANGED <<hdrVars, out, xmin, plan, new, crashes>>

-----------------------------------------------------------------------------
(* Failed asserts, and crashes.                                            *)

(* assert(remain >= 0) of gc_list_remain.  No crash is needed to get here:
   once the lists of the last gc page end less than a list header before its
   end and are all handed out, state.tail is where they end. *)
AbortRemain ==
  /\ pc \in {"plan", "put"} /\ ~RemainOk
  /\ pc' = "remain"
  /\ UNCHANGED <<gc, hdrVars, out, callVars, crashes>>

(* assert(used_pages < alloc_pages) *)
AbortNoNew ==
  /\ pc = "put" /\ RemainOk /\ new = <<>>
  /\ Remain(gc_tail, TailState.tail) < IF Merges THEN 1 ELSE ListSizeMin
  /\ pc' = "nonew"
  /\ UNCHANGED <<gc, hdrVars, out, callVars, crashes>>

(* The process is killed, by a signal or by an assert.  The pages it was
   moving are lost to the file. *)
Crash ==
  /\ pc \in CrashAt /\ crashes < MaxCrashes
  /\ gc' = [g \in Chain |-> gc[g]]
  /\ pc' = "idle" /\ op' = "alloc" /\ xmin' = 0 /\ fxid' = 0
  /\ plan' = NoPlan /\ fpg' = <<>> /\ new' = <<>>
  /\ crashes' = crashes + 1
  /\ UNCHANGED <<hdrVars, out>>

-----------------------------------------------------------------------------
Next ==
  \/ \E n \in 1 .. MaxAlloc, min \in Xmins : Alloc(n, min)
  \/ StoreTailStart \/ StoreTailCount \/ StoreState \/ StoreHead \/ Failed
  \/ \E n \in 1 .. Cardinality(out), xid \in TxnIds : Free(n, xid)
  \/ \E min \in Xmins : Plan(min)
  \/ ShiftCopy \/ ShiftState \/ ListNext \/ ListHeader
  \/ Link \/ InitPage \/ StoreTail \/ Fill \/ FillCounted
  \/ AbortRemain \/ AbortNoNew \/ Crash

Spec == Init /\ [][Next]_vars

-----------------------------------------------------------------------------
(* Properties.                                                             *)

Gates ==
  LET E == Entries
      of(p) == {ListXid(e[1], e[2]) : e \in {f \in E : At(f) = p}}
  IN  [p \in Page |-> IF of(p) = {} THEN 0 ELSE CHOOSE x \in of(p) : TRUE]

Store == INSTANCE PageStore WITH free <- FreePages, gate <- Gates

TypeOK ==
  /\ Store!PageStoreTypeOK
  /\ gc_head \in DOMAIN gc /\ gc_tail \in DOMAIN gc /\ DOMAIN gc \subseteq Page
  /\ \A g \in DOMAIN gc :
       /\ gc[g].next \in Page \cup {None}
       /\ gc[g].state.head \in 0 .. DataWords /\ gc[g].state.tail \in 0 .. DataWords
  /\ tail_start \in Page \cup {MaxPage + 1} /\ tail_count \in Nat
  /\ out \subseteq Page /\ Range(fpg) \subseteq Page /\ Range(new) \subseteq Page
  /\ op \in {"alloc", "free"} /\ crashes \in 0 .. MaxCrashes

(* A page is handed out at most once: it is in one entry of one list, or a gc
   page, or at the end of the file, or with a client, or about to be recorded,
   and nowhere else, whatever was interrupted. *)
OnePlace ==
  /\ LET E == Entries
         listed == {At(e) : e \in E}
     IN  /\ Cardinality(listed) = Cardinality(E)
         /\ \A p \in listed : p \notin Chain /\ p < tail_start
  /\ \A g \in Chain : g < tail_start
  /\ out \cap FreePages = {}
  /\ Range(fpg) \cap (FreePages \cup out) = {}
  /\ Range(new) \cap (FreePages \cup out \cup Range(fpg)) = {}

(* Until a process is killed every page is in a list, a gc page or at the end
   of the file, with a client, or in the hands of the running call.  So
   ed_alloc and ed_free lose nothing when they return, a call that fails leaves
   the index "in its current state", and a call that a failed assert stops
   loses only what it was moving. *)
NoPageLost ==
  crashes = 0 =>
    Page = FreePages \cup out \cup plan.pages \cup plan.recycled
             \cup Range(fpg) \cup Range(new)

(* ed_free_pgno asks for the room of the last gc page only where it has some:
   "assert(remain >= 0 && remain <= (ssize_t)sizeof(pgc->data))"
   (gc_list_remain, lib/pg.c:174). *)
RoomNotNegative == pc \in {"plan", "put"} => RemainOk

(* The lists of a gc page lie in its data, one after the other, the last one
   at state.tail, and state.nskip is within the first. *)
RECURSIVE EndsAt(_, _, _)
EndsAt(g, o, n) ==
  IF n = 1 THEN o = gc[g].state.tail
  ELSE EndsAt(g, o + ListSize(ListNpages(g, o)), n - 1)

ListsInPage ==
  \A g \in Chain :
    LET s == gc[g].state
    IN  pc # "list" /\ s.nlists > 0 =>
          /\ EndsAt(g, s.head, s.nlists)
          /\ Remain(g, s.tail) >= 0
          /\ s.nskip <= ListNpages(g, s.head)

(* The allocator implements PageStore: a page leaves it only when the running
   call may reuse it (its gate is 0 or older than ed_idx_xmin), and a page
   comes back under the id it was freed with or the newer one of the list it
   was merged into, or as a gc page.  A process that is killed ends the
   promise: it may leave pages in nobody's hands. *)
ImplementsPageStore ==
  /\ Store!PageStoreInit
  /\ [][crashes' = 0 =>
        \/ Store!TakePages(FreePages \ FreePages', xmin)
        \/ Store!PutPages(FreePages' \ FreePages, fxid)
        \/ Store!PutPages(FreePages' \ FreePages, 0)]_<<FreePages, Gates>>

=============================================================================
