-------------------------------- MODULE Bpt --------------------------------
(* The copy-on-write b+tree of lib/bpt.c with its cursor, one tree of one    *)
(* transaction: find, first, last, next, prev, set, del, and the splits and  *)
(* clones they make.  Pages are numbers; a page holds a leaf, a branch or    *)
(* nothing.  "own" is the set of pages the transaction allocated: the code   *)
(* compares tree->xid with txn->xid.  The parent links of the EdNodes are    *)
(* the path from the root to the cursor's leaf; every other EdNode gets its  *)
(* link again from ed_txn_map before it is used.                             *)
EXTENDS Integers, Sequences, FiniteSets, SequencesExt, FiniteSetsExt, Bags

CONSTANTS
  PageNo,       \* page numbers of the file
  LeafOrder,    \* LEAF_ORDER(entry_size)
  BranchOrder,  \* BRANCH_ORDER
  MaxKey,       \* UINT64_MAX
  Entries,      \* the entries callers store: records of a key and a value
  Starts,       \* the trees a file can hold at first: pages and a root
  MaxChanges,   \* bound on the calls of set and del
  MaxMatches,   \* bounds on a walk: the matches it counts
  MaxLoops,     \* and the rounds
  Allocs,       \* how many pages ed_txn_alloc can deliver to one call
  Moves,        \* the calls that move the cursor other than find
  EmptyLeaf,    \* may a caller delete the last entry of a leaf?
  SplitPast     \* may an insert behind the matches of a scan split a leaf?

ASSUME OrderAssumption ==
  /\ LeafOrder \in Nat \ {0, 1} /\ BranchOrder \in Nat \ {0, 1, 2, 3}
  /\ PageNo \subseteq Nat \ {0}
  /\ \A e \in Entries : e.key \in 0..MaxKey

NoPage == [type |-> "none"]
NoPos == <<0, 0>>
NoEntry == [key |-> -1, val |-> 0]
Stale == [key |-> -1, val |-> -1]   \* what lies behind the last entry of a leaf

VARIABLES
  page,   \* page number -> node
  head,   \* hdr->tree[db]: the root of the last commit, 0 for ED_PG_NONE
  txn,    \* the transaction: open, error, root, own pages, discarded pages
  dbp,    \* the cursor, EdTxnDb
  call,   \* the last call that moved the cursor
  nsets   \* the calls of set and del so far

vars == <<page, head, txn, dbp, call, nsets>>

Leaf(es) == [type |-> "leaf", ents |-> es]
Branch(ks, ps) == [type |-> "branch", keys |-> ks, ptrs |-> ps]
IsLeaf(pg, no) == pg[no].type = "leaf"
NKeys(n) == IF n.type = "leaf" THEN Len(n.ents) ELSE Len(n.keys)
BranchPtr(n, i) == n.ptrs[i + 1]

NoCursor ==
  [path |-> <<>>, key |-> 0, kmin |-> 0, kmax |-> 0, start |-> NoPos,
   index |-> 0, match |-> 0, nmatches |-> 0, nloops |-> 0, haskey |-> FALSE,
   hasfind |-> FALSE, hasentry |-> FALSE]

Closed == [open |-> FALSE, error |-> FALSE, root |-> 0, own |-> {}, gc |-> {}]

Init ==
  /\ \E t \in Starts :
       /\ page = [p \in PageNo |-> IF p \in DOMAIN t.page THEN t.page[p] ELSE NoPage]
       /\ head = t.root
  /\ txn = Closed
  /\ dbp = NoCursor
  /\ call = "none"
  /\ nsets = 0

-----------------------------------------------------------------------------
(* Reading the tree.                                                         *)

(* Mutant: stops one child short when the key is a separator. *)
BranchSearchLeft(n, k) ==
  Min({i \in 0..Len(n.keys) : i = Len(n.keys) \/ k <= n.keys[i + 1]})

(* The child of branch n to search for key k. *)
BranchSearch(n, k) ==
  Min({i \in 0..Len(n.keys) :
         i = Len(n.keys) \/ k < n.keys[i + 1] \/ (i > 0 /\ n.keys[i] = k)})

Child(pg, path, i) ==
  Append(path, [no |-> BranchPtr(pg[Last(path).no], i), idx |-> i])

RECURSIVE FindLeaf(_, _, _), FirstLeaf(_, _), LastLeaf(_, _)
FindLeaf(pg, path, k) ==
  IF IsLeaf(pg, Last(path).no) THEN path
  ELSE FindLeaf(pg, Child(pg, path, BranchSearch(pg[Last(path).no], k)), k)

FirstLeaf(pg, path) ==
  IF IsLeaf(pg, Last(path).no) THEN path ELSE FirstLeaf(pg, Child(pg, path, 0))

LastLeaf(pg, path) ==
  IF IsLeaf(pg, Last(path).no) THEN path
  ELSE LastLeaf(pg, Child(pg, path, NKeys(pg[Last(path).no])))

(* The levels of a path that have a sibling to their right, to their left. *)
RightOf(pg, path) == {i \in 2..Len(path) : path[i].idx < NKeys(pg[path[i - 1].no])}
LeftOf(pg, path) == {i \in 2..Len(path) : path[i].idx > 0}

(* The smallest key of the range of a path's leaf, as ed_bpt_find keeps it. *)
LowKey(pg, path) ==
  IF LeftOf(pg, path) = {} THEN 0
  ELSE LET i == Max(LeftOf(pg, path)) IN pg[path[i - 1].no].keys[path[i].idx]

FindKmin(pg, path) ==
  IF LeftOf(pg, path) = {} THEN 0
  ELSE LET i == Max(LeftOf(pg, path))
           j == path[i].idx - 1
           k == IF j = 0 THEN 0 ELSE pg[path[i - 1].no].keys[j]
       IN (k - 1) % (MaxKey + 1)

(* Mutant: the separator itself, which belongs to the leaf on the right. *)
FindKmaxIncl(pg, path) ==
  IF RightOf(pg, path) = {} THEN MaxKey
  ELSE LET i == Max(RightOf(pg, path)) IN pg[path[i - 1].no].keys[path[i].idx + 1]

FindKmax(pg, path) ==
  IF RightOf(pg, path) = {} THEN MaxKey
  ELSE LET i == Max(RightOf(pg, path)) IN pg[path[i - 1].no].keys[path[i].idx + 1] - 1

Root(no) == <<[no |-> no, idx |-> 0]>>
LeafOf(d) == page[Last(d.path).no]
EntryAt(n, i) == IF i \in 0..(Len(n.ents) - 1) THEN n.ents[i + 1] ELSE Stale
Pos(d) == <<Last(d.path).no, d.index>>

(* ed_bpt_find on the tree of the transaction. *)
Search(k) ==
  IF txn.root = 0
  THEN [NoCursor EXCEPT !.key = k, !.kmax = MaxKey, !.haskey = TRUE, !.hasfind = TRUE]
  ELSE
    LET path == FindLeaf(page, Root(txn.root), k)
        es == page[Last(path).no].ents
        i == Min({j \in 0..Len(es) : j = Len(es) \/ k <= es[j + 1].key})
        rc == IF i < Len(es) /\ es[i + 1].key = k THEN 1 ELSE 0
    IN [path |-> path, key |-> k,
        kmin |-> IF i > 0 THEN es[i].key ELSE LowKey(page, path),
        kmax |-> IF i < Len(es) THEN es[i + 1].key ELSE FindKmax(page, path),
        start |-> <<Last(path).no, i>>, index |-> i, match |-> rc,
        nmatches |-> rc, nloops |-> 0, haskey |-> TRUE, hasfind |-> TRUE,
        hasentry |-> rc = 1]

MoveFirst(d, path, kmin, kmax) ==
  LET p == FirstLeaf(page, path)
      es == page[Last(p).no].ents
  IN [d EXCEPT !.path = p, !.kmin = kmin,
        !.kmax = IF es # <<>> THEN es[1].key
                 ELSE IF Len(p) > Len(path) THEN FindKmax(page, p) ELSE kmax,
        !.hasentry = TRUE, !.index = 0, !.match = 0, !.nmatches = 0]

MoveLast(d, path, kmin, kmax) ==
  LET p == LastLeaf(page, path)
      es == page[Last(p).no].ents
  IN [d EXCEPT !.path = p, !.kmax = kmax,
        !.kmin = IF es # <<>> THEN Last(es).key
                 ELSE IF Len(p) > Len(path) THEN LowKey(page, p) ELSE kmin,
        !.hasentry = TRUE, !.index = Len(es) - 1, !.match = 0, !.nmatches = 0]

(* Mutant: looks for a sibling under the parent only. *)
MoveRightOnce(d) ==
  LET up == RightOf(page, d.path) \cap {Len(d.path)} IN
  IF up = {} THEN MoveFirst(d, Root(d.path[1].no), 0, MaxKey)
  ELSE LET i == Max(up)
           j == d.path[i].idx + 1
           p == Child(page, SubSeq(d.path, 1, i - 1), j)
       IN MoveFirst(d, p, page[d.path[i - 1].no].keys[j], FindKmax(page, p))

(* To the leaf on the right, from the last leaf to the first. *)
MoveRight(d) ==
  LET up == RightOf(page, d.path) IN
  IF up = {} THEN MoveFirst(d, Root(d.path[1].no), 0, MaxKey)
  ELSE LET i == Max(up)
           j == d.path[i].idx + 1
           p == Child(page, SubSeq(d.path, 1, i - 1), j)
       IN MoveFirst(d, p, page[d.path[i - 1].no].keys[j], FindKmax(page, p))

MoveLeft(d) ==
  LET up == LeftOf(page, d.path) IN
  IF up = {} THEN MoveLast(d, Root(d.path[1].no), 0, MaxKey)
  ELSE LET i == Max(up)
           j == d.path[i].idx - 1
           p == Child(page, SubSeq(d.path, 1, i - 1), j)
           n == page[d.path[i - 1].no]
       IN MoveLast(d, p, FindKmin(page, p), IF j = 0 THEN 0 ELSE n.keys[j])

(* The end of next and prev: count a match of the key that was searched for
   and a return to the entry the walk started from. *)
Yield(d) ==
  LET hit == d.haskey /\ EntryAt(LeafOf(d), d.index).key = d.key IN
  [d EXCEPT !.haskey = hit, !.match = IF hit THEN 1 ELSE 0,
            !.nmatches = IF hit THEN @ + 1 ELSE @,
            !.nloops = IF Pos(d) = d.start THEN @ + 1 ELSE @]

Forward(d) ==
  LET i == d.index + IF d.hasentry THEN 1 ELSE 0 IN
  Yield(IF i >= Len(LeafOf(d).ents) THEN MoveRight(d)
        ELSE IF d.hasentry
        THEN [d EXCEPT !.index = i, !.kmin = d.kmax, !.kmax = LeafOf(d).ents[i + 1].key]
        ELSE [d EXCEPT !.hasentry = TRUE])

Backward(d) ==
  Yield(IF d.index = 0 THEN MoveLeft(d)
        ELSE [d EXCEPT !.index = @ - 1, !.kmax = d.kmin, !.hasentry = TRUE,
                       !.kmin = LeafOf(d).ents[d.index].key])

-----------------------------------------------------------------------------
(* Changing the tree.  A work record carries what the tree code changes; no
   is the page of the last allocation, at an index returned by a call, left
   what ed_txn_alloc can still deliver.  After a failed allocation nothing
   else is changed. *)

Work(n) ==
  [page |-> page, root |-> txn.root, own |-> txn.own, gc |-> txn.gc,
   error |-> FALSE, path |-> dbp.path, no |-> 0, at |-> 0, left |-> n]

Alloc(w, node) ==
  LET free == {p \in PageNo : w.page[p] = NoPage} IN
  IF w.error \/ w.left = 0 \/ free = {} THEN [w EXCEPT !.error = TRUE]
  ELSE [w EXCEPT !.page[Min(free)] = node, !.own = @ \cup {Min(free)},
                 !.no = Min(free), !.left = @ - 1]

(* Mutant: the page that was copied is not queued for the free list. *)
CloneOnly(w, no) == Alloc(w, w.page[no])

(* ed_txn_clone, ed_txn_discard: a copy of page no, which is queued for the
   free list. *)
Clone(w, no) ==
  LET c == Alloc(w, w.page[no]) IN
  IF c.error THEN c ELSE [c EXCEPT !.gc = @ \cup {no}]

(* Mutant: changes the page in place when it is the root of the tree. *)
MustCloneInner(w, no) == no \notin w.own /\ no # w.root

(* tree->xid < txn->xid *)
MustClone(w, no) == no \notin w.own

(* A page of the transaction's own in the place of page no. *)
Writable(w, no) ==
  IF w.error \/ ~MustClone(w, no) THEN [w EXCEPT !.no = no] ELSE Clone(w, no)

(* set_node for the node at level i of the path, up to the root. *)
RECURSIVE SetNode(_, _)
SetNode(w, i) ==
  IF w.error THEN w
  ELSE IF i = 1 THEN [w EXCEPT !.root = w.path[1].no]
  ELSE LET c == Writable(w, w.path[i - 1].no)
           no == w.path[i].no
       IN IF c.error THEN c
          ELSE SetNode([c EXCEPT !.path[i - 1].no = c.no,
                                 !.page[c.no].ptrs[w.path[i].idx + 1] =
                                    IF no \in c.own THEN no ELSE @], i - 1)

Link(w, no, i) ==
  LET s == SetNode([w EXCEPT !.path = Append(@, [no |-> no, idx |-> i])],
                   Len(w.path) + 1)
  IN [s EXCEPT !.path = SubSeq(@, 1, Len(w.path))]

(* Key k and child r as the (i+1)st of a branch. *)
AddChild(n, i, k, r) == Branch(InsertAt(n.keys, i + 1, k), InsertAt(n.ptrs, i + 2, r))

(* insert_into_parent: l, the i-th child of the branch the path leads to, got
   a right sibling r with smallest key k.  On return the path leads to the
   branch that holds both, l as its child number "at". *)
RECURSIVE InsertIntoParent(_, _, _, _, _)
InsertIntoParent(w, l, r, i, k) ==
  IF w.error THEN w
  ELSE IF w.path = <<>>
  THEN LET c == Alloc(w, Branch(<<k>>, <<l, r>>)) IN
       IF c.error THEN c
       ELSE [c EXCEPT !.root = c.no, !.path = Root(c.no), !.at = 0]
  ELSE
    LET b == Last(w.path).no
        up == Last(w.path).idx
        n == w.page[b]
        mid == (Len(n.keys) + 1) \div 2
        low == Branch(SubSeq(n.keys, 1, mid - 1), SubSeq(n.ptrs, 1, mid))
        high == Branch(SubSeq(n.keys, mid + 1, Len(n.keys)),
                       SubSeq(n.ptrs, mid + 1, Len(n.ptrs)))
        toLow == k < n.keys[mid]
        j == IF toLow THEN i ELSE i - mid
        \* the full branch is split
        right == Alloc(w, IF toLow THEN high ELSE AddChild(high, j, k, r))
        left == Writable(right, b)
        top == InsertIntoParent(
                 [left EXCEPT !.page[left.no] = IF toLow THEN AddChild(low, j, k, r) ELSE low,
                              !.path = Front(w.path)],
                 left.no, right.no, up, n.keys[mid])
        half == IF toLow THEN left.no ELSE right.no
        split == [top EXCEPT !.path = Append(@, [no |-> half,
                                 idx |-> top.at + IF toLow THEN 0 ELSE 1]), !.at = j]
        \* the branch has room
        own == Writable(w, b)
        grown == [own EXCEPT !.page[own.no] = AddChild(n, i, k, r),
                             !.path[Len(w.path)].no = own.no, !.at = i]
        full == Len(n.keys) = BranchOrder - 1
        done == IF full THEN split ELSE grown
        failed == IF full THEN right.error \/ left.error \/ top.error ELSE own.error
    IN IF failed THEN [w EXCEPT !.error = TRUE]
       ELSE Link(Link(done, l, done.at), r, done.at + 1)

(* Mutant: splits in the middle whatever the keys are. *)
SplitMiddle(d, es) == Len(es) \div 2

(* split_point: -1 is ED_EINDEX_DUPKEY. *)
SplitPoint(d, es) ==
  LET n == Len(es)
      mid == n \div 2
      first == d.index - d.nmatches + 1
      around == d.nmatches > 0 /\ mid <= d.index /\ first \in 0..mid
      k == IF around THEN d.key ELSE es[mid + 1].key
      min == IF around \/ k = d.key THEN first
             ELSE Min({i \in 0..mid : \A j \in i..mid : es[j + 1].key = k})
      next == IF around THEN d.index + 1 ELSE mid + 1
      max == Max({i \in next..n : \A j \in next..(i - 1) : es[j + 1].key = k})
  IN IF min = mid THEN mid
     ELSE IF min = 0 /\ max = n THEN -1
     ELSE IF min >= n - max THEN min ELSE max

(* split_leaf with the new entry e in its half; mid is not -1. *)
SplitLeaf(w, d, e, mid) ==
  LET no == Last(w.path).no
      es == w.page[no].ents
      toLow == d.index < mid
      low == SubSeq(es, 1, mid)
      high == SubSeq(es, mid + 1, Len(es))
      rkey == IF mid = d.index THEN d.key ELSE es[mid + 1].key
      right == Alloc(w, Leaf(IF toLow THEN high ELSE InsertAt(high, d.index - mid + 1, e)))
      left == Writable(right, no)
      top == InsertIntoParent(
               [left EXCEPT !.page[left.no] = Leaf(IF toLow THEN InsertAt(low, d.index + 1, e) ELSE low),
                            !.path = Front(w.path)],
               left.no, right.no, Last(w.path).idx, rkey)
  IN IF right.error \/ left.error \/ top.error THEN [w EXCEPT !.error = TRUE]
     ELSE [top EXCEPT !.path = Append(@, [no |-> IF toLow THEN left.no ELSE right.no,
                                          idx |-> top.at + IF toLow THEN 0 ELSE 1]),
                      !.at = IF toLow THEN d.index ELSE d.index - mid]

(* set_leaf: link the leaf up to the root; a new first entry is the key of
   the leaf in its parent. *)
SetLeaf(w, i) ==
  LET s == SetNode(w, Len(w.path))
      leaf == Last(s.path)
  IN IF s.error \/ i # 0 \/ leaf.idx = 0 THEN s
     ELSE [s EXCEPT !.page[s.path[Len(s.path) - 1].no].keys[leaf.idx] =
                       s.page[leaf.no].ents[1].key]

(* insert_into_leaf; "at" is the entry_index it leaves. *)
InsertIntoLeaf(w, d, e, replace) ==
  IF w.path = <<>>
  THEN LET c == Alloc(w, Leaf(<<e>>)) IN
       IF c.error THEN c ELSE SetLeaf([c EXCEPT !.path = Root(c.no), !.at = 0], d.index)
  ELSE
    LET no == Last(w.path).no
        es == w.page[no].ents
        mid == SplitPoint(d, es)
        own == Writable(w, no)
    IN IF ~replace /\ Len(es) = LeafOrder
       THEN IF mid = -1 THEN [w EXCEPT !.error = TRUE]
            ELSE SetLeaf(SplitLeaf(w, d, e, mid), d.index)
       ELSE IF own.error THEN own
       ELSE SetLeaf([own EXCEPT !.path[Len(w.path)].no = own.no, !.at = d.index,
                      !.page[own.no] = Leaf(IF replace THEN ReplaceAt(es, d.index + 1, e)
                                            ELSE InsertAt(es, d.index + 1, e))],
                    d.index)

-----------------------------------------------------------------------------
(* The calls.                                                                *)

(* The leaves of a tree from left to right, and their entries. *)
RECURSIVE LeavesOf(_, _)
LeavesOf(pg, no) ==
  IF IsLeaf(pg, no) THEN <<no>>
  ELSE FoldLeft(LAMBDA s, p : s \o LeavesOf(pg, p), <<>>, pg[no].ptrs)

EntriesOf(pg, no) ==
  IF no = 0 THEN <<>>
  ELSE FoldLeft(LAMBDA s, p : s \o pg[p].ents, <<>>, LeavesOf(pg, no))

Usable == txn.open /\ ~txn.error

(* A set or a step back leaves its mark until the cursor is placed anew. *)
After(c) == IF call \in {"set", "prev"} THEN call ELSE c

(* A scan goes from the match that find returned on, up to the first entry
   that is no match. *)
Scanning == call \in {"find", "scan"} /\ dbp.match = 1

TxnOpen ==
  /\ ~txn.open
  /\ txn' = [Closed EXCEPT !.open = TRUE, !.root = head]
  /\ UNCHANGED <<page, head, dbp, call, nsets>>

Find(k) ==
  /\ Usable
  /\ dbp' = Search(k) /\ call' = "find"
  /\ UNCHANGED <<page, head, txn, nsets>>

(* first and last of an empty tree follow a null pointer; no caller does. *)
First ==
  /\ Usable /\ "first" \in Moves /\ txn.root # 0
  /\ LET d == MoveFirst(dbp, Root(txn.root), 0, MaxKey) IN
     dbp' = [d EXCEPT !.start = Pos(d), !.nloops = 0, !.hasfind = TRUE]
  /\ call' = "first"
  /\ UNCHANGED <<page, head, txn, nsets>>

LastEntry ==
  /\ Usable /\ "last" \in Moves /\ txn.root # 0
  /\ LET d == MoveLast(dbp, Root(txn.root), 0, MaxKey) IN
     dbp' = [d EXCEPT !.start = Pos(d), !.nloops = 0, !.hasfind = TRUE]
  /\ call' = "last"
  /\ UNCHANGED <<page, head, txn, nsets>>

(* A step of a walk, which keeps its direction; the bounds stop it. *)
WalkBound == dbp.nloops < MaxLoops /\ dbp.nmatches < MaxMatches

NextEntry ==
  /\ Usable /\ "next" \in Moves /\ call # "prev"
  /\ dbp.hasfind /\ dbp.path # <<>> /\ WalkBound
  /\ dbp' = Forward(dbp) /\ call' = IF Scanning THEN "scan" ELSE After("next")
  /\ UNCHANGED <<page, head, txn, nsets>>

PrevEntry ==
  /\ Usable /\ "prev" \in Moves /\ call \notin {"scan", "next"}
  /\ dbp.hasfind /\ dbp.path # <<>> /\ WalkBound
  /\ dbp' = Backward(dbp) /\ call' = After("prev")
  /\ UNCHANGED <<page, head, txn, nsets>>

(* How the cache uses ed_bpt_set: with the key it searched for, right after
   the search, to replace the match a scan stopped at, or to add an entry
   where a scan of the matches ended, which is how obj_upsert stores a key
   whose hash collides with that of another key. *)
Asked(e, replace) ==
  /\ e.key = dbp.key
  /\ \/ call = "find"
     \/ call = "scan" /\ IF replace THEN dbp.match = 1 ELSE dbp.match = 0 \/ dbp.nloops > 0

(* The insert goes behind the matches of a scan, and the leaf is full: the
   scan moved entry_index, from which split_point counts the matches back. *)
SplitsPast ==
  call = "scan" /\ dbp.match = 0 /\ Len(LeafOf(dbp).ents) = LeafOrder

Refused(e) == ~dbp.hasfind \/ e.key < dbp.kmin \/ e.key > dbp.kmax

Adopt(w) ==
  /\ page' = w.page
  /\ txn' = [txn EXCEPT !.root = w.root, !.own = w.own, !.gc = w.gc, !.error = w.error]

Set(e, replace, n) ==
  /\ Usable /\ Asked(e, replace) /\ ~Refused(e)
  /\ SplitPast \/ ~SplitsPast
  /\ nsets < MaxChanges /\ nsets' = nsets + 1
  /\ LET w == InsertIntoLeaf(Work(n), dbp, e, replace /\ dbp.match = 1) IN
     /\ Adopt(w)
     /\ dbp' = IF w.error THEN dbp
               ELSE [dbp EXCEPT !.path = w.path, !.index = w.at, !.key = e.key,
                       !.kmax = e.key, !.match = 1, !.nmatches = 1, !.nloops = 0,
                       !.haskey = TRUE, !.hasentry = TRUE]
  /\ call' = "set"
  /\ UNCHANGED head

(* ED_EINDEX_KEY_MATCH *)
SetRefused(e) ==
  /\ Usable /\ Refused(e) /\ (dbp.hasfind => Asked(e, FALSE))
  /\ call' = "refused"
  /\ UNCHANGED <<page, head, txn, dbp, nsets>>

(* Behind the last entry (see CursorInLeaf) the code would move memory of
   negative length: no step of the model. *)
Del(n) ==
  /\ Usable /\ dbp.hasfind /\ dbp.hasentry
  /\ dbp.index < Len(LeafOf(dbp).ents)
  /\ EmptyLeaf \/ Len(LeafOf(dbp).ents) > 1
  /\ nsets < MaxChanges /\ nsets' = nsets + 1
  /\ LET no == Last(dbp.path).no
         copy == Writable(Work(n), no)
         own == [copy EXCEPT !.path[Len(dbp.path)].no = copy.no]
         w == IF MustClone(own, no) /\ ~own.error THEN SetNode(own, Len(dbp.path)) ELSE own
         es == RemoveAt(LeafOf(dbp).ents, dbp.index + 1)
         pg == [w.page EXCEPT ![copy.no] = Leaf(es)]
     IN IF w.error THEN Adopt(w) /\ UNCHANGED dbp
        ELSE /\ Adopt([w EXCEPT !.page = pg])
             /\ dbp' = [dbp EXCEPT !.path = w.path, !.nmatches = 0, !.hasentry = FALSE,
                          !.kmax = IF dbp.index = Len(es) THEN FindKmax(pg, w.path)
                                   ELSE es[dbp.index + 1].key]
  /\ call' = After("del")
  /\ UNCHANGED head

(* ed_txn_map cannot map a page that a call descends to. *)
MapFails ==
  /\ Usable /\ txn.root # 0 /\ ~IsLeaf(page, txn.root)
  /\ txn' = [txn EXCEPT !.error = TRUE]
  /\ UNCHANGED <<page, head, dbp, call, nsets>>

Drop(S) == page' = [p \in PageNo |-> IF p \in S THEN NoPage ELSE page[p]]

(* ed_txn_close without a commit, also what a commit does after an error. *)
TxnClose ==
  /\ txn.open
  /\ Drop(txn.own)
  /\ txn' = Closed /\ dbp' = NoCursor /\ call' = "none"
  /\ UNCHANGED <<head, nsets>>

TxnCommit ==
  /\ Usable
  /\ head' = txn.root
  /\ Drop(txn.gc)
  /\ txn' = Closed /\ dbp' = NoCursor /\ call' = "none"
  /\ UNCHANGED nsets

Next ==
  \/ TxnOpen \/ TxnClose \/ TxnCommit \/ MapFails
  \/ First \/ LastEntry \/ NextEntry \/ PrevEntry
  \/ \E k \in {e.key : e \in Entries} : Find(k)
  \/ \E e \in Entries : SetRefused(e)
  \/ \E e \in Entries, replace \in BOOLEAN, n \in Allocs : Set(e, replace, n)
  \/ \E n \in Allocs : Del(n)

Spec == Init /\ [][Next]_vars

-----------------------------------------------------------------------------
(* The properties.                                                           *)

RECURSIVE PagesOf(_, _), VerifyNode(_, _, _, _)
PagesOf(pg, no) ==
  IF no = 0 THEN {}
  ELSE IF IsLeaf(pg, no) THEN {no}
  ELSE {no} \cup UNION {PagesOf(pg, p) : p \in Range(pg[no].ptrs)}

(* ed_bpt_verify: verify_leaf and verify_node. *)
VerifyLeaf(es, min, max) ==
  \A i \in DOMAIN es : es[i].key \in min..max /\ (i > 1 => es[i - 1].key <= es[i].key)

VerifyNode(pg, no, min, max) ==
  IF IsLeaf(pg, no) THEN VerifyLeaf(pg[no].ents, min, max)
  ELSE LET ks == pg[no].keys IN
       \A i \in 0..Len(ks) :
          /\ i > 0 => ks[i] \in min..max
          /\ VerifyNode(pg, BranchPtr(pg[no], i),
                        IF i = 0 THEN min ELSE ks[i],
                        IF i = Len(ks) THEN max ELSE ks[i + 1] - 1)

Trees == {head} \cup (IF Usable THEN {txn.root} ELSE {})

(* Every tree, the committed one and the one the transaction works on, passes
   ed_bpt_verify: keys sorted and each leaf within the range its branches give
   it.  So entries with the same key share a leaf, on which scans rely.  It
   holds as long as no insert behind the matches of a scan splits a leaf, see
   RepeatsTogether. *)
Verified == \A no \in Trees \ {0} : VerifyNode(page, no, 0, MaxKey)

(* "The split cannot be between repeated keys", split_point: entries with the
   same key are in one leaf.  split_leaf asserts it of the two halves. *)
RepeatsTogether ==
  Usable /\ txn.root # 0 =>
    LET ls == LeavesOf(page, txn.root)
        KeysOf(i) == {e.key : e \in Range(page[ls[i]].ents)}
    IN \A i, j \in DOMAIN ls : i # j => KeysOf(i) \cap KeysOf(j) = {}

(* What a transaction replaced and what it allocated balance: its tree is the
   committed tree without the discarded pages and with all of the allocated
   ones.  A commit leaks no page and frees none that is still in the tree; a
   close without one leaves the committed tree whole. *)
PagesBalanced ==
  LET old == PagesOf(page, head) IN
  /\ {p \in PageNo : page[p] # NoPage} = old \cup txn.own
  /\ old \cap txn.own = {}
  /\ Usable => /\ txn.gc \subseteq old
               /\ PagesOf(page, txn.root) = (old \ txn.gc) \cup txn.own

(* The number of entries before a leaf, and before the cursor. *)
Before(no) ==
  LET ls == LeavesOf(page, txn.root)
      i == CHOOSE j \in DOMAIN ls : ls[j] = no
      f[j \in 0..Len(ls)] == IF j = 0 THEN 0 ELSE f[j - 1] + Len(page[ls[j]].ents)
  IN f[i - 1]

Rank(d) == Before(Last(d.path).no) + d.index

(* ed_bpt_next and ed_bpt_prev visit the entries in their order, one at a
   time, around the tree, from wherever find, first, last, set or del left the
   cursor: no entry is skipped or yielded twice, over any number of leaves. *)
WalkInOrder ==
  [][LET n == Len(EntriesOf(page, txn.root)) IN
     /\ NextEntry => Rank(dbp') = (Rank(dbp) + IF dbp.hasentry THEN 1 ELSE 0) % n
     /\ PrevEntry => Rank(dbp') = (Rank(dbp) - 1) % n]_vars

(* ed_bpt_find matches exactly when the tree has the key, and then stands on
   the first entry with it, so that a scan sees every one: as long as repeated
   keys share a leaf, which an insert behind the matches of a scan can undo
   (RepeatsTogether). *)
FindComplete ==
  Usable /\ call = "find" =>
    LET es == EntriesOf(page, txn.root)
        at == {i \in DOMAIN es : es[i].key = dbp.key}
    IN IF at = {} THEN dbp.match = 0 ELSE dbp.match = 1 /\ Rank(dbp) + 1 = Min(at)

(* "Minimum/Maximum key value that may be inserted at the current position":
   after find and on a walk from it, the tree with any key from kmin to kmax
   inserted at the cursor would still pass ed_bpt_verify.  ed_bpt_set relies on
   it. *)
CursorRange ==
  Usable /\ dbp.path # <<>> /\ call \in {"find", "scan", "next"} =>
    \A k \in dbp.kmin..dbp.kmax :
      VerifyNode([page EXCEPT ![Last(dbp.path).no].ents = InsertAt(@, dbp.index + 1, [key |-> k])],
                 txn.root, 0, MaxKey)

(* "Index of the entry in the leaf": a cursor that has an entry is on one. *)
CursorInLeaf ==
  Usable /\ dbp.hasentry => dbp.index < Len(LeafOf(dbp).ents)

(* The places of a tree's entries, and the bag of what is in them. *)
Places(pg, no) ==
  UNION {{<<p, i>> : i \in DOMAIN pg[p].ents} :
           p \in {q \in PagesOf(pg, no) : IsLeaf(pg, q)}}

BagOf(pg, no) ==
  LET At(x) == pg[x[1]].ents[x[2]]
      Count(S) == [e \in {At(x) : x \in S} |-> Cardinality({x \in S : At(x) = e})]
  IN CHOOSE b \in {Count(S) : S \in {Places(pg, no)}} : TRUE

Table == INSTANCE BptTable WITH
  table <- [work |-> BagOf(page, IF Usable THEN txn.root ELSE head),
            saved |-> BagOf(page, head),
            cur |-> IF Usable /\ dbp.hasentry THEN EntryAt(LeafOf(dbp), dbp.index) ELSE NoEntry]

(* The tree is a table to its callers: a call adds, replaces or removes the
   one entry it is for, whatever pages are split or copied, the committed
   table only changes in a commit, and a failed call loses nothing of it. *)
ImplementsTable == Table!Spec
=============================================================================
