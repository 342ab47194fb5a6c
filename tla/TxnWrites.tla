----------------------------- MODULE TxnWrites ------------------------------
(***************************************************************************)
(* Proofs about what a writer does to the pages: it works on the latest    *)
(* trees and only on copies, and no page is lost unless a process is       *)
(* killed or a free fails.                                                 *)
(***************************************************************************)
EXTENDS TxnProofs

-----------------------------------------------------------------------------
(* A writer works on the latest trees and only on copies. *)

Changing == {"write", "alloc", "record"}

(* The stamps of committed pages are old: at most hdr->xid, except while the
   writer that committed them has not stored its id.  So no page that must not
   be touched passes for one of the writer's own. *)
StampInv ==
  /\ \A t \in Txns : pc[t] \in Numbered => xid[t] = hxid + 1
  /\ \A t \in Txns : pc[t] = "tree" => \A p \in Pages(view[t]) : pxid[p] <= hxid + 1
  /\ \A p \in Pages(tree) : \/ pxid[p] <= hxid
                            \/ pxid[p] = hxid + 1 /\ \E t \in Txns : pc[t] = "xid"
  /\ \A t \in Txns : inplace[t] = {}

-----------------------------------------------------------------------------
(* A freed page loses its stamp, the others keep theirs. *)
Fades == pxid' \in [Page -> Nat] /\ \A p \in Page : pxid'[p] \in {pxid[p], 0}

(* A step that neither changes the trees nor brings t nearer to it. *)
Plain(t) ==
  /\ tree' = tree /\ hxid' = hxid /\ Fades
  /\ inplace'[t] \subseteq inplace[t]
  /\ pc[t] # "xid" /\ pc'[t] \notin {"tree", "xid"}
  /\ pc'[t] \in Numbered =>
       /\ pc[t] \in Numbered /\ xid'[t] = xid[t]
       /\ view'[t] = view[t] /\ used'[t] = used[t] /\ gc'[t] = gc[t]
  /\ pc'[t] \in Changing => pc[t] \in Changing

LEMMA FreeFades ==
  ASSUME TypeOK, NEW S, NEW x, GiveBack(S, x) \/ FreePages(S, x)
  PROVE  Fades
<1> pxid \in [Page -> Nat]
  BY Zenon DEF TypeOK
<1>1. CASE FreePages(S, x)
  BY <1>1, Zenon DEF FreePages, Fades
<1>2. CASE pxid' = pxid
  BY <1>2, Zenon DEF Fades
<1> QED
  BY <1>1, <1>2, Zenon DEF GiveBack

LEMMA SameFades ==
  ASSUME TypeOK, pxid' = pxid
  PROVE  Fades
BY Zenon DEF Fades, TypeOK

LEMMA PlainStamp ==
  ASSUME TypeOK, StampInv, NEW t \in Txns, Apart(t), Plain(t)
  PROVE  StampInv'
<1>1. \A u \in Txns : pc'[u] \in Numbered => pc[u] \in Numbered /\ xid'[u] = xid[u]
  BY Zenon DEF Apart, Plain
<1>2. \A u \in Txns : pc'[u] = "tree" => pc[u] = "tree" /\ view'[u] = view[u]
  BY Zenon DEF Apart, Plain
<1>3. \A u \in Txns : pc[u] = "xid" => pc'[u] = "xid"
  BY Zenon DEF Apart, Plain
<1>4. \A u \in Txns : inplace'[u] = {}
  BY Zenon DEF Apart, Plain, StampInv
<1>5. \A p \in Page : pxid'[p] = pxid[p] \/ pxid'[p] = 0
  BY Zenon DEF Plain, Fades
<1>6. hxid' = hxid /\ tree' = tree /\ hxid \in Nat /\ Pages(tree) \subseteq Page
      /\ \A u \in Txns : Pages(view[u]) \subseteq Page
  BY DEF Plain, TypeOK, Pages, DB
<1>7. \A u \in Txns : pc'[u] = "tree" => \A p \in Pages(view'[u]) : pxid'[p] <= hxid' + 1
  BY <1>2, <1>5, <1>6 DEF StampInv
<1>8. \A p \in Pages(tree') : \/ pxid'[p] <= hxid'
                              \/ pxid'[p] = hxid' + 1 /\ \E u \in Txns : pc'[u] = "xid"
  BY <1>3, <1>5, <1>6 DEF StampInv
<1>9. \A u \in Txns : pc'[u] \in Numbered => xid'[u] = hxid' + 1
  BY <1>1, <1>6, Zenon DEF StampInv
<1> QED
  BY <1>4, <1>7, <1>8, <1>9, Zenon DEF StampInv, Pages

LEMMA PlainUpdate ==
  ASSUME NoLostUpdate, NEW t \in Txns, Apart(t), Plain(t)
  PROVE  NoLostUpdate'
<1>1. \A u \in Txns : pc'[u] \in Changing =>
        pc[u] \in Changing /\ view'[u] = view[u] /\ used'[u] = used[u] /\ gc'[u] = gc[u]
  BY Zenon DEF Apart, Plain, Changing, Numbered
<1>2. tree' = tree
  BY Zenon DEF Plain
<1> QED
  BY <1>1, <1>2, Zenon DEF NoLostUpdate, Changing, Pages

(* The steps of a transaction that are plain. *)
LEMMA PlainStep ==
  ASSUME TypeOK, LockInv, NEW t \in Txns,
         \/ TxnNew(t) \/ OpenRead(t) \/ OpenWrite(t) \/ Close(t) \/ XminBegin(t)
         \/ GetXid(t) \/ SetXid(t) \/ LoadRoot0(t) \/ LoadFails(t)
         \/ RecoverActive(t) \/ FreeActive(t) \/ FreeActiveFails(t) \/ TakePending(t)
         \/ GcBegin(t) \/ GcTake(t) \/ (\E c \in Conn : XminSlot(t, c))
         \/ Take(t) \/ AllocFails(t) \/ Record(t)
         \/ Discard(t) \/ FlushActive(t) \/ StorePending(t) \/ Unlock(t)
  PROVE  Plain(t)
<1>1. CASE TxnNew(t)
  <2>1. Fades
    BY <1>1, SameFades, Zenon DEF TxnNew, wrVars
  <2> QED
    BY <1>1, <2>1, Zenon DEF TxnNew, Plain, Goto, Runs, Numbered, Changing, TypeOK,
       hdrVars, wrVars, runVars
<1>2. CASE OpenRead(t)
  <2>1. Fades
    BY <1>2, SameFades, Zenon DEF OpenRead, wrVars
  <2> QED
    BY <1>2, <2>1, Zenon DEF OpenRead, Plain, Goto, Runs, Numbered, Changing, TypeOK,
       hdrVars, wrVars, runVars
<1>3. CASE OpenWrite(t)
  <2>1. Fades
    BY <1>3, SameFades, Zenon DEF OpenWrite, wrVars
  <2> QED
    BY <1>3, <2>1, Zenon DEF OpenWrite, Plain, Goto, Runs, Numbered, Changing, TypeOK,
       hdrVars, wrVars, runVars
<1>4. CASE GetXid(t)
  <2>1. Fades
    BY <1>4, SameFades, Zenon DEF GetXid, wrVars
  <2> QED
    BY <1>4, <2>1, Zenon DEF GetXid, Plain, Goto, Runs, Numbered, Changing, TypeOK,
       hdrVars, wrVars, runVars
<1>5. CASE SetXid(t)
  <2>1. Fades
    BY <1>5, SameFades, Zenon DEF SetXid, wrVars
  <2> QED
    BY <1>5, <2>1, Zenon DEF SetXid, Plain, Goto, Runs, Numbered, Changing, TypeOK,
       hdrVars, wrVars, runVars
<1>6. CASE LoadRoot0(t)
  <2>1. Fades
    BY <1>6, SameFades, Zenon DEF LoadRoot0, wrVars
  <2> QED
    BY <1>6, <2>1, Zenon DEF LoadRoot0, Plain, Goto, Runs, Numbered, Changing, TypeOK,
       hdrVars, wrVars, runVars
<1>7. CASE LoadFails(t)
  <2>1. Fades
    BY <1>7, SameFades, Zenon DEF LoadFails, wrVars
  <2> QED
    BY <1>7, <2>1, Zenon DEF LoadFails, Plain, Goto, Runs, Numbered, Changing, TypeOK,
       hdrVars, wrVars, runVars
<1>8. CASE RecoverActive(t)
  <2>1. Fades
    BY <1>8, SameFades, Zenon DEF RecoverActive, wrVars
  <2> QED
    BY <1>8, <2>1, Zenon DEF RecoverActive, Plain, Goto, Runs, Numbered, Changing, TypeOK,
       hdrVars, wrVars, runVars
<1>9. CASE TakePending(t)
  <2>1. Fades
    BY <1>9, SameFades, Zenon DEF TakePending, wrVars
  <2> QED
    BY <1>9, <2>1, Zenon DEF TakePending, Plain, Goto, Runs, Numbered, Changing, TypeOK,
       hdrVars, wrVars, runVars
<1>10. CASE FreeActiveFails(t)
  <2>1. Fades
    BY <1>10, SameFades, Zenon DEF FreeActiveFails, wrVars
  <2> QED
    BY <1>10, <2>1, Zenon DEF FreeActiveFails, Plain, Goto, Runs, Numbered, Changing, TypeOK,
       hdrVars, wrVars, runVars
<1>11. CASE GcBegin(t)
  <2>1. Fades
    BY <1>11, SameFades, Zenon DEF GcBegin, wrVars
  <2> QED
    BY <1>11, <2>1, Zenon DEF GcBegin, FreePoints, Plain, Goto, Runs, Numbered, Changing, TypeOK,
       hdrVars, wrVars, runVars
<1>12. CASE GcTake(t)
  <2>1. Fades
    BY <1>12, SameFades, Zenon DEF GcTake, wrVars
  <2> QED
    BY <1>12, <2>1, Zenon DEF GcTake, Scans, FreePoints, Plain, Goto, Runs, Numbered, Changing, TypeOK,
       hdrVars, wrVars, runVars
<1>13. CASE XminBegin(t)
  <2>1. Fades
    BY <1>13, SameFades, Zenon DEF XminBegin, wrVars
  <2> QED
    BY <1>13, <2>1, Zenon DEF XminBegin, Plain, Goto, Runs, Numbered, Changing, TypeOK,
       hdrVars, wrVars, runVars
<1>14. CASE Take(t)
  <2>1. Fades
    BY <1>14, SameFades, Zenon DEF Take, wrVars
  <2> QED
    BY <1>14, <2>1, Zenon DEF Take, Plain, Goto, Runs, Numbered, Changing, TypeOK,
       hdrVars, wrVars, runVars
<1>15. CASE AllocFails(t)
  <2>1. Fades
    BY <1>15, SameFades, Zenon DEF AllocFails, wrVars
  <2> QED
    BY <1>15, <2>1, Zenon DEF AllocFails, Plain, Goto, Runs, Numbered, Changing, TypeOK,
       hdrVars, wrVars, runVars
<1>16. CASE Record(t)
  <2>1. Fades
    BY <1>16, SameFades, Zenon DEF Record, wrVars
  <2> QED
    BY <1>16, <2>1, Zenon DEF Record, Plain, Goto, Runs, Numbered, Changing, TypeOK,
       hdrVars, wrVars, runVars
<1>17. CASE FlushActive(t)
  <2>1. Fades
    BY <1>17, SameFades, Zenon DEF FlushActive, wrVars
  <2> QED
    BY <1>17, <2>1, Zenon DEF FlushActive, Plain, Goto, Runs, Numbered, Changing, TypeOK,
       hdrVars, wrVars, runVars
<1>18. CASE StorePending(t)
  <2>1. Fades
    BY <1>18, SameFades, Zenon DEF StorePending, wrVars
  <2> QED
    BY <1>18, <2>1, Zenon DEF StorePending, Plain, Goto, Runs, Numbered, Changing, TypeOK,
       hdrVars, wrVars, runVars
<1>19. CASE FreeActive(t)
  <2>1. Fades
    BY <1>19, FreeFades, Zenon DEF FreeActive, wrVars
  <2> QED
    BY <1>19, <2>1, Zenon DEF FreeActive, Plain, Goto, Runs, Numbered, Changing, TypeOK,
       hdrVars, wrVars, runVars
<1>20. CASE Discard(t)
  <2>1. Fades
    BY <1>20, FreeFades, Zenon DEF Discard, wrVars
  <2> QED
    BY <1>20, <2>1, Zenon DEF Discard, Plain, Goto, Runs, Numbered, Changing, TypeOK,
       hdrVars, wrVars, runVars
<1>21. CASE Unlock(t)
  <2>1. Fades
    BY <1>21, FreeFades, Zenon DEF Unlock, wrVars
  <2> QED
    BY <1>21, <2>1, Zenon DEF Unlock, Plain, Goto, Runs, Numbered, Changing, TypeOK,
       hdrVars, wrVars, runVars
<1>22. ASSUME NEW c \in Conn, XminSlot(t, c) PROVE Plain(t)
  <2>1. Fades
    BY <1>22, SameFades, Zenon DEF XminSlot, wrVars
  <2> QED
    BY <1>22, <2>1, Zenon DEF XminSlot, Scans, FreePoints, Plain, Goto, Runs, Numbered, Changing, TypeOK,
       hdrVars, wrVars, runVars
<1>23. ASSUME NEW r \in BOOLEAN, CloseLocked(t, r) PROVE Plain(t)
  <2>1. Fades
    BY <1>23, SameFades, Zenon DEF CloseLocked, wrVars
  <2> QED
    BY <1>23, <2>1, Zenon DEF CloseLocked, Forget, Closable, Plain, Goto, Runs, Numbered, Changing, TypeOK,
       hdrVars, wrVars, runVars
<1>24. ASSUME NEW r \in BOOLEAN, CloseUnlocked(t, r) PROVE Plain(t)
  <2>1. Fades
    BY <1>24, SameFades, Zenon DEF CloseUnlocked, wrVars
  <2> QED
    BY <1>24, <2>1, Zenon DEF CloseUnlocked, Forget, Plain, Goto, Runs, Numbered, Changing, TypeOK,
       hdrVars, wrVars, runVars
<1> QED
  BY <1>1, <1>2, <1>3, <1>4, <1>5, <1>6, <1>7, <1>8, <1>9, <1>10, <1>11,
     <1>12, <1>13, <1>14, <1>15, <1>16, <1>17, <1>18, <1>19, <1>20, <1>21,
     <1>22, <1>23, <1>24, Zenon DEF Close

-----------------------------------------------------------------------------
(* The other steps, for the pages of the writer. *)
LEMMA UpdateStep ==
  ASSUME TypeOK, LockInv, PageInv, NoLostUpdate, NEW t \in Txns, TxnStep(t)
  PROVE  NoLostUpdate'
<1>a. Apart(t)
  BY StepApart, Zenon
<1> DEFINE Kept(u) == pc'[u] \in Changing =>
                        Pages(tree') = (Pages(view'[u]) \ used'[u]) \cup gc'[u]
<1>1. ASSUME tree' = tree, Kept(t) PROVE NoLostUpdate'
  <2>1. ASSUME NEW u \in Txns \ {t} PROVE Kept(u)
    BY <1>1, <1>a, Zenon DEF Apart, NoLostUpdate, Changing
  <2> QED
    BY <1>1, <2>1, Zenon DEF NoLostUpdate, Changing, Pages
<1>2. ASSUME pc[t] \in Locked, pc'[t] \notin Changing PROVE NoLostUpdate'
  <2>1. ASSUME NEW u \in Txns \ {t} PROVE pc'[u] \notin Changing
    <3>1. pc[u] \notin Locked /\ pc'[u] = pc[u]
      BY <1>2, <1>a, <2>1, OtherIdle, Zenon DEF Apart
    <3> QED
      BY <3>1, Zenon DEF Changing, Locked
  <2> QED
    BY <1>2, <2>1, Zenon DEF NoLostUpdate, Changing
<1>3. CASE LoadRoot1(t)
  <2>1. tree' = tree /\ pc'[t] \notin Changing
    BY <1>3, Zenon DEF LoadRoot1, Goto, hdrVars, Changing, TypeOK
  <2> QED
    BY <2>1, <1>1, Zenon
<1>4. CASE SetActive(t)
  <2>1. /\ tree' = tree /\ view'[t] = view[t] /\ used'[t] = used[t] /\ gc'[t] = gc[t]
        /\ pc[t] = "setactive"
    BY <1>4, Zenon DEF SetActive, Runs
  <2>2. view[t] = tree /\ used[t] = {} /\ gc[t] = {}
    BY <2>1, Zenon DEF PageInv, Good, Settled, Edits, Editing, Locked
  <2> QED
    BY <2>1, <2>2, <1>1, Zenon DEF Pages
<1>5. ASSUME NEW d \in DB, NEW n \in Page, NEW p \in Page, Clone(t, d, n, p)
      PROVE  NoLostUpdate'
  <2>1. /\ pc[t] = "write" /\ used'[t] = used[t] \cup {p} /\ gc'[t] = gc[t] \cup {n}
        /\ p \in pg[t] \ used[t] /\ n \in view[t][d] /\ tree' = tree
        /\ \/ d = 0 /\ view'[t][0] = (view[t][0] \ {n}) \cup {p} /\ view'[t][1] = view[t][1]
           \/ d = 1 /\ view'[t][1] = (view[t][1] \ {n}) \cup {p} /\ view'[t][0] = view[t][0]
    <3>1. view' = [view EXCEPT ![t][d] = (view[t][d] \ {n}) \cup {p}]
      BY <1>5, Zenon DEF Clone
    <3>2. PICK v : v = (view[t][d] \ {n}) \cup {p}
      BY Zenon
    <3>3. view' = [view EXCEPT ![t][d] = v]
      BY <3>1, <3>2, Zenon
    <3>4. \/ d = 0 /\ view'[t][0] = v /\ view'[t][1] = view[t][1]
          \/ d = 1 /\ view'[t][1] = v /\ view'[t][0] = view[t][0]
      BY <3>3, ViewAt, Zenon
    <3> QED
      BY <1>5, <3>2, <3>4, Zenon DEF Clone, ReplacedBy, hdrVars, Runs, TypeOK
  <2>2. Holds(t) /\ Edits(t)
    BY <2>1, Zenon DEF PageInv, Good, Locked
  <2>3. n \notin used[t]
    <3>1. pxid[n] < xid[t] /\ xid[t] \in Nat
      BY <1>5, Zenon DEF Clone, MustClone, TypeOK
    <3>2. n \in used[t] => pxid[n] = xid[t]
      BY <2>1, <2>2, Zenon DEF Edits, Editing
    <3> QED
      BY <3>1, <3>2
  <2>4. p \notin Pages(tree) /\ p \notin Pages(view[t]) /\ Disjoint(view[t][0], view[t][1])
    BY <2>1, <2>2, Zenon DEF Holds, Edits, Disjoint, Out, Editing
  <2>5. Pages(tree) = (Pages(view[t]) \ used[t]) \cup gc[t]
    BY <2>1, Zenon DEF NoLostUpdate
  <2>6. Pages(view'[t]) = (Pages(view[t]) \ {n}) \cup {p} /\ n \in Pages(view[t])
    BY <2>1, <2>4 DEF Pages, Disjoint
  <2>7. Pages(tree') = (Pages(view'[t]) \ used'[t]) \cup gc'[t]
    BY <2>1, <2>3, <2>4, <2>5, <2>6
  <2> QED
    BY <2>1, <2>7, <1>1, Zenon
<1>6. ASSUME NEW d \in DB, NEW p \in Page, NewNode(t, d, p)
      PROVE  NoLostUpdate'
  <2>1. /\ pc[t] = "write" /\ used'[t] = used[t] \cup {p} /\ gc'[t] = gc[t]
        /\ p \in pg[t] \ used[t] /\ tree' = tree
        /\ \/ d = 0 /\ view'[t][0] = view[t][0] \cup {p} /\ view'[t][1] = view[t][1]
           \/ d = 1 /\ view'[t][1] = view[t][1] \cup {p} /\ view'[t][0] = view[t][0]
    <3>1. view' = [view EXCEPT ![t][d] = view[t][d] \cup {p}]
      BY <1>6, Zenon DEF NewNode
    <3>2. PICK v : v = view[t][d] \cup {p}
      BY Zenon
    <3>3. view' = [view EXCEPT ![t][d] = v]
      BY <3>1, <3>2, Zenon
    <3>4. \/ d = 0 /\ view'[t][0] = v /\ view'[t][1] = view[t][1]
          \/ d = 1 /\ view'[t][1] = v /\ view'[t][0] = view[t][0]
      BY <3>3, ViewAt, Zenon
    <3> QED
      BY <1>6, <3>2, <3>4, Zenon DEF NewNode, hdrVars, Runs, TypeOK
  <2>2. Holds(t) /\ Edits(t)
    BY <2>1, Zenon DEF PageInv, Good, Locked
  <2>3. p \notin Pages(tree) /\ p \notin Pages(view[t])
    BY <2>1, <2>2, Zenon DEF Holds, Edits, Disjoint, Out, Editing
  <2>4. Pages(tree) = (Pages(view[t]) \ used[t]) \cup gc[t]
    BY <2>1, Zenon DEF NoLostUpdate
  <2>5. Pages(view'[t]) = Pages(view[t]) \cup {p}
    BY <2>1, Zenon DEF Pages
  <2>6. Pages(tree') = (Pages(view'[t]) \ used'[t]) \cup gc'[t]
    BY <2>1, <2>3, <2>4, <2>5, Zenon
  <2> QED
    BY <2>1, <2>6, <1>1, Zenon
<1>7. ASSUME NEW d \in DB, NEW n \in Page, WriteInPlace(t, d, n) PROVE NoLostUpdate'
  <2>1. /\ tree' = tree /\ view' = view /\ used' = used /\ gc' = gc /\ pc' = pc
    BY <1>7, Zenon DEF WriteInPlace, hdrVars
  <2> QED
    BY <2>1, Zenon DEF NoLostUpdate, Pages
<1>8. CASE CommitBegin(t) \/ StoreTree(t) \/ StoreXid(t)
  <2>1. pc[t] \in Locked /\ pc'[t] \notin Changing
    BY <1>8, Zenon DEF CommitBegin, StoreTree, StoreXid, Runs, Goto, Locked, Changing, TypeOK
  <2> QED
    BY <2>1, <1>2, Zenon
<1> HIDE DEF Kept
<1>9. CASE Plain(t)
  BY <1>9, <1>a, PlainUpdate, Zenon
<1> QED
  BY <1>3, <1>4, <1>5, <1>6, <1>7, <1>8, <1>9, PlainStep, Zenon DEF TxnStep, Progress, Work

-----------------------------------------------------------------------------
(* The same steps, for the stamps. *)
LEMMA StampStep ==
  ASSUME TypeOK, LockInv, PageInv, StampInv, NEW t \in Txns, TxnStep(t)
  PROVE  StampInv'
<1>a. Apart(t)
  BY StepApart, Zenon
<1>b. /\ hxid \in Nat /\ pxid \in [Page -> Nat] /\ Pages(tree) \subseteq Page
      /\ \A u \in Txns : Pages(view[u]) \subseteq Page
  BY DEF TypeOK, Pages, DB
<1>c. ASSUME pc[t] \in Locked, NEW u \in Txns \ {t}
      PROVE  pc'[u] \notin Numbered /\ pc[u] \notin Numbered
  <2>1. pc[u] \notin Locked /\ pc'[u] = pc[u]
    BY <1>c, <1>a, OtherIdle, Zenon DEF Apart
  <2> QED
    BY <2>1, Zenon DEF Numbered, Locked
<1>d. ASSUME inplace'[t] = {} PROVE \A u \in Txns : inplace'[u] = {}
  BY <1>d, <1>a, Zenon DEF Apart, StampInv
<1>e. ASSUME pc[t] \in Numbered \ {"xid"} PROVE \A p \in Pages(tree) : pxid[p] <= hxid
  BY <1>e, <1>c, Zenon DEF StampInv, Numbered, Locked
<1>1. ASSUME pc[t] \in Locked, inplace'[t] = {},
             pc'[t] \in Numbered => xid'[t] = hxid' + 1,
             pc'[t] = "tree" => \A p \in Pages(view'[t]) : pxid'[p] <= hxid' + 1,
             \A p \in Pages(tree') : \/ pxid'[p] <= hxid'
                                     \/ pxid'[p] = hxid' + 1 /\ pc'[t] = "xid"
      PROVE  StampInv'
  <2>1. \A u \in Txns : pc'[u] \in Numbered => u = t
    BY <1>1, <1>c, Zenon
  <2>2. \A u \in Txns : pc'[u] = "tree" => u = t
    BY <2>1, Zenon DEF Numbered
  <2> QED
    BY <1>1, <1>d, <2>1, <2>2, Zenon DEF StampInv, Pages
<1>2. CASE LoadRoot1(t)
  <2>1. /\ hxid' = hxid /\ tree' = tree /\ pxid' = pxid /\ inplace' = inplace
        /\ pc[t] = "load1" /\ pc'[t] \in {"open", "recover"}
        /\ pc'[t] = "recover" => xid'[t] = hxid + 1
    BY <1>2, Zenon DEF LoadRoot1, Runs, Goto, hdrVars, TypeOK
  <2>2. \A u \in Txns : pc'[u] \in Numbered => xid'[u] = hxid' + 1
    BY <2>1, <1>a, Zenon DEF Apart, StampInv, Numbered
  <2>3. \A u \in Txns : pc'[u] = "tree" => pc[u] = "tree" /\ view'[u] = view[u]
    BY <2>1, <1>a, Zenon DEF Apart
  <2>4. \A u \in Txns : pc[u] = "xid" => pc'[u] = "xid"
    BY <2>1, <1>a, Zenon DEF Apart
  <2> QED
    BY <2>1, <2>2, <2>3, <2>4, Zenon DEF StampInv, Pages
<1>3. CASE SetActive(t)
  <2>1. /\ hxid' = hxid /\ tree' = tree /\ inplace' = inplace /\ xid' = xid
        /\ pc[t] = "setactive" /\ pc'[t] = "write"
    BY <1>3, Zenon DEF SetActive, Runs, Goto, TypeOK
  <2>2. Fades
    BY <1>3, FreeFades, Zenon DEF SetActive
  <2>3. \A p \in Pages(tree) : pxid'[p] <= hxid
    BY <2>1, <2>2, <1>b, <1>e DEF Fades, Numbered
  <2> QED
    BY <2>1, <2>3, <1>1, Zenon DEF StampInv, Numbered, Locked
<1>4. ASSUME NEW d \in DB, NEW p \in Page,
             NewNode(t, d, p) \/ \E n \in Page : Clone(t, d, n, p)
      PROVE  StampInv'
  <2>1. /\ hxid' = hxid /\ tree' = tree /\ inplace' = inplace /\ xid' = xid
        /\ pc[t] = "write" /\ pc' = pc /\ p \in pg[t]
        /\ pxid' = [pxid EXCEPT ![p] = xid[t]]
    BY <1>4, Zenon DEF NewNode, Clone, Runs, hdrVars
  <2>2. p \notin Pages(tree)
    BY <2>1, Zenon DEF PageInv, Good, Locked, Holds, Disjoint, Out
  <2>3. \A n \in Pages(tree) : pxid'[n] <= hxid
    BY <2>1, <2>2, <1>b, <1>e, Zenon DEF Numbered
  <2> QED
    BY <2>1, <2>3, <1>1, Zenon DEF StampInv, Numbered, Locked
<1>5. ASSUME NEW d \in DB, NEW n \in Page, WriteInPlace(t, d, n) PROVE FALSE
  <2>1. pc[t] = "write" /\ n \in view[t][d] \ used[t] /\ ~(pxid[n] < xid[t]) /\ d \in {0, 1}
    BY <1>5, Zenon DEF WriteInPlace, MustClone, Runs, DB
  <2>2. n \in Pages(tree)
    BY <2>1, Zenon DEF PageInv, Good, Locked, Edits, Editing, Pages
  <2>3. pxid[n] <= hxid /\ xid[t] = hxid + 1
    BY <2>1, <2>2, <1>e, Zenon DEF StampInv, Numbered
  <2> QED
    BY <2>1, <2>3, <1>b
<1>6. CASE CommitBegin(t)
  <2>1. /\ hxid' = hxid /\ tree' = tree /\ inplace' = inplace /\ xid' = xid
        /\ pxid' = pxid /\ view' = view /\ pc[t] = "write" /\ pc'[t] = "tree"
    BY <1>6, Zenon DEF CommitBegin, Runs, Goto, TypeOK
  <2>2. xid[t] = hxid + 1 /\ \A p \in Pages(tree) : pxid[p] <= hxid
    BY <2>1, <1>e, Zenon DEF StampInv, Numbered
  <2>3. /\ Pages(view[t]) \subseteq Pages(tree) \cup used[t]
        /\ \A p \in used[t] : pxid[p] = xid[t]
    BY <2>1, Zenon DEF PageInv, Good, Locked, Edits, Editing
  <2>4. \A p \in Pages(view[t]) : pxid[p] <= hxid + 1
    BY <2>2, <2>3, <1>b
  <2>5. pc[t] \in Locked /\ inplace'[t] = {}
    BY <2>1, Zenon DEF StampInv, Locked
  <2> QED
    BY <2>1, <2>2, <2>4, <2>5, <1>1, Zenon
<1>7. CASE StoreTree(t)
  <2>1. /\ hxid' = hxid /\ tree' = view[t] /\ inplace' = inplace /\ xid' = xid
        /\ pxid' = pxid /\ pc[t] = "tree" /\ pc'[t] = "xid"
    BY <1>7, Zenon DEF StoreTree, wrVars, Runs, Goto, TypeOK
  <2>2. xid[t] = hxid + 1 /\ \A p \in Pages(view[t]) : pxid[p] <= hxid + 1
    BY <2>1, Zenon DEF StampInv, Numbered
  <2>3. \A p \in Pages(tree') : pxid'[p] <= hxid' \/ pxid'[p] = hxid' + 1
    BY <2>1, <2>2, <1>b
  <2>4. pc[t] \in Locked /\ inplace'[t] = {}
    BY <2>1, Zenon DEF StampInv, Locked
  <2> QED
    BY <2>1, <2>2, <2>3, <2>4, <1>1, Zenon
<1>8. CASE StoreXid(t)
  <2>1. /\ hxid' = xid[t] /\ tree' = tree /\ inplace' = inplace
        /\ pxid' = pxid /\ pc[t] = "xid" /\ pc'[t] = "discard"
    BY <1>8, Zenon DEF StoreXid, wrVars, Runs, Goto, TypeOK
  <2>2. xid[t] = hxid + 1 /\ pc'[t] \notin Numbered
    BY <2>1, Zenon DEF StampInv, Numbered
  <2>3. \A p \in Pages(tree') : pxid'[p] <= hxid'
    BY <2>1, <2>2, <1>b DEF StampInv
  <2>4. pc[t] \in Locked /\ inplace'[t] = {}
    BY <2>1, Zenon DEF StampInv, Locked
  <2> QED
    BY <2>1, <2>2, <2>3, <2>4, <1>1, Zenon
<1>9. CASE Plain(t)
  BY <1>9, <1>a, PlainStamp, Zenon
<1> QED
  BY <1>2, <1>3, <1>4, <1>5, <1>6, <1>7, <1>8, <1>9, PlainStep, Zenon
  DEF TxnStep, Progress, Work

-----------------------------------------------------------------------------
(* The steps of a process. *)
LEMMA ProcUpdate ==
  ASSUME TypeOK, NoLostUpdate, NEW q \in Proc, ProcStep(q)
  PROVE  NoLostUpdate'
<1>1. CASE Crash(q)
  <2>1. tree' = tree
    BY <1>1, Zenon DEF Crash
  <2>2. ASSUME NEW u \in Txns, Owner[u] = q PROVE pc'[u] = "none"
    BY <1>1, <2>2, Zenon DEF Crash
  <2>3. ASSUME NEW u \in Txns, Owner[u] # q
        PROVE  pc'[u] = pc[u] /\ view'[u] = view[u] /\ used'[u] = used[u] /\ gc'[u] = gc[u]
    BY <1>1, <2>3, Zenon DEF Crash
  <2> QED
    BY <2>1, <2>2, <2>3, Zenon DEF NoLostUpdate, Pages
<1>2. CASE UNCHANGED <<tree, pc, view, used, gc>>
  BY <1>2, Zenon DEF NoLostUpdate, Pages
<1> QED
  BY <1>1, <1>2, Zenon DEF ProcStep, IdxOpen, IdxClose, Stat, Repair, hdrVars, wrVars

LEMMA ProcStamp ==
  ASSUME TypeOK, StampInv, NEW q \in Proc, ProcStep(q), "xid" \notin CrashAt
  PROVE  StampInv'
<1>b. /\ hxid \in Nat /\ pxid \in [Page -> Nat] /\ Pages(tree) \subseteq Page
      /\ \A u \in Txns : Pages(view[u]) \subseteq Page
  BY DEF TypeOK, Pages, DB
<1>1. CASE Crash(q)
  <2>1. tree' = tree /\ hxid' = hxid /\ pxid' = pxid
    BY <1>1, Zenon DEF Crash
  <2>2. ASSUME NEW u \in Txns, Owner[u] = q
        PROVE  pc'[u] = "none" /\ pc[u] # "xid" /\ inplace'[u] = {}
    BY <1>1, <2>2, Zenon DEF Crash
  <2>3. ASSUME NEW u \in Txns, Owner[u] # q
        PROVE  /\ pc'[u] = pc[u] /\ view'[u] = view[u] /\ xid'[u] = xid[u]
               /\ inplace'[u] = inplace[u]
    BY <1>1, <2>3, Zenon DEF Crash
  <2>4. \A u \in Txns : inplace'[u] = {} /\ (pc[u] = "xid" => pc'[u] = "xid")
    BY <2>2, <2>3, Zenon DEF StampInv
  <2>5. \A u \in Txns : pc'[u] \in Numbered => xid'[u] = hxid' + 1
    BY <2>1, <2>2, <2>3, Zenon DEF StampInv, Numbered
  <2>6. \A u \in Txns : pc'[u] = "tree" => pc[u] = "tree" /\ view'[u] = view[u]
    BY <2>2, <2>3, Zenon
  <2> QED
    BY <2>1, <2>4, <2>5, <2>6, Zenon DEF StampInv, Pages
<1>2. ASSUME UNCHANGED <<hxid, tree, pc, view, xid, inplace>>, Fades PROVE StampInv'
  <2>1. \A p \in Page : pxid'[p] = pxid[p] \/ pxid'[p] = 0
    BY <1>2, Zenon DEF Fades
  <2>2. \A u \in Txns : pc[u] = "tree" => \A p \in Pages(view[u]) : pxid'[p] <= hxid + 1
    BY <2>1, <1>b DEF StampInv
  <2>3. \A p \in Pages(tree) : \/ pxid'[p] <= hxid
                               \/ pxid'[p] = hxid + 1 /\ \E u \in Txns : pc[u] = "xid"
    BY <2>1, <1>b DEF StampInv
  <2> QED
    BY <1>2, <2>2, <2>3, Zenon DEF StampInv, Pages
<1>3. CASE Repair(q)
  BY <1>3, <1>2, FreeFades, Zenon DEF Repair, hdrVars, wrVars
<1>4. CASE (\E c \in Conn : IdxOpen(q, c)) \/ IdxClose(q) \/ Stat(q)
  BY <1>4, <1>2, SameFades, Zenon DEF IdxOpen, IdxClose, Stat, hdrVars, wrVars
<1> QED
  BY <1>1, <1>3, <1>4, Zenon DEF ProcStep

-----------------------------------------------------------------------------
(* With at most one process repairing leaks, no commit is ever lost: while a
   write transaction changes the trees, the committed pages are the ones it
   still refers to and the ones it queued with ed_txn_discard, in every
   interleaving of processes, crashes and failing calls. *)
THEOREM NoLostUpdateTheorem ==
  ASSUME \A q, r \in Repairers : q = r
  PROVE  Spec => []NoLostUpdate
<1> DEFINE Inv == Sound /\ NoLostUpdate
<1>1. Init => Inv
  BY SoundInit, Zenon DEF Init, NoLostUpdate
<1>2. Inv /\ [Next]_vars => Inv'
  <2> SUFFICES ASSUME Inv, [Next]_vars PROVE Inv'
    BY Zenon
  <2>1. Sound' /\ TypeOK /\ LockInv /\ PageInv
    BY SoundStep, Zenon DEF Sound
  <2>2. CASE Next
    BY <2>1, <2>2, UpdateStep, ProcUpdate, Zenon DEF Next
  <2>3. CASE UNCHANGED vars
    <3>1. UNCHANGED <<tree, pc, view, used, gc>>
      BY <2>3, Zenon DEF vars, hdrVars, wrVars
    <3> QED
      BY <2>1, <3>1, Zenon DEF NoLostUpdate, Pages
  <2> QED
    BY <2>2, <2>3, Zenon
<1>3. Inv => NoLostUpdate
  BY Zenon
<1> QED
  BY <1>1, <1>2, <1>3, PTL DEF Spec

(* When moreover no process is killed between the stores of hdr->vtree and
   hdr->xid in ed_txn_commit, a writer never changes a committed page in place:
   the comparison of a node's xid with the transaction's tells the pages of the
   transaction from all others.  Txn_inplace.cfg shows that the assumption on
   crashes is needed. *)
THEOREM CopyOnWriteTheorem ==
  ASSUME \A q, r \in Repairers : q = r, "xid" \notin CrashAt
  PROVE  Spec => []CopyOnWrite
<1> DEFINE Inv == Sound /\ StampInv
<1>1. Init => Inv
  <2> SUFFICES ASSUME Init PROVE Inv
    BY Zenon
  <2>1. Sound
    BY SoundInit, Zenon
  <2>2. \A t \in Txns : pc[t] = "none" /\ inplace[t] = {}
    BY Zenon DEF Init
  <2>3. \A p \in Pages(tree) : pxid[p] <= hxid
    BY Zenon DEF Init, Pages, NoView, DB
  <2> QED
    BY <2>1, <2>2, <2>3, Zenon DEF StampInv, Numbered
<1>2. Inv /\ [Next]_vars => Inv'
  <2> SUFFICES ASSUME Inv, [Next]_vars PROVE Inv'
    BY Zenon
  <2>1. Sound' /\ TypeOK /\ LockInv /\ PageInv
    BY SoundStep, Zenon DEF Sound
  <2>2. CASE Next
    BY <2>1, <2>2, StampStep, ProcStamp, Zenon DEF Next
  <2>3. CASE UNCHANGED vars
    <3>1. UNCHANGED <<hxid, tree, pc, view, xid, inplace, pxid>>
      BY <2>3, Zenon DEF vars, hdrVars, wrVars
    <3> QED
      BY <2>1, <3>1, Zenon DEF StampInv, Pages
  <2> QED
    BY <2>2, <2>3, Zenon
<1>3. Inv => CopyOnWrite
  BY Zenon DEF StampInv, CopyOnWrite, Disjoint
<1> QED
  BY <1>1, <1>2, <1>3, PTL DEF Spec

-----------------------------------------------------------------------------
(* No page is lost. *)

(* No crash, and no failing free. *)
Lossless == crashes = 0 /\ "free" \notin Fails

(* Points where hdr->active may hold pages. *)
Recording == Editing \cup {"flush"}

(* What a transaction does not lose: its pages are the pending ones while it is
   not at work, and the pages of the trees that its copy lacks are queued. *)
Tidy(t) ==
  /\ pc[t] \notin Out \cup {"none"} /\ pg[t] # {} => pend[Slot(t)] = pg[t]
  /\ pc[t] \in {"flush", "pending"} => pend[Slot(t)] \subseteq pg[t]
  /\ pc[t] \in Editing => used[t] \subseteq Pages(view[t])
  /\ pc[t] \in Editing \cup {"tree"} => Pages(tree) \subseteq Pages(view[t]) \cup gc[t]

(* Every page is in one of the durable places or with a transaction; no slot is
   left behind by a dead process. *)
AccountInv ==
  Lossless =>
    /\ \A p \in Page : Known(p) \/ \E t \in Txns : Has(t, p)
    /\ \A c \in Conn : cpid[c] => ~Unlocked(c)
    /\ \A p \in active : \E t \in Txns : pc[t] \in Recording /\ p \in pg[t]
    /\ \A t \in Txns : Tidy(t)

-----------------------------------------------------------------------------
(* What a step of t leaves alone. *)
Bounded(t) ==
  /\ conn' = conn /\ clock' = clock /\ crashes' = crashes
  /\ \A c \in Conn : cpid'[c] => cpid[c]
  /\ tree' = tree \/ pc[t] \in Locked
  /\ \A c \in Conn \ {Slot(t)} : pend'[c] = pend[c]
  /\ pend' = pend \/ pc[t] \in Locked

LEMMA StepBounded ==
  ASSUME TypeOK, \A c \in Conn : cpid[c] => ~Unlocked(c), NEW t \in Txns, TxnStep(t)
  PROVE  Bounded(t)
<1>1. CASE TxnNew(t)
  BY <1>1, Zenon DEF TxnNew, Bounded, hdrVars, connVars, procVars
<1>2. CASE OpenRead(t)
  BY <1>2, Zenon DEF OpenRead, Bounded, hdrVars, connVars, procVars
<1>3. CASE OpenWrite(t)
  BY <1>3, Zenon DEF OpenWrite, Bounded, hdrVars, connVars, procVars
<1>4. CASE CommitBegin(t)
  BY <1>4, Zenon DEF CommitBegin, Bounded, hdrVars, connVars, procVars
<1>5. CASE GetXid(t)
  BY <1>5, Zenon DEF GetXid, Bounded, hdrVars, connVars, procVars
<1>6. CASE SetXid(t)
  BY <1>6, Zenon DEF SetXid, Bounded, hdrVars, connVars, procVars
<1>7. CASE LoadRoot0(t)
  BY <1>7, Zenon DEF LoadRoot0, Bounded, hdrVars, connVars, procVars
<1>8. CASE LoadRoot1(t)
  BY <1>8, Zenon DEF LoadRoot1, Bounded, hdrVars, connVars, procVars
<1>9. CASE LoadFails(t)
  BY <1>9, Zenon DEF LoadFails, Bounded, hdrVars, connVars, procVars
<1>10. CASE RecoverActive(t)
  BY <1>10, Zenon DEF RecoverActive, Bounded, hdrVars, connVars, procVars
<1>11. CASE FreeActive(t)
  BY <1>11, Zenon DEF FreeActive, Bounded, hdrVars, connVars, procVars
<1>12. CASE FreeActiveFails(t)
  BY <1>12, Zenon DEF FreeActiveFails, Bounded, connVars, procVars
<1>13. CASE TakePending(t)
  BY <1>13, Zenon DEF TakePending, Bounded, hdrVars, procVars, TypeOK,
     Locked, Runs
<1>14. CASE SetActive(t)
  BY <1>14, Zenon DEF SetActive, Bounded, hdrVars, connVars, procVars
<1>15. CASE Take(t)
  BY <1>15, Zenon DEF Take, Bounded, hdrVars, connVars, procVars
<1>16. CASE AllocFails(t)
  BY <1>16, Zenon DEF AllocFails, Bounded, hdrVars, connVars, procVars
<1>17. CASE Record(t)
  BY <1>17, Zenon DEF Record, Bounded, hdrVars, connVars, procVars
<1>18. CASE GcBegin(t)
  BY <1>18, Zenon DEF GcBegin, Bounded, hdrVars, connVars, procVars
<1>19. CASE GcTake(t)
  BY <1>19, Zenon DEF GcTake, Bounded, hdrVars, connVars, procVars
<1>20. CASE StoreTree(t)
  BY <1>20, Zenon DEF StoreTree, Bounded, connVars, procVars, Locked, Runs
<1>21. CASE StoreXid(t)
  BY <1>21, Zenon DEF StoreXid, Bounded, hdrVars, connVars, procVars
<1>22. CASE Discard(t)
  BY <1>22, Zenon DEF Discard, Bounded, hdrVars, connVars, procVars
<1>23. CASE FlushActive(t)
  BY <1>23, Zenon DEF FlushActive, Bounded, hdrVars, connVars, procVars
<1>24. CASE StorePending(t)
  BY <1>24, Zenon DEF StorePending, Bounded, hdrVars, procVars, TypeOK,
     Locked, Runs
<1>25. CASE Unlock(t)
  BY <1>25, Zenon DEF Unlock, Bounded, hdrVars, connVars, procVars
<1>26. CASE XminBegin(t)
  BY <1>26, Zenon DEF XminBegin, Bounded, hdrVars, connVars, procVars
<1>27. ASSUME NEW d \in DB, NEW n \in Page, NEW p \in Page, Clone(t, d, n, p)
      PROVE  Bounded(t)
  BY <1>27, Zenon DEF Clone, Bounded, hdrVars, connVars, procVars
<1>28. ASSUME NEW d \in DB, NEW p \in Page, NewNode(t, d, p) PROVE Bounded(t)
  BY <1>28, Zenon DEF NewNode, Bounded, hdrVars, connVars, procVars
<1>29. ASSUME NEW d \in DB, NEW n \in Page, WriteInPlace(t, d, n) PROVE Bounded(t)
  BY <1>29, Zenon DEF WriteInPlace, Bounded, hdrVars, connVars, procVars
<1>30. ASSUME NEW r \in BOOLEAN, CloseLocked(t, r) PROVE Bounded(t)
  BY <1>30, Zenon DEF CloseLocked, Bounded, hdrVars, connVars, procVars
<1>31. ASSUME NEW r \in BOOLEAN, CloseUnlocked(t, r) PROVE Bounded(t)
  BY <1>31, Zenon DEF CloseUnlocked, Bounded, hdrVars, connVars, procVars
<1>32. ASSUME NEW c \in Conn, XminSlot(t, c) PROVE Bounded(t)
  <2>1. ~(InUse(c) /\ Unlocked(c))
    BY Zenon DEF InUse
  <2> QED
    BY <2>1, <1>32, Zenon DEF XminSlot, Bounded, hdrVars, procVars
<1> QED
  BY <1>1, <1>2, <1>3, <1>4, <1>5, <1>6, <1>7, <1>8, <1>9, <1>10, <1>11,
     <1>12, <1>13, <1>14, <1>15, <1>16, <1>17, <1>18, <1>19, <1>20, <1>21,
     <1>22, <1>23, <1>24, <1>25, <1>26, <1>27, <1>28, <1>29, <1>30, <1>31,
     <1>32, Zenon DEF TxnStep, Progress, Work, Close

(* What a step of t owes: no page leaves the accounts, hdr->active is covered. *)
Retains(t) == \A p \in Page : Known(p) \/ Has(t, p) => (Known(p) \/ Has(t, p))'

ActiveKept(t) ==
  \A p \in active' : \/ p \in active /\ pc[t] \notin Recording
                     \/ pc'[t] \in Recording /\ p \in pg'[t]

Owes(t) == Tidy(t)' /\ ActiveKept(t) /\ Retains(t)

LEMMA OwesStep ==
  ASSUME Sound, AccountInv, Lossless, NEW t \in Txns,
         Apart(t), Bounded(t), Owes(t)
  PROVE  AccountInv'
<1> TypeOK /\ LockInv /\ PageInv
  BY Zenon DEF Sound
<1>0. /\ \A p \in Page : Known(p) \/ \E u \in Txns : Has(u, p)
      /\ \A c \in Conn : cpid[c] => ~Unlocked(c)
      /\ \A p \in active : \E u \in Txns : pc[u] \in Recording /\ p \in pg[u]
      /\ \A u \in Txns : Tidy(u)
  BY Zenon DEF AccountInv
<1>1. ASSUME NEW p \in Page PROVE Known(p)' \/ \E u \in Txns : Has(u, p)'
  <2>1. CASE Known(p) \/ Has(t, p)
    BY <2>1, Zenon DEF Owes, Retains
  <2>2. ASSUME NEW u \in Txns, u # t, Has(u, p) PROVE Has(u, p)'
    BY <2>2, Zenon DEF Apart, Has
  <2> QED
    BY <1>0, <2>1, <2>2, Zenon
<1>2. \A c \in Conn : cpid'[c] => ~Unlocked(c)'
  BY <1>0, Zenon DEF Bounded, Unlocked
<1>3. ASSUME NEW p \in active' PROVE \E u \in Txns : pc'[u] \in Recording /\ p \in pg'[u]
  <2>1. CASE pc'[t] \in Recording /\ p \in pg'[t]
    BY <2>1, Zenon
  <2>2. CASE p \in active /\ pc[t] \notin Recording
    <3>1. PICK u \in Txns : pc[u] \in Recording /\ p \in pg[u]
      BY <1>0, <2>2, Zenon
    <3>2. u # t
      BY <2>2, <3>1, Zenon
    <3> QED
      BY <3>1, <3>2, Zenon DEF Apart
  <2> QED
    BY <2>1, <2>2, Zenon DEF Owes, ActiveKept
<1>4. ASSUME NEW u \in Txns, u # t PROVE Tidy(u)'
  <2>0. /\ pc'[u] = pc[u] /\ pg'[u] = pg[u] /\ used'[u] = used[u] /\ view'[u] = view[u]
        /\ gc'[u] = gc[u] /\ Slot(u)' = Slot(u) /\ Tidy(u)
    BY <1>0, <1>4, Zenon DEF Apart, Bounded, Slot
  <2>1. CASE pc[t] \in Locked
    <3>1. pc[u] \notin Locked /\ t \in Writers /\ pc[t] # "none"
      BY <1>4, <2>1, OtherIdle, Zenon DEF LockInv, WriteInv, Writing, Locked
    <3>2. pg[u] # {} => pend'[Slot(u)] = pend[Slot(u)]
      BY <1>4, <3>1, PendFrame, Zenon DEF Bounded
    <3> QED
      BY <2>0, <3>1, <3>2, Zenon DEF Tidy, Locked, Editing
  <2>2. CASE pc[t] \notin Locked
    <3>1. pend' = pend /\ tree' = tree
      BY <2>2, Zenon DEF Bounded
    <3> QED
      BY <2>0, <3>1, Zenon DEF Tidy, Pages
  <2> QED
    BY <2>1, <2>2, Zenon
<1> QED
  BY <1>1, <1>2, <1>3, <1>4, Zenon DEF AccountInv, Owes

-----------------------------------------------------------------------------
(* Steps that move no page. *)

(* Opening a transaction. *)
Opens(t) ==
  /\ UNCHANGED <<free, active, tree, pend, pg, hand, gc, conn>>
  /\ pc[t] \notin Locked /\ pc'[t] \notin Out \cup {"none"}

LEMMA StepOpens ==
  ASSUME TypeOK, NEW t \in Txns,
         \/ TxnNew(t) \/ OpenRead(t) \/ OpenWrite(t) \/ GetXid(t) \/ SetXid(t)
         \/ LoadRoot0(t) \/ LoadRoot1(t) \/ LoadFails(t)
  PROVE  Opens(t)
<1>1. CASE TxnNew(t)
  BY <1>1, Zenon DEF TxnNew, Opens, Goto, Runs, Locked, Out, TypeOK,
     hdrVars, connVars, storeVars, procVars, wrVars
<1>2. CASE OpenRead(t)
  BY <1>2, Zenon DEF OpenRead, Opens, Goto, Runs, Locked, Out, TypeOK,
     hdrVars, connVars, storeVars, procVars, wrVars
<1>3. CASE OpenWrite(t)
  BY <1>3, Zenon DEF OpenWrite, Opens, Goto, Runs, Locked, Out, TypeOK,
     hdrVars, connVars, storeVars, procVars, wrVars
<1>4. CASE GetXid(t)
  BY <1>4, Zenon DEF GetXid, Opens, Goto, Runs, Locked, Out, TypeOK,
     hdrVars, connVars, storeVars, procVars, wrVars
<1>5. CASE SetXid(t)
  BY <1>5, Zenon DEF SetXid, Opens, Goto, Runs, Locked, Out, TypeOK,
     hdrVars, connVars, storeVars, procVars, wrVars
<1>6. CASE LoadRoot0(t)
  BY <1>6, Zenon DEF LoadRoot0, Opens, Goto, Runs, Locked, Out, TypeOK,
     hdrVars, connVars, storeVars, procVars, wrVars
<1>7. CASE LoadRoot1(t)
  BY <1>7, Zenon DEF LoadRoot1, Opens, Goto, Runs, Locked, Out, TypeOK,
     hdrVars, connVars, storeVars, procVars, wrVars
<1>8. CASE LoadFails(t)
  BY <1>8, Zenon DEF LoadFails, Opens, Goto, Runs, Locked, Out, TypeOK,
     hdrVars, connVars, storeVars, procVars, wrVars
<1> QED
  BY <1>1, <1>2, <1>3, <1>4, <1>5, <1>6, <1>7, <1>8, Zenon

LEMMA OpensOwes ==
  ASSUME NEW t \in Txns, Good(t), Tidy(t), Opens(t)
  PROVE  Owes(t)
<1>1. Tidy(t)'
  <2>1. Slot(t)' = Slot(t) /\ pg' = pg /\ pend' = pend
    BY Zenon DEF Opens, Slot
  <2>2. pc'[t] \notin {"flush", "pending", "tree"} /\ pc'[t] \notin Editing
    BY Zenon DEF Opens, Out, Editing
  <2>3. pg[t] # {} => pend[Slot(t)] = pg[t]
    BY Zenon DEF Good, Settled, Tidy, Opens, Out, Locked
  <2> QED
    BY <2>1, <2>2, <2>3, Zenon DEF Tidy
<1>2. ActiveKept(t)
  BY Zenon DEF ActiveKept, Opens, Recording, Editing, Locked
<1>3. Retains(t)
  BY Zenon DEF Retains, Opens, Known, Has, Pages
<1> QED
  BY <1>1, <1>2, <1>3, Zenon DEF Owes

(* Scanning the slots, failing to allocate, writing to a page. *)
Rests(t) ==
  /\ UNCHANGED <<free, active, tree, pend, pg, hand, gc, used, view, conn>>
  /\ pc'[t] = pc[t] \/ (pc[t] \in Editing /\ pc'[t] \in Editing)

LEMMA StepRests ==
  ASSUME TypeOK, NEW t \in Txns, Bounded(t), \A c \in Conn : cpid[c] => ~Unlocked(c),
         \/ GcBegin(t) \/ GcTake(t) \/ XminBegin(t) \/ AllocFails(t)
         \/ \E c \in Conn : XminSlot(t, c)
         \/ \E d \in DB, n \in Page : WriteInPlace(t, d, n)
  PROVE  Rests(t)
<1>1. CASE GcBegin(t)
  BY <1>1, Zenon DEF GcBegin, Rests, Goto, Runs, Editing, TypeOK, hdrVars,
     connVars, storeVars, procVars, wrVars
<1>2. CASE GcTake(t)
  BY <1>2, Zenon DEF GcTake, RecyclePages, Rests, Goto, Runs, Editing,
     TypeOK, hdrVars, connVars, storeVars, procVars, wrVars
<1>3. CASE XminBegin(t)
  BY <1>3, Zenon DEF XminBegin, Rests, Goto, Runs, Editing, TypeOK, hdrVars,
     connVars, storeVars, procVars, wrVars
<1>4. CASE AllocFails(t)
  BY <1>4, Zenon DEF AllocFails, Rests, Goto, Runs, Editing, TypeOK,
     hdrVars, connVars, storeVars, procVars, wrVars
<1>5. ASSUME NEW c \in Conn, XminSlot(t, c) PROVE Rests(t)
  <2>1. ~(InUse(c) /\ Unlocked(c))
    BY Zenon DEF InUse
  <2> QED
    BY <2>1, <1>5, Zenon DEF XminSlot, Rests, hdrVars, storeVars, procVars, wrVars
<1>6. ASSUME NEW d \in DB, NEW n \in Page, WriteInPlace(t, d, n) PROVE Rests(t)
  BY <1>6, Zenon DEF WriteInPlace, Rests, hdrVars, connVars, storeVars, procVars
<1> QED
  BY <1>1, <1>2, <1>3, <1>4, <1>5, <1>6, Zenon

LEMMA RestsOwes ==
  ASSUME NEW t \in Txns, Good(t), Tidy(t), Rests(t), pc[t] \in Editing => active \subseteq pg[t],
         pc[t] # "flush"
  PROVE  Owes(t)
<1>1. Tidy(t)'
  <2>1. /\ Slot(t)' = Slot(t) /\ pg' = pg /\ pend' = pend /\ used' = used /\ view' = view
        /\ gc' = gc /\ tree' = tree
    BY Zenon DEF Rests, Slot
  <2>2. CASE pc'[t] = pc[t]
    BY <2>1, <2>2, Zenon DEF Tidy, Pages
  <2>3. CASE pc[t] \in Editing /\ pc'[t] \in Editing
    <3>1. used'[t] \subseteq Pages(view'[t]) /\ Pages(tree') \subseteq Pages(view'[t]) \cup gc'[t]
      BY <2>1, <2>3, Zenon DEF Tidy
    <3>2. pc'[t] \in Out /\ pc'[t] \notin {"flush", "pending"}
      BY <2>3, Zenon DEF Editing, Out
    <3> QED
      BY <3>1, <3>2, Zenon DEF Tidy, Pages
  <2> QED
    BY <2>2, <2>3, Zenon DEF Rests
<1>2. ActiveKept(t)
  BY Zenon DEF ActiveKept, Rests, Recording
<1>3. Retains(t)
  BY Zenon DEF Retains, Rests, Known, Has, Pages, Editing, Locked
<1> QED
  BY <1>1, <1>2, <1>3, Zenon DEF Owes

-----------------------------------------------------------------------------
(* Steps that move pages. *)

(* A free that does not fail. *)
LEMMA FreesAll ==
  ASSUME "free" \notin Fails, NEW S, NEW x, GiveBack(S, x) \/ FreePages(S, x)
  PROVE  free' = free \cup S
BY Zenon DEF GiveBack, FreePages, PutPages

LEMMA RecoverActiveOwes ==
  ASSUME Sound, NEW t \in Txns, Tidy(t), "free" \notin Fails, RecoverActive(t)
  PROVE  Owes(t)
<1>0. TypeOK /\ LockInv /\ Good(t) /\ Settled(t) /\ Loads(t)
  BY Zenon DEF Sound, PageInv, Good
<1>1. /\ pc[t] = "recover" /\ pc'[t] = "freeactive" /\ active' = {} /\ hand'[t] = active
      /\ UNCHANGED <<free, tree, pend, pg, gc, view, conn>>
  BY <1>0, Zenon DEF RecoverActive, connVars, storeVars, procVars, Goto,
     Runs, TypeOK
<1>7. Tidy(t)'
  BY <1>1, Zenon DEF Tidy, Out, Editing, Slot
<1>8. ActiveKept(t)
  BY <1>1, Zenon DEF ActiveKept
<1>9. Retains(t)
  <2>1. hand[t] = {}
    BY <1>0, <1>1, Zenon DEF Settled
  <2> QED
    BY <1>1, <2>1, Zenon DEF Retains, Known, Has, Locked, Pages
<1> QED
  BY <1>7, <1>8, <1>9, Zenon DEF Owes

LEMMA FreeActiveOwes ==
  ASSUME Sound, NEW t \in Txns, Tidy(t), "free" \notin Fails, FreeActive(t)
  PROVE  Owes(t)
<1>0. TypeOK /\ LockInv /\ Good(t) /\ Settled(t) /\ Loads(t)
  BY Zenon DEF Sound, PageInv, Good
<1>1. /\ pc[t] = "freeactive" /\ pc'[t] = "takepending" /\ FreePages(hand[t], 0)
      /\ UNCHANGED <<active, tree, pend, pg, gc, view, conn>>
  BY <1>0, Zenon DEF FreeActive, hdrVars, connVars, procVars, Goto, Runs,
     TypeOK
<1>7. Tidy(t)'
  BY <1>1, Zenon DEF Tidy, Out, Editing, Slot
<1>8. ActiveKept(t)
  BY <1>1, Zenon DEF ActiveKept, Recording, Editing
<1>9. Retains(t)
  <2>1. free' = free \cup hand[t]
    BY <1>1, FreesAll, Zenon
  <2> QED
    BY <1>1, <2>1, Zenon DEF Retains, Known, Has, Locked, Pages
<1> QED
  BY <1>7, <1>8, <1>9, Zenon DEF Owes

LEMMA TakePendingOwes ==
  ASSUME Sound, NEW t \in Txns, Tidy(t), "free" \notin Fails, TakePending(t)
  PROVE  Owes(t)
<1>0. TypeOK /\ LockInv /\ Good(t) /\ Settled(t) /\ Loads(t)
  BY Zenon DEF Sound, PageInv, Good
<1>1. /\ pc[t] = "takepending" /\ pc'[t] = "setactive" /\ pc[t] # "none"
      /\ hand'[t] = Inactive(t) /\ pend' = [pend EXCEPT ![Slot(t)] = {}]
      /\ UNCHANGED <<free, active, tree, pg, gc, view, conn>>
  BY <1>0, Zenon DEF TakePending, hdrVars, storeVars, procVars, Goto, Runs,
     TypeOK
<1>2. Holds(t) /\ Edits(t) /\ Slot(t) \in Conn
  BY <1>0, <1>1, SlotInConn, Zenon DEF Good, Locked
<1>7. Tidy(t)'
  BY <1>1, Zenon DEF Tidy, Out, Editing
<1>8. ActiveKept(t)
  BY <1>1, Zenon DEF ActiveKept, Recording, Editing
<1>9. Retains(t)
  <2>1. hand[t] = {}
    BY <1>0, <1>1, Zenon DEF Settled
  <2>2. ASSUME NEW p \in pend[Slot(t)] PROVE p \in hand'[t] \/ p \in pg'[t]
    BY <1>1, <2>2, Zenon DEF Tidy, Inactive, Out
  <2>3. \A c \in Conn \ {Slot(t)} : pend'[c] = pend[c]
    BY <1>0, <1>1, Zenon DEF TypeOK
  <2>4. ASSUME NEW p, Known(p) PROVE Known(p)' \/ Has(t, p)'
    BY <1>1, <2>2, <2>3, <2>4, Zenon DEF Known, Has, Pages
  <2>5. ASSUME NEW p, Has(t, p) PROVE Has(t, p)'
    BY <1>1, <2>1, <2>5, Zenon DEF Has, Locked
  <2> QED
    BY <2>4, <2>5, Zenon DEF Retains
<1> QED
  BY <1>7, <1>8, <1>9, Zenon DEF Owes

LEMMA SetActiveOwes ==
  ASSUME Sound, NEW t \in Txns, Tidy(t), "free" \notin Fails, SetActive(t)
  PROVE  Owes(t)
<1>0. TypeOK /\ LockInv /\ Good(t) /\ Settled(t) /\ Loads(t)
  BY Zenon DEF Sound, PageInv, Good
<1>1. /\ pc[t] = "setactive" /\ pc'[t] = "write" /\ pc[t] # "none"
      /\ GiveBack(hand[t], 0)
      /\ active' = IF pg[t] = {} THEN active ELSE pg[t]
      /\ UNCHANGED <<tree, pend, pg, used, gc, view, conn>>
  BY <1>0, Zenon DEF SetActive, connVars, procVars, Goto, Runs, TypeOK
<1>2. Holds(t) /\ Edits(t) /\ Slot(t) \in Conn
  BY <1>0, <1>1, SlotInConn, Zenon DEF Good, Locked
<1>3. active = {}
  BY <1>1, <1>2, Zenon DEF Holds, NoActive
<1>7. Tidy(t)'
  <2>1. used[t] = {} /\ view[t] = tree
    BY <1>0, <1>1, <1>2, Zenon DEF Settled, Edits, Editing
  <2> QED
    BY <1>1, <2>1, Zenon DEF Tidy, Out, Editing, Pages
<1>8. ActiveKept(t)
  BY <1>1, <1>3, Zenon DEF ActiveKept, Recording, Editing
<1>9. Retains(t)
  <2>1. free' = free \cup hand[t]
    BY <1>1, FreesAll, Zenon
  <2> QED
    BY <1>1, <1>3, <2>1, Zenon DEF Retains, Known, Has, Locked, Pages
<1> QED
  BY <1>7, <1>8, <1>9, Zenon DEF Owes

LEMMA TakeOwes ==
  ASSUME Sound, NEW t \in Txns, Tidy(t), "free" \notin Fails, Take(t)
  PROVE  Owes(t)
<1>0. TypeOK /\ LockInv /\ Good(t) /\ Settled(t) /\ Loads(t)
  BY Zenon DEF Sound, PageInv, Good
<1>1. /\ pc[t] = "alloc" /\ pc'[t] = "record" /\ pc[t] # "none"
      /\ \E S \in SUBSET free : free' = free \ S /\ hand'[t] = S
      /\ UNCHANGED <<active, tree, pend, pg, used, gc, view, conn>>
  BY <1>0, Zenon DEF Take, TakePages, hdrVars, connVars, procVars, Goto,
     Runs, TypeOK
<1>2. Holds(t) /\ Edits(t) /\ Slot(t) \in Conn
  BY <1>0, <1>1, SlotInConn, Zenon DEF Good, Locked
<1>7. Tidy(t)'
  BY <1>1, Zenon DEF Tidy, Out, Editing, Pages
<1>8. ActiveKept(t)
  BY <1>1, <1>2, Zenon DEF ActiveKept, Holds, Recording, Editing
<1>9. Retains(t)
  <2>1. hand[t] = {}
    BY <1>0, <1>1, Zenon DEF Settled
  <2> QED
    BY <1>1, <2>1, Zenon DEF Retains, Known, Has, Locked, Pages
<1> QED
  BY <1>7, <1>8, <1>9, Zenon DEF Owes

LEMMA RecordOwes ==
  ASSUME Sound, NEW t \in Txns, Tidy(t), "free" \notin Fails, Record(t)
  PROVE  Owes(t)
<1>0. TypeOK /\ LockInv /\ Good(t) /\ Settled(t) /\ Loads(t)
  BY Zenon DEF Sound, PageInv, Good
<1>1. /\ pc[t] = "record" /\ pc'[t] = "write" /\ pc[t] # "none"
      /\ pg'[t] = pg[t] \cup hand[t]
      /\ \E S \in SUBSET hand[t] : active' = active \cup S
      /\ UNCHANGED <<free, tree, pend, used, gc, view, conn>>
  BY <1>0, Zenon DEF Record, connVars, storeVars, procVars, Goto, Runs,
     TypeOK
<1>2. Holds(t) /\ Edits(t) /\ Slot(t) \in Conn
  BY <1>0, <1>1, SlotInConn, Zenon DEF Good, Locked
<1>7. Tidy(t)'
  BY <1>1, Zenon DEF Tidy, Out, Editing, Pages
<1>8. ActiveKept(t)
  <2>1. active \subseteq pg[t]
    BY <1>1, <1>2, Zenon DEF Holds, Editing
  <2> QED
    BY <1>1, <2>1, Zenon DEF ActiveKept, Recording, Editing
<1>9. Retains(t)
  BY <1>1, Zenon DEF Retains, Known, Has, Locked, Pages
<1> QED
  BY <1>7, <1>8, <1>9, Zenon DEF Owes

LEMMA CloneOwes ==
  ASSUME Sound, NEW t \in Txns, Tidy(t), "free" \notin Fails, NEW d \in DB,
         NEW n \in Page, NEW p \in Page, Clone(t, d, n, p)
  PROVE  Owes(t)
<1>0. TypeOK /\ LockInv /\ Good(t) /\ Settled(t) /\ Loads(t)
  BY Zenon DEF Sound, PageInv, Good
<1>1. /\ pc[t] = "write" /\ pc'[t] = "write" /\ pc[t] # "none"
      /\ used'[t] = used[t] \cup {p} /\ gc'[t] = gc[t] \cup {n}
      /\ view' = [view EXCEPT ![t][d] = (view[t][d] \ {n}) \cup {p}]
      /\ pxid[n] < xid[t] /\ xid[t] \in Nat
      /\ UNCHANGED <<free, active, tree, pend, pg, hand, conn>>
  BY <1>0, Zenon DEF Clone, MustClone, ReplacedBy, hdrVars, connVars,
     storeVars, procVars, Goto, Runs, TypeOK
<1>2. Holds(t) /\ Edits(t) /\ Slot(t) \in Conn
  BY <1>0, <1>1, SlotInConn, Zenon DEF Good, Locked
<1>3. n \notin used[t]
  <2>1. n \in used[t] => pxid[n] = xid[t]
    BY <1>1, <1>2, Zenon DEF Edits, Editing
  <2> QED
    BY <1>1, <2>1
<1>4. p \in Pages(view'[t]) /\ \A x \in Pages(view[t]) : x = n \/ x \in Pages(view'[t])
  <2>1. PICK v : v = (view[t][d] \ {n}) \cup {p}
    BY Zenon
  <2>3. view' = [view EXCEPT ![t][d] = v]
    BY <1>1, <2>1, Zenon
  <2>2. \/ d = 0 /\ view'[t][0] = v /\ view'[t][1] = view[t][1]
        \/ d = 1 /\ view'[t][1] = v /\ view'[t][0] = view[t][0]
    BY <1>0, <2>3, ViewAt, Zenon
  <2> QED
    BY <2>1, <2>2, Zenon DEF Pages
<1>7. Tidy(t)'
  <2>1. used'[t] \subseteq Pages(view'[t])
    BY <1>1, <1>3, <1>4, Zenon DEF Tidy, Editing
  <2>2. Pages(tree') \subseteq Pages(view'[t]) \cup gc'[t]
    BY <1>1, <1>4, Zenon DEF Tidy, Editing, Pages
  <2> QED
    BY <1>1, <2>1, <2>2, Zenon DEF Tidy, Out, Editing, Pages
<1>8. ActiveKept(t)
  BY <1>1, <1>2, Zenon DEF ActiveKept, Holds, Recording, Editing
<1>9. Retains(t)
  BY <1>1, <1>4, Zenon DEF Retains, Known, Has, Locked, Pages
<1> QED
  BY <1>7, <1>8, <1>9, Zenon DEF Owes

LEMMA NewNodeOwes ==
  ASSUME Sound, NEW t \in Txns, Tidy(t), "free" \notin Fails, NEW d \in DB,
         NEW p \in Page, NewNode(t, d, p)
  PROVE  Owes(t)
<1>0. TypeOK /\ LockInv /\ Good(t) /\ Settled(t) /\ Loads(t)
  BY Zenon DEF Sound, PageInv, Good
<1>1. /\ pc[t] = "write" /\ pc'[t] = "write" /\ pc[t] # "none"
      /\ used'[t] = used[t] \cup {p}
      /\ view' = [view EXCEPT ![t][d] = view[t][d] \cup {p}]
      /\ UNCHANGED <<free, active, tree, pend, pg, hand, gc, conn>>
  BY <1>0, Zenon DEF NewNode, hdrVars, connVars, storeVars, procVars, Goto,
     Runs, TypeOK
<1>2. Holds(t) /\ Edits(t) /\ Slot(t) \in Conn
  BY <1>0, <1>1, SlotInConn, Zenon DEF Good, Locked
<1>4. p \in Pages(view'[t]) /\ \A x \in Pages(view[t]) : x \in Pages(view'[t])
  <2>1. PICK v : v = view[t][d] \cup {p}
    BY Zenon
  <2>3. view' = [view EXCEPT ![t][d] = v]
    BY <1>1, <2>1, Zenon
  <2>2. \/ d = 0 /\ view'[t][0] = v /\ view'[t][1] = view[t][1]
        \/ d = 1 /\ view'[t][1] = v /\ view'[t][0] = view[t][0]
    BY <1>0, <2>3, ViewAt, Zenon
  <2> QED
    BY <2>1, <2>2, Zenon DEF Pages
<1>7. Tidy(t)'
  <2>1. used'[t] \subseteq Pages(view'[t])
    BY <1>1, <1>4, Zenon DEF Tidy, Editing
  <2>2. Pages(tree') \subseteq Pages(view'[t]) \cup gc'[t]
    BY <1>1, <1>4, Zenon DEF Tidy, Editing, Pages
  <2> QED
    BY <1>1, <2>1, <2>2, Zenon DEF Tidy, Out, Editing, Pages
<1>8. ActiveKept(t)
  BY <1>1, <1>2, Zenon DEF ActiveKept, Holds, Recording, Editing
<1>9. Retains(t)
  BY <1>1, <1>4, Zenon DEF Retains, Known, Has, Locked, Pages
<1> QED
  BY <1>7, <1>8, <1>9, Zenon DEF Owes

LEMMA CommitBeginOwes ==
  ASSUME Sound, NEW t \in Txns, Tidy(t), "free" \notin Fails, CommitBegin(t)
  PROVE  Owes(t)
<1>0. TypeOK /\ LockInv /\ Good(t) /\ Settled(t) /\ Loads(t)
  BY Zenon DEF Sound, PageInv, Good
<1>1. /\ pc[t] = "write" /\ pc'[t] = "tree" /\ pc[t] # "none"
      /\ pg'[t] = pg[t] \ used[t] /\ active' = {}
      /\ UNCHANGED <<free, tree, pend, gc, hand, view, conn>>
  BY <1>0, Zenon DEF CommitBegin, connVars, storeVars, procVars, Goto, Runs,
     TypeOK
<1>2. Holds(t) /\ Edits(t) /\ Slot(t) \in Conn
  BY <1>0, <1>1, SlotInConn, Zenon DEF Good, Locked
<1>7. Tidy(t)'
  BY <1>1, Zenon DEF Tidy, Out, Editing, Pages
<1>8. ActiveKept(t)
  BY <1>1, Zenon DEF ActiveKept
<1>9. Retains(t)
  <2>1. active \subseteq pg[t] /\ used[t] \subseteq Pages(view[t])
    BY <1>1, <1>2, Zenon DEF Holds, Tidy, Editing
  <2> QED
    BY <1>1, <2>1, Zenon DEF Retains, Known, Has, Locked, Pages
<1> QED
  BY <1>7, <1>8, <1>9, Zenon DEF Owes

LEMMA StoreTreeOwes ==
  ASSUME Sound, NEW t \in Txns, Tidy(t), "free" \notin Fails, StoreTree(t)
  PROVE  Owes(t)
<1>0. TypeOK /\ LockInv /\ Good(t) /\ Settled(t) /\ Loads(t)
  BY Zenon DEF Sound, PageInv, Good
<1>1. /\ pc[t] = "tree" /\ pc'[t] = "xid" /\ tree' = view[t]
      /\ UNCHANGED <<free, active, pend, pg, gc, hand, view, conn>>
  BY <1>0, Zenon DEF StoreTree, connVars, storeVars, procVars, wrVars, Goto,
     Runs, TypeOK
<1>7. Tidy(t)'
  BY <1>1, Zenon DEF Tidy, Out, Editing
<1>8. ActiveKept(t)
  BY <1>1, Zenon DEF ActiveKept, Recording, Editing
<1>9. Retains(t)
  <2>1. Pages(tree) \subseteq Pages(view[t]) \cup gc[t]
    BY <1>1, Zenon DEF Tidy
  <2> QED
    BY <1>1, <2>1, Zenon DEF Retains, Known, Has, Locked, Pages
<1> QED
  BY <1>7, <1>8, <1>9, Zenon DEF Owes

LEMMA StoreXidOwes ==
  ASSUME Sound, NEW t \in Txns, Tidy(t), "free" \notin Fails, StoreXid(t)
  PROVE  Owes(t)
<1>0. TypeOK /\ LockInv /\ Good(t) /\ Settled(t) /\ Loads(t)
  BY Zenon DEF Sound, PageInv, Good
<1>1. /\ pc[t] = "xid" /\ pc'[t] = "discard"
      /\ UNCHANGED <<free, active, tree, pend, pg, gc, hand, view, conn>>
  BY <1>0, Zenon DEF StoreXid, connVars, storeVars, procVars, wrVars, Goto,
     Runs, TypeOK
<1>7. Tidy(t)'
  BY <1>1, Zenon DEF Tidy, Out, Editing
<1>8. ActiveKept(t)
  BY <1>1, Zenon DEF ActiveKept, Recording, Editing
<1>9. Retains(t)
  BY <1>1, Zenon DEF Retains, Known, Has, Locked, Pages
<1> QED
  BY <1>7, <1>8, <1>9, Zenon DEF Owes

LEMMA DiscardOwes ==
  ASSUME Sound, NEW t \in Txns, Tidy(t), "free" \notin Fails, Discard(t)
  PROVE  Owes(t)
<1>0. TypeOK /\ LockInv /\ Good(t) /\ Settled(t) /\ Loads(t)
  BY Zenon DEF Sound, PageInv, Good
<1>1. /\ pc[t] = "discard" /\ pc'[t] = "closing" /\ GiveBack(gc[t], xid[t])
      /\ UNCHANGED <<active, tree, pend, pg, hand, view, conn>>
  BY <1>0, Zenon DEF Discard, hdrVars, connVars, procVars, Goto, Runs,
     TypeOK
<1>7. Tidy(t)'
  BY <1>1, Zenon DEF Tidy, Out, Editing
<1>8. ActiveKept(t)
  BY <1>1, Zenon DEF ActiveKept, Recording, Editing
<1>9. Retains(t)
  <2>1. free' = free \cup gc[t]
    BY <1>1, FreesAll, Zenon
  <2> QED
    BY <1>1, <2>1, Zenon DEF Retains, Known, Has, Locked, Pages
<1> QED
  BY <1>7, <1>8, <1>9, Zenon DEF Owes

LEMMA CloseLockedOwes ==
  ASSUME Sound, NEW t \in Txns, Tidy(t), "free" \notin Fails, 
         NEW r \in BOOLEAN, CloseLocked(t, r)
  PROVE  Owes(t)
<1>0. TypeOK /\ LockInv /\ Good(t) /\ Settled(t) /\ Loads(t)
  BY Zenon DEF Sound, PageInv, Good
<1>1. /\ pc[t] \in Closable /\ pc'[t] = "flush" /\ pc[t] # "none"
      /\ HasLock(t) \/ pg[t] # {}
      /\ UNCHANGED <<free, active, tree, pend, pg, hand, conn>>
  BY <1>0, Zenon DEF CloseLocked, Closable, storeVars, procVars, Goto, Runs,
     TypeOK
<1>3. HasLock(t) => Holds(t) /\ Edits(t)
  BY <1>0, Zenon DEF HasLock, Good, Locked
<1>7. Tidy(t)'
  <2>1. CASE HasLock(t)
    <3>1. pend[Slot(t)] = {}
      BY <1>3, <2>1, Zenon DEF HasLock, Holds, Out
    <3> QED
      BY <1>1, <3>1, Zenon DEF Tidy, Out, Editing, Slot
  <2>2. CASE ~HasLock(t)
    <3>1. pend[Slot(t)] = pg[t]
      BY <1>1, <2>2, Zenon DEF HasLock, Closable, Tidy, Out
    <3> QED
      BY <1>1, <3>1, Zenon DEF Tidy, Out, Editing, Slot
  <2> QED
    BY <2>1, <2>2, Zenon
<1>8. ActiveKept(t)
  <2>1. CASE HasLock(t)
    <3>1. active \subseteq pg[t]
      BY <1>3, <2>1, Zenon DEF HasLock, Holds, Editing, NoActive
    <3> QED
      BY <1>1, <3>1, Zenon DEF ActiveKept, Recording
  <2>2. CASE ~HasLock(t)
    BY <1>1, <2>2, Zenon DEF HasLock, Closable, ActiveKept, Recording, Editing
  <2> QED
    BY <2>1, <2>2, Zenon
<1>9. Retains(t)
  <2>1. ASSUME NEW p \in gc[t] PROVE p \in Pages(tree)
    BY <1>0, <1>1, <1>3, <2>1, Zenon DEF Closable, HasLock, Settled, Edits, Editing
  <2>2. ASSUME NEW p \in Pages(view[t]), pc[t] \in Locked PROVE p \in Pages(tree) \/ p \in pg[t]
    BY <1>1, <1>3, <2>2, Zenon DEF Closable, HasLock, Edits, Editing, Locked
  <2> QED
    BY <1>1, <2>1, <2>2, Zenon DEF Retains, Known, Has, Pages
<1> QED
  BY <1>7, <1>8, <1>9, Zenon DEF Owes

LEMMA CloseUnlockedOwes ==
  ASSUME Sound, NEW t \in Txns, Tidy(t), "free" \notin Fails, 
         NEW r \in BOOLEAN, CloseUnlocked(t, r)
  PROVE  Owes(t)
<1>0. TypeOK /\ LockInv /\ Good(t) /\ Settled(t) /\ Loads(t)
  BY Zenon DEF Sound, PageInv, Good
<1>1. /\ pc[t] \in {"closed", "open"} /\ pc'[t] = (IF r THEN "closed" ELSE "none")
      /\ pg'[t] = (IF r THEN pg[t] ELSE {}) /\ pc[t] # "none"
      /\ UNCHANGED <<free, active, tree, pend, hand, conn>>
  BY <1>0, Zenon DEF CloseUnlocked, hdrVars, storeVars, procVars, Goto,
     Runs, TypeOK
<1>7. Tidy(t)'
  BY <1>1, Zenon DEF Tidy, Out, Editing, Slot
<1>8. ActiveKept(t)
  BY <1>1, Zenon DEF ActiveKept, Recording, Editing
<1>9. Retains(t)
  <2>1. gc[t] = {} /\ pg[t] \subseteq pend[Slot(t)] /\ Slot(t) \in Conn
    BY <1>0, <1>1, SlotInConn, Zenon DEF Settled, Out, Editing
  <2> QED
    BY <1>1, <2>1, Zenon DEF Retains, Known, Has, Locked, Pages
<1> QED
  BY <1>7, <1>8, <1>9, Zenon DEF Owes

LEMMA FlushActiveOwes ==
  ASSUME Sound, NEW t \in Txns, Tidy(t), "free" \notin Fails, 
         FlushActive(t), active \subseteq pg[t]
  PROVE  Owes(t)
<1>0. TypeOK /\ LockInv /\ Good(t) /\ Settled(t) /\ Loads(t)
  BY Zenon DEF Sound, PageInv, Good
<1>1. /\ pc[t] = "flush" /\ pc'[t] = "pending" /\ active' = {}
      /\ UNCHANGED <<free, tree, pend, pg, gc, hand, view, conn>>
  BY <1>0, Zenon DEF FlushActive, connVars, storeVars, procVars, wrVars,
     Goto, Runs, TypeOK
<1>7. Tidy(t)'
  BY <1>1, Zenon DEF Tidy, Out, Editing, Slot
<1>8. ActiveKept(t)
  BY <1>1, Zenon DEF ActiveKept
<1>9. Retains(t)
  BY <1>1, Zenon DEF Retains, Known, Has, Locked, Pages
<1> QED
  BY <1>7, <1>8, <1>9, Zenon DEF Owes

LEMMA StorePendingOwes ==
  ASSUME Sound, NEW t \in Txns, Tidy(t), "free" \notin Fails, StorePending(t)
  PROVE  Owes(t)
<1>0. TypeOK /\ LockInv /\ Good(t) /\ Settled(t) /\ Loads(t)
  BY Zenon DEF Sound, PageInv, Good
<1>1. /\ pc[t] = "pending" /\ pc'[t] = "unlock" /\ pc[t] # "none"
      /\ \E keep \in SUBSET pg[t] :
           /\ pend' = [pend EXCEPT ![Slot(t)] = keep]
           /\ pg'[t] = keep /\ hand'[t] = pg[t] \ keep
      /\ UNCHANGED <<free, active, tree, gc, view, conn>>
  BY <1>0, Zenon DEF StorePending, hdrVars, storeVars, procVars, Goto, Runs,
     TypeOK
<1>2. Holds(t) /\ Edits(t) /\ Slot(t) \in Conn
  BY <1>0, <1>1, SlotInConn, Zenon DEF Good, Locked
<1>3. PICK keep \in SUBSET pg[t] :
        /\ pend' = [pend EXCEPT ![Slot(t)] = keep]
        /\ pg'[t] = keep /\ hand'[t] = pg[t] \ keep
  BY <1>1, Zenon
<1>7. Tidy(t)'
  BY <1>0, <1>1, <1>2, <1>3, Zenon DEF Tidy, Out, Editing, Slot, TypeOK
<1>8. ActiveKept(t)
  BY <1>1, Zenon DEF ActiveKept, Recording, Editing
<1>9. Retains(t)
  <2>1. hand[t] = {} /\ pend[Slot(t)] \subseteq pg[t]
    BY <1>0, <1>1, Zenon DEF Settled, Tidy
  <2>2. ASSUME NEW p \in pg[t] PROVE p \in pg'[t] \/ p \in hand'[t]
    BY <1>3, <2>2, Zenon
  <2>3. \A c \in Conn \ {Slot(t)} : pend'[c] = pend[c]
    BY <1>0, <1>3, Zenon DEF TypeOK
  <2>4. ASSUME NEW p, Known(p) PROVE Known(p)' \/ Has(t, p)'
    BY <1>1, <2>1, <2>2, <2>3, <2>4, Zenon DEF Known, Has, Pages
  <2>5. ASSUME NEW p, Has(t, p) PROVE Has(t, p)'
    BY <1>1, <2>1, <2>2, <2>5, Zenon DEF Has, Locked
  <2> QED
    BY <2>4, <2>5, Zenon DEF Retains
<1> QED
  BY <1>7, <1>8, <1>9, Zenon DEF Owes

LEMMA UnlockOwes ==
  ASSUME Sound, NEW t \in Txns, Tidy(t), "free" \notin Fails, Unlock(t)
  PROVE  Owes(t)
<1>0. TypeOK /\ LockInv /\ Good(t) /\ Settled(t) /\ Loads(t)
  BY Zenon DEF Sound, PageInv, Good
<1>1. /\ pc[t] = "unlock" /\ pc'[t] \in {"closed", "none"} /\ GiveBack(hand[t], 0)
      /\ UNCHANGED <<active, tree, pend, pg, gc, view, conn>>
  BY <1>0, Zenon DEF Unlock, connVars, procVars, Goto, Runs, TypeOK
<1>7. Tidy(t)'
  BY <1>1, Zenon DEF Tidy, Out, Editing, Slot
<1>8. ActiveKept(t)
  BY <1>1, Zenon DEF ActiveKept, Recording, Editing
<1>9. Retains(t)
  <2>1. free' = free \cup hand[t]
    BY <1>1, FreesAll, Zenon
  <2>2. Pages(view[t]) = {}
    BY <1>0, <1>1 DEF Loads, Pages, NoView, DB
  <2> QED
    BY <1>1, <2>1, <2>2, Zenon DEF Retains, Known, Has, Pages
<1> QED
  BY <1>7, <1>8, <1>9, Zenon DEF Owes

-----------------------------------------------------------------------------
(* All steps. *)

LEMMA TxnOwes ==
  ASSUME Sound, AccountInv, Lossless, NEW t \in Txns, TxnStep(t), Bounded(t)
  PROVE  Owes(t)
<1>1. /\ TypeOK /\ LockInv /\ Good(t) /\ Tidy(t) /\ "free" \notin Fails
      /\ \A c \in Conn : cpid[c] => ~Unlocked(c)
  BY Zenon DEF Sound, PageInv, AccountInv, Lossless
<1>2. pc[t] \in Editing => active \subseteq pg[t]
  BY <1>1, Zenon DEF Good, Holds, Editing, Locked
<1>3. CASE \/ TxnNew(t) \/ OpenRead(t) \/ OpenWrite(t) \/ GetXid(t) \/ SetXid(t)
           \/ LoadRoot0(t) \/ LoadRoot1(t) \/ LoadFails(t)
  BY <1>1, <1>3, StepOpens, OpensOwes, Zenon
<1>4. CASE \/ GcBegin(t) \/ GcTake(t) \/ XminBegin(t) \/ AllocFails(t)
           \/ \E c \in Conn : XminSlot(t, c)
           \/ \E d \in DB, n \in Page : WriteInPlace(t, d, n)
  <2>1. Rests(t)
    BY <1>1, <1>4, StepRests, Zenon
  <2>2. pc[t] # "flush"
    BY <1>4, Zenon DEF GcBegin, GcTake, XminBegin, AllocFails, XminSlot, WriteInPlace, Scans,
       FreePoints, Runs
  <2> QED
    BY <1>1, <1>2, <2>1, <2>2, RestsOwes, Zenon
<1>5. CASE RecoverActive(t)
  BY <1>1, <1>5, RecoverActiveOwes, Zenon
<1>6. CASE FreeActive(t)
  BY <1>1, <1>6, FreeActiveOwes, Zenon
<1>7. CASE TakePending(t)
  BY <1>1, <1>7, TakePendingOwes, Zenon
<1>8. CASE SetActive(t)
  BY <1>1, <1>8, SetActiveOwes, Zenon
<1>9. CASE Take(t)
  BY <1>1, <1>9, TakeOwes, Zenon
<1>10. CASE Record(t)
  BY <1>1, <1>10, RecordOwes, Zenon
<1>11. CASE CommitBegin(t)
  BY <1>1, <1>11, CommitBeginOwes, Zenon
<1>12. CASE StoreTree(t)
  BY <1>1, <1>12, StoreTreeOwes, Zenon
<1>13. CASE StoreXid(t)
  BY <1>1, <1>13, StoreXidOwes, Zenon
<1>14. CASE Discard(t)
  BY <1>1, <1>14, DiscardOwes, Zenon
<1>15. CASE StorePending(t)
  BY <1>1, <1>15, StorePendingOwes, Zenon
<1>16. CASE Unlock(t)
  BY <1>1, <1>16, UnlockOwes, Zenon
<1>17. ASSUME NEW d \in DB, NEW n \in Page, NEW p \in Page, Clone(t, d, n, p) PROVE Owes(t)
  BY <1>1, <1>17, CloneOwes, Zenon
<1>18. ASSUME NEW d \in DB, NEW p \in Page, NewNode(t, d, p) PROVE Owes(t)
  BY <1>1, <1>18, NewNodeOwes, Zenon
<1>19. ASSUME NEW r \in BOOLEAN, CloseLocked(t, r) PROVE Owes(t)
  BY <1>1, <1>19, CloseLockedOwes, Zenon
<1>20. ASSUME NEW r \in BOOLEAN, CloseUnlocked(t, r) PROVE Owes(t)
  BY <1>1, <1>20, CloseUnlockedOwes, Zenon
<1>21. CASE FlushActive(t)
  <2>1. pc[t] \in Locked
    BY <1>21, Zenon DEF FlushActive, Runs, Locked
  <2>2. ASSUME NEW p \in active PROVE p \in pg[t]
    <3>1. PICK u \in Txns : pc[u] \in Recording /\ p \in pg[u]
      BY Zenon DEF AccountInv
    <3>2. pc[u] \in Locked
      BY <3>1, Zenon DEF Recording, Editing, Locked
    <3>3. u = t
      BY <1>1, <2>1, <3>2, OtherIdle, Zenon
    <3> QED
      BY <3>1, <3>3, Zenon
  <2> QED
    BY <1>1, <1>21, <2>2, FlushActiveOwes, Zenon
<1>22. ~FreeActiveFails(t)
  BY <1>1, Zenon DEF FreeActiveFails
<1> QED
  BY <1>3, <1>4, <1>5, <1>6, <1>7, <1>8, <1>9, <1>10, <1>11, <1>12, <1>13, <1>14,
     <1>15, <1>16, <1>17, <1>18, <1>19, <1>20, <1>21, <1>22, Zenon
     DEF TxnStep, Progress, Work, Close

LEMMA StepCrashes ==
  ASSUME TypeOK, NEW t \in Txns, TxnStep(t)
  PROVE  crashes' = crashes
BY Zenon DEF TxnStep, Progress, Work, Close, TxnNew, OpenRead, OpenWrite, CommitBegin,
   GetXid, SetXid, LoadRoot0, LoadRoot1, LoadFails, RecoverActive, FreeActive,
   FreeActiveFails, TakePending, SetActive, GcBegin, GcTake, XminSlot, Take, AllocFails,
   Record, StoreTree, StoreXid, Discard, FlushActive, StorePending, Unlock, XminBegin,
   NewNode, Clone, WriteInPlace, CloseLocked, CloseUnlocked, procVars

(* A step of a process that holds no page in memory. *)
LEMMA SameAccounts ==
  ASSUME AccountInv, Lossless, \A c \in Conn : cpid'[c] => ~Unlocked(c)',
         UNCHANGED <<active, tree, pend, pg, hand, gc, used, view, pc, crashes>>,
         free \subseteq free', \A u \in Txns : pc[u] # "none" => Slot(u)' = Slot(u)
  PROVE  AccountInv'
<1>1. \A p \in Page : Known(p) => Known(p)'
  BY Zenon DEF Known, Pages
<1>2. \A p \in Page, u \in Txns : Has(u, p) => Has(u, p)'
  BY Zenon DEF Has, Pages
<1>3. ASSUME NEW u \in Txns PROVE Tidy(u)'
  <2>1. Tidy(u)
    BY Zenon DEF AccountInv
  <2>2. pc[u] \in {"flush", "pending"} => pc[u] # "none"
    BY Zenon
  <2> QED
    BY <2>1, <2>2, Zenon DEF Tidy, Pages
<1>4. \A p \in active' : \E u \in Txns : pc'[u] \in Recording /\ p \in pg'[u]
  BY Zenon DEF AccountInv
<1>5. \A p \in Page : Known(p)' \/ \E u \in Txns : Has(u, p)'
  BY <1>1, <1>2, Zenon DEF AccountInv
<1> QED
  BY <1>3, <1>4, <1>5, Zenon DEF AccountInv

LEMMA TxnAccountStep ==
  ASSUME Sound, AccountInv, NEW t \in Txns, TxnStep(t)
  PROVE  AccountInv'
<1>1. TypeOK /\ LockInv
  BY Zenon DEF Sound
<1>2. Apart(t)
  BY <1>1, StepApart, Zenon
<1>3. crashes' = crashes
  BY <1>1, StepCrashes, Zenon
<1>4. CASE Lossless
  <2>1. \A c \in Conn : cpid[c] => ~Unlocked(c)
    BY <1>4, Zenon DEF AccountInv
  <2>2. Bounded(t)
    BY <1>1, <2>1, StepBounded, Zenon
  <2>3. Owes(t)
    BY <1>4, <2>2, TxnOwes, Zenon
  <2> QED
    BY <1>2, <1>4, <2>2, <2>3, OwesStep, Zenon
<1>5. CASE ~Lossless
  BY <1>3, <1>5, Zenon DEF AccountInv, Lossless
<1> QED
  BY <1>4, <1>5, Zenon

LEMMA ProcAccountStep ==
  ASSUME Sound, AccountInv, NEW q \in Proc, ProcStep(q)
  PROVE  AccountInv'
<1>0. TypeOK /\ LockInv /\ PageInv
  BY Zenon DEF Sound
<1>1. CASE ~Lossless'
  BY <1>1, Zenon DEF AccountInv
<1>2. ASSUME Lossless, NEW c \in Conn, IdxOpen(q, c) PROVE AccountInv'
  <2>1. /\ UNCHANGED <<free, active, tree, pend, pg, hand, gc, used, view, pc, crashes>>
        /\ clock' = [clock EXCEPT ![c] = q] /\ cpid' = [cpid EXCEPT ![c] = TRUE]
        /\ conn[q] = NoConn /\ conn' = [conn EXCEPT ![q] = c]
    BY <1>2, Zenon DEF IdxOpen, hdrVars, storeVars, wrVars
  <2>2. \A b \in Conn : cpid'[b] => ~Unlocked(b)'
    BY <1>0, <1>2, <2>1, TxnAssumption, Zenon DEF AccountInv, Unlocked, TypeOK
  <2>3. ASSUME NEW u \in Txns, pc[u] # "none" PROVE Slot(u)' = Slot(u)
    <3>1. conn[Owner[u]] # NoConn
      BY <1>0, <2>3, Zenon DEF Slot, LockInv, ConnInv
    <3>2. Owner[u] # q
      BY <2>1, <3>1, Zenon
    <3>3. Owner[u] \in Proc /\ conn \in [Proc -> Conn \cup {NoConn}]
      BY <1>0, TxnAssumption, Zenon DEF TypeOK
    <3> QED
      BY <2>1, <3>2, <3>3, Zenon DEF Slot
  <2> QED
    BY <1>2, <2>1, <2>2, <2>3, SameAccounts, Zenon
<1>3. ASSUME Lossless, IdxClose(q) PROVE AccountInv'
  <2>1. /\ UNCHANGED <<free, active, tree, pend, pg, hand, gc, used, view, pc, crashes>>
        /\ clock' = [clock EXCEPT ![conn[q]] = NoProc]
        /\ cpid' = [cpid EXCEPT ![conn[q]] = FALSE]
        /\ conn' = [conn EXCEPT ![q] = NoConn]
        /\ \A u \in Txns : Owner[u] = q => pc[u] = "none"
    BY <1>3, Zenon DEF IdxClose, storeVars, wrVars
  <2>4. /\ clock \in [Conn -> Proc \cup {NoProc}] /\ cpid \in [Conn -> BOOLEAN]
        /\ \A b \in Conn : cpid[b] => ~Unlocked(b)
    BY <1>0, <1>3, Zenon DEF AccountInv, TypeOK
  <2>2. ASSUME NEW b \in Conn, cpid'[b] PROVE ~Unlocked(b)'
    <3>1. b # conn[q] /\ cpid[b]
      BY <2>1, <2>2, <2>4, Zenon
    <3> QED
      BY <2>1, <2>4, <3>1, Zenon DEF Unlocked
  <2>3. \A u \in Txns : pc[u] # "none" => Slot(u)' = Slot(u)
    BY <1>0, <2>1, TxnAssumption, Zenon DEF Slot, TypeOK
  <2> QED
    BY <1>3, <2>1, <2>2, <2>3, SameAccounts, Zenon
<1>4. ASSUME Lossless, Stat(q) \/ Repair(q) PROVE AccountInv'
  <2>1. /\ UNCHANGED <<active, tree, pend, pg, hand, gc, used, view, pc, crashes>>
        /\ UNCHANGED <<clock, cpid, conn>>
    BY <1>4, Zenon DEF Stat, Repair, hdrVars, connVars, wrVars
  <2>2. free \subseteq free'
    BY <1>4, Zenon DEF Stat, Repair, FreePages, PutPages, storeVars
  <2>3. \A b \in Conn : cpid'[b] => ~Unlocked(b)'
    BY <1>4, <2>1, Zenon DEF AccountInv, Unlocked
  <2>4. \A u \in Txns : pc[u] # "none" => Slot(u)' = Slot(u)
    BY <2>1, Zenon DEF Slot
  <2> QED
    BY <1>4, <2>1, <2>2, <2>3, <2>4, SameAccounts, Zenon
<1>5. ASSUME Lossless', Crash(q) PROVE FALSE
  <2>1. crashes' = crashes + 1 /\ crashes' = 0 /\ crashes \in Nat
    BY <1>0, <1>5, Zenon DEF Crash, Lossless, TypeOK
  <2> QED
    BY <2>1
<1>6. CASE Lossless' /\ ~Crash(q)
  <2>1. crashes' = crashes
    BY <1>6, Zenon DEF ProcStep, IdxOpen, IdxClose, Stat, Repair
  <2>2. Lossless
    BY <1>6, <2>1, Zenon DEF Lossless
  <2> QED
    BY <1>2, <1>3, <1>4, <1>6, <2>2, Zenon DEF ProcStep
<1> QED
  BY <1>1, <1>5, <1>6, Zenon

(* The inductive invariant. *)
FullInv == Sound /\ AccountInv

LEMMA FullInit == Init => FullInv
<1> SUFFICES ASSUME Init PROVE FullInv
  BY Zenon
<1>1. free = Page /\ active = {} /\ \A c \in Conn : cpid[c] = FALSE
  BY Zenon DEF Init, PageStoreInit
<1>2. \A t \in Txns : Tidy(t)
  BY Zenon DEF Init, Tidy, Out, Editing
<1> QED
  BY <1>1, <1>2, SoundInit, Zenon DEF FullInv, AccountInv, Known

LEMMA FullStep ==
  ASSUME \A q, r \in Repairers : q = r
  PROVE  FullInv /\ [Next]_vars => FullInv'
<1> SUFFICES ASSUME FullInv, [Next]_vars PROVE FullInv'
  BY Zenon
<1>1. Sound /\ AccountInv
  BY Zenon DEF FullInv
<1>2. Sound'
  BY <1>1, SoundStep, Zenon
<1>3. CASE Next
  BY <1>1, <1>2, <1>3, TxnAccountStep, ProcAccountStep, Zenon DEF Next, FullInv
<1>4. CASE UNCHANGED vars
  <2>1. /\ UNCHANGED <<free, active, tree, pend, pg, hand, gc, used, view, pc, crashes>>
        /\ UNCHANGED <<clock, cpid, conn>>
    BY <1>4, Zenon DEF vars, hdrVars, connVars, storeVars, procVars, wrVars
  <2>3. \A t \in Txns : Slot(t)' = Slot(t)
    BY <2>1, Zenon DEF Slot
  <2>4. ASSUME Lossless PROVE AccountInv'
    <3>1. \A c \in Conn : cpid'[c] => ~Unlocked(c)'
      BY <1>1, <2>1, <2>4, Zenon DEF AccountInv, Unlocked
    <3> QED
      BY <1>1, <2>1, <2>3, <2>4, <3>1, SameAccounts, Zenon
  <2>5. ASSUME ~Lossless PROVE AccountInv'
    BY <2>1, <2>5, Zenon DEF AccountInv, Lossless
  <2>2. AccountInv'
    BY <2>4, <2>5, Zenon
  <2> QED
    BY <1>2, <2>2, Zenon DEF FullInv
<1> QED
  BY <1>3, <1>4, Zenon

LEMMA FullNoLeak == FullInv => NoLeak
<1> SUFFICES ASSUME FullInv, Lossless, lock = NoProc, NEW p \in Page PROVE p \in Marked
  BY Zenon DEF NoLeak, Lossless, Leaked
<1>1. Known(p) \/ \E t \in Txns : Has(t, p)
  BY Zenon DEF FullInv, AccountInv
<1>2. Known(p)
  BY <1>1, NobodyWrites, Zenon DEF FullInv
<1> QED
  BY <1>2, PendMarked DEF Known, Marked

(* As long as no process is killed and ed_free does not fail, ed_stat_new finds
   no leaked page whenever it gets the write lock: aborted and committed
   transactions, resets and closes that fail to lock, failed maps and
   allocations, probed slots and repairs by one process all leave each page in
   the free list, the active list, a pending list or a tree.  It holds for any
   processes, slots, pages, batches and lengths of the lists. *)
THEOREM NoLeakTheorem ==
  ASSUME \A q, r \in Repairers : q = r
  PROVE  Spec => []NoLeak
<1>1. FullInv /\ [Next]_vars => FullInv'
  BY FullStep, Zenon
<1> QED
  BY <1>1, FullInit, FullNoLeak, PTL DEF Spec
=============================================================================
