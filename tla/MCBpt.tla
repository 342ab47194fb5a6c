------------------------------- MODULE MCBpt -------------------------------
EXTENDS Bpt

E(k, v) == [key |-> k, val |-> v]
Stored == {E(4, 1), E(8, 0)}
Pages == 1..14

(* A new file, and what inserts of 5, 9, 9, 9, 6, 7, 4, 7, 2 and 3 and removals
   of 3 and two of the 9 leave: a root without room over leaves of which one is
   full. *)
NewFile == [page |-> <<>>, root |-> 0]
FullRoot ==
  [page |-> <<Leaf(<<E(2, 0)>>), Leaf(<<E(4, 0), E(5, 0)>>),
              Branch(<<3, 6, 9>>, <<1, 2, 4, 5>>),
              Leaf(<<E(6, 0), E(7, 1), E(7, 0)>>), Leaf(<<E(9, 0)>>)>>,
   root |-> 3]
Files == {NewFile, FullRoot}

RECURSIVE Shape(_, _)
Shape(no, own) ==
  IF no = 0 THEN <<>>
  ELSE IF IsLeaf(page, no) THEN <<no \in own, page[no].ents>>
  ELSE <<no \in own, page[no].keys,
         [i \in DOMAIN page[no].ptrs |-> Shape(page[no].ptrs[i], own)]>>

(* Page numbers only name pages: what a state is up to their renaming. *)
View ==
  LET ls == IF Usable /\ txn.root # 0 THEN LeavesOf(page, txn.root) ELSE <<>>
      At(no) == {i \in DOMAIN ls : ls[i] = no}
      idx == [i \in DOMAIN dbp.path |-> dbp.path[i].idx]
  IN <<Shape(head, {}), nsets, txn.open, txn.error,
       IF Usable THEN <<Shape(txn.root, txn.own), call, idx, At(dbp.start[1]),
                        [dbp EXCEPT !.path = <<>>, !.start[1] = 0]>>
       ELSE <<>>>>
=============================================================================
