------------------------------ MODULE BptTable ------------------------------
(* What one b+tree of the index promises to the transaction that holds it:  *)
(* a bag of entries, a cursor on one of them, and a saved copy that only a   *)
(* commit replaces.  Bpt implements it.                                      *)
EXTENDS Integers, Bags

CONSTANTS Entries, NoEntry

VARIABLE table   \* work: the entries the transaction sees;
                 \* saved: the entries of the last commit;
                 \* cur: the entry under the cursor, or NoEntry

One(e) == SetToBag({e})

Init == table.work = table.saved /\ table.cur = NoEntry

(* The tables each kind of call can leave behind table t. *)

(* ed_bpt_find, first, last, next, prev. *)
Moved(t) == {[t EXCEPT !.cur = c] : c \in BagToSet(t.work) \cup {NoEntry}}

(* ed_bpt_set: one more entry, or one in the place of the current entry. *)
Inserted(t) == {[t EXCEPT !.work = @ (+) One(e), !.cur = e] : e \in Entries}

Replaced(t) ==
  {[t EXCEPT !.work = (@ (-) One(t.cur)) (+) One(e), !.cur = e] :
     e \in {x \in Entries : t.cur \in BagToSet(t.work) /\ x.key = t.cur.key}}

(* ed_bpt_del: without the current entry, and no other. *)
Removed(t) ==
  {[t EXCEPT !.work = @ (-) One(c), !.cur = NoEntry] : c \in {t.cur} \cap BagToSet(t.work)}

Committed(t) == {[t EXCEPT !.saved = t.work, !.cur = NoEntry]}

(* The transaction is closed, or one of its calls fails. *)
Abandoned(t) == {[t EXCEPT !.work = t.saved, !.cur = NoEntry]}

Next ==
  \E t \in {table} :
    table' \in UNION {Moved(t), Inserted(t), Replaced(t), Removed(t),
                      Committed(t), Abandoned(t)}

Spec == Init /\ [][Next]_table
=============================================================================
