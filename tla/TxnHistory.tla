----------------------------- MODULE TxnHistory -----------------------------
(* Txn with the pairs of trees that were ever committed. *)
EXTENDS Txn

VARIABLE committed

HistorySpec ==
  /\ Init /\ committed = {tree}
  /\ [][Next /\ committed' = committed \cup {tree'}]_<<vars, committed>>

(* An open transaction sees the trees of one commit: "single changes made to
   multiple databases are handled as a single change" (EdTxn). *)
SingleChange == \A t \in Txns : pc[t] = "open" => view[t] \in committed
=============================================================================
