---------------------------- MODULE MCTxnHistory ----------------------------
(* The instances of MCTxn for TxnHistory. *)
EXTENDS MCTxn, TxnHistory
=============================================================================
