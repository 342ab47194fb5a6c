------------------------------- MODULE MCTxn -------------------------------
(* Instances of Txn for TLC: two processes, P and Q, that share the index. *)
EXTENDS Txn, TLC

CONSTANTS P, Q, a, b

OwnerPQ == (a :> P) @@ (b :> Q)
PageSymmetry == Permutations(Page)
AllPoints == Points
AllButXid == Points \ {"xid"}

(* State constraint: a behaviour with a crash is followed for two commits, one
   without for as many as MaxXid allows. *)
EarlyCrash == crashes = 0 \/ hxid < 3
=============================================================================
