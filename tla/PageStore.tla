----------------------------- MODULE PageStore -----------------------------
(***************************************************************************)
(* What the page allocator of the index (lib/pg.c) promises to the code    *)
(* that uses it.  A page the allocator owns is "free" and carries a gate:  *)
(* the id of the transaction that stopped using it, or 0 when nobody ever  *)
(* saw it.  ed_alloc hands out pages whose gate is 0 or older than every   *)
(* open snapshot (the xid < ed_idx_xmin() test); ed_free takes pages back. *)
(* Pages of the file's unused tail are free pages with gate 0, and so are  *)
(* the pages the allocator keeps its own lists in.                         *)
(*                                                                         *)
(* PgGc models how pg.c does this; Txn is built on the actions below.      *)
(***************************************************************************)
EXTENDS Integers

CONSTANT Page      \* the page numbers of the index file

VARIABLES
  free,            \* the pages the allocator owns
  gate             \* per page: the transaction id that gates its reuse

PageStoreTypeOK ==
  /\ free \in SUBSET Page
  /\ gate \in [Page -> Nat]

PageStoreInit ==
  /\ free = Page
  /\ gate = [p \in Page |-> 0]

(* A page may be handed out to a writer whose oldest visible snapshot is xmin. *)
Reusable(p, xmin) == gate[p] = 0 \/ gate[p] < xmin

(* ed_alloc: all of the requested pages S, or none of them. *)
TakePages(S, xmin) ==
  /\ S \subseteq free
  /\ \A p \in S : Reusable(p, xmin)
  /\ free' = free \ S
  /\ gate' = [p \in Page |-> IF p \in S THEN 0 ELSE gate[p]]

(* ed_alloc on behalf of ed_free: the pages become gc pages. *)
RecyclePages(S, xmin) ==
  /\ S \subseteq free
  /\ \A p \in S : Reusable(p, xmin)
  /\ gate' = [p \in Page |-> IF p \in S THEN 0 ELSE gate[p]]
  /\ UNCHANGED free

(* Mutants: the page takes the older gate of the list it is merged into; the
   gate is off by one. *)
GatesForOlder(xid) == {xid} \cup {gate[p] : p \in {q \in free : gate[q] <= xid}}
GatesForPrev(xid) == {xid - 1}

(* The gates ed_free may give a page freed by transaction xid: its own id, or
   the newer id of the list the page is merged into. *)
GatesFor(xid) == {xid} \cup {gate[p] : p \in {q \in free : gate[q] >= xid}}

(* ed_free / ed_free_pgno: the pages S are reusable once xid is old enough.
   They may end up in more than one list. *)
PutPages(S, xid) ==
  /\ free' = free \cup S
  /\ \E g \in [S -> GatesFor(xid)] :
       gate' = [p \in Page |-> IF p \in S THEN g[p] ELSE gate[p]]

=============================================================================
