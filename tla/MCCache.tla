------------------------------ MODULE MCCache ------------------------------
(* Instances of Cache for TLC. *)
EXTENDS Cache, TLC

CONSTANTS p, q, r, k1, k2

Mine == [h \in Handle |-> h]     \* one open object per process

(* A slab of objects of size n that went round once: k1, k2, k1, ... each
   created and closed by two transactions of its own. *)
KeyOf(i) == IF i % 2 = 0 THEN k1 ELSE k2
Filled(n) ==
  LET m == BlockCount \div n
      newest == {i \in 0 .. m - 1 : i + 2 >= m}
      Hdr(i) == [key |-> KeyOf(i), val |-> 2 * i + 1, count |-> n, xid |-> 2 * i + 2, crc |-> 2 * i + 1,
                 exp |-> IF i \in newest THEN ED_TIME_INF ELSE ED_TIME_DELETE]
  IN [idx |-> [keys |-> {[key |-> KeyOf(i), vno |-> i * n, count |-> n, exp |-> ED_TIME_INF] : i \in newest},
               blocks |-> {[no |-> i * n, count |-> n, xid |-> 2 * i + 2] : i \in 0 .. m - 1},
               vno |-> m * n, xid |-> 2 * m],
      slab |-> [b \in 0 .. m * n - 1 |->
                  [hdr |-> IF b % n = 0 THEN Hdr(b \div n) ELSE NoHdr, val |-> 2 * (b \div n) + 1]]]

Empty == [idx |-> [keys |-> {}, blocks |-> {}, vno |-> 0, xid |-> 0], slab |-> <<>>]

Ask(handles, writers, sizes) ==
  [handles |-> handles, writers |-> writers, sizes |-> sizes, last |-> 0,
   ttls |-> {}, ticks |-> 0, lists |-> FALSE, faults |-> {}, crash |-> {}]

Load(ask, start, changes) ==
  [ask |-> [ask EXCEPT !.last = start.idx.xid + changes], idx |-> start.idx, slab |-> start.slab]

(* One process with objects of two sizes, which fails, gives up and is killed
   anywhere. *)
Alone ==
  [Ask({p}, {p}, {1, 2}) EXCEPT !.ttls = {0}, !.faults = {"create", "close", "discard"},
     !.crash = {"writing", "locking", "reserve", "commit", "init", "closing", "update"}]

(* One process whose objects expire, and a list. *)
Listing == [Ask({p}, {p}, {1, 2}) EXCEPT !.ttls = {1}, !.ticks = 1, !.lists = TRUE]

(* Two processes that create and open, discard, are killed anywhere and fail
   to commit a close; the same for more changes, without what is given up; and
   one that creates, fails, gives up or is killed while two open. *)
Pair ==
  [Ask({q, r}, {q, r}, {1}) EXCEPT !.faults = {"close", "discard"}, !.crash = Alone.crash]
Steady == [Ask({q, r}, {q, r}, {1}) EXCEPT !.crash = {"locking", "reserve", "commit"}]
Readers == [Ask({p, q, r}, {p}, {1}) EXCEPT !.faults = Alone.faults, !.crash = Alone.crash]

(* Two processes with objects of two sizes, without any fault. *)
Mixed == Ask({p, q}, {p, q}, {1, 2})

KindLoads ==
  {Load(Alone, Empty, 3), Load(Alone, Filled(1), 3), Load(Listing, Filled(1), 2),
   Load(Pair, Filled(1), 2), Load(Steady, Filled(1), 3), Load(Readers, Filled(1), 1)}
MixedLoads == {Load(Mixed, Empty, 8)}
Symmetry == Permutations({q, r})
=============================================================================
