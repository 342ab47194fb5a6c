# Verification of eddy

This directory holds TLA+ models of eddy's index and slab, the TLC configurations that
check them on small instances, and TLAPS proofs of the properties that matter
most. Source paths are relative to the root of the repository.

## The system

A cache is two files. The **slab** is a circular buffer of object data. The
**index** is a memory-mapped file of 4 KiB pages holding two copy-on-write
b+trees (keys and blocks). Any number of processes map the index; they
coordinate only through the mapped header and `fcntl` range locks, and each of
them may be killed between any two stores.

| Part | Source | State | Operations |
| --- | --- | --- | --- |
| Page allocator | `lib/pg.c` | chain of gc pages, each an array of lists of page numbers gated by a transaction id; unused end of the file | `ed_alloc`, `ed_free`, `ed_free_pgno`, `ed_pg_mark_gc` |
| Transactions | `lib/txn.c` | the pages, replaced pages, snapshot and id of a transaction object; `hdr->active`, `hdr->tree`, `hdr->xid` | `ed_txn_new/open/alloc/clone/discard/commit/close` |
| Connection slots | `lib/idx.c` | one slot per open handle: lock, pid, protected id, pending pages | `ed_idx_open/close`, `ed_idx_acquire_snapshot`, `ed_idx_xmin`, `ed_idx_repair_leaks` |
| Locks | `lib/lck.c` | thread lock and file range lock | `ed_lck`, `ed_flck` |
| Statistics | `lib/stat.c` | bitmap of accounted pages | `ed_stat_new`, `ed_stat_mark`, leak queries |
| B+tree | `lib/bpt.c` | nodes, cursor path of a transaction | find, first/last/next/prev, set, delete, verify |
| Cache objects | `lib/cache.c` | reserved slab blocks, object headers, region locks | open, create, write, close, discard, update, list |
| Time, hash, paths, random, errors, MIME, tools | other files | none shared | pure functions, I/O, command line |

How they interact: a cache operation opens a transaction; the transaction
takes the write lock, a slot id and a snapshot of the two roots; the tree code
clones pages it gets from the allocator and queues the ones it replaces; commit
publishes both roots and then the new id; replaced pages go to the allocator
under that id, and `ed_alloc` reuses them only once `ed_idx_xmin` says that no
slot protects an older snapshot.

What makes this hard is the order of single stores seen by other processes, and
by whoever recovers after a crash. `PROJECT.json` lists each such place as a
hazard with its line.

## Modules

| Module | Models |
| --- | --- |
| `PageStore` | what the allocator promises: free pages and the id that gates each |
| `PgGc` | how `lib/pg.c` does it: the words of the gc pages, store by store |
| `Txn` | transactions, slots, locks, accounting and repair of several processes, over `PageStore` |
| `TxnHistory` | `Txn` with a history of commits |
| `TxnProofs` | proofs about `Txn`: types, who may be inside a write transaction, and that a page has one owner |
| `TxnWrites` | proofs that a writer works on the latest trees and only on copies, and that no page is lost |
| `TxnSnapshots` | proof that the pages of a reader's snapshot are kept |
| `BptTable` | what a tree promises: a bag of entries, changed by a transaction as a whole |
| `Bpt` | how `lib/bpt.c` does it: nodes, cursor, splits, copy-on-write |
| `Time` | the conversions of `lib/time.c` |
| `CacheMap` | what the cache promises: a map from keys to finished objects |
| `Cache` | how `lib/cache.c` does it: slab, reservations, region locks, object headers |
| `CacheSteps`, `CacheProofs` | proofs about `Cache`: the invariant with the steps of creating and opening; the remaining steps, the theorems that follow from it, and those about `Time` |
| `CacheReaders` | proofs about types, about what an open object relies on, and that a list yields every place once |
| `CacheExpiry` | proof that headers and key entries keep agreeing about expiry |
| `CacheTheorems` | the theorems about expiry and about open objects, from all of these |
| `MCPgGc`, `MCTxn`, `MCTxnHistory`, `MCBpt`, `MCCache` | instances for TLC |

The layers are joined by abstraction. `PgGc` is shown to implement `PageStore`,
which `Txn` is built on. In `Txn` a tree is the set of its pages; `Bpt` has the
nodes, and its transaction is reduced to the pages it owns and the pages it
replaced. In `Cache` a commit is one step, as `Bpt` and `Txn` justify.

### State and actions

**PgGc.** `gc` holds the words of each gc page (state, next, data), `gc_head`,
`gc_tail`, `tail_start` and `tail_count` the header's fields. `ed_alloc` is `Alloc`
(plan of what to take), then `StoreTailStart`, `StoreTailCount`, `StoreState`,
`StoreHead` or `Failed`, one action per store; `ed_free_pgno` is `Free`, `Plan`,
`ShiftCopy`, `ShiftState`, `ListNext`, `ListHeader`, `Link`, `InitPage`, `StoreTail`,
`Fill`, `FillCounted`. Where an assert of the code fails, the process ends
(`AbortRemain`, which needs no crash, and `AbortNoNew`). The default build has no
asserts (`-DNDEBUG`) and goes on; the model does not follow it there.

**Txn.** Each transaction object `t` has a program point `pc[t]`; an action is
one store, or one load of a word that others store. `xid`, `pg`, `used`, `gc`
and `view` are fields of `EdTxn` (`view` the pages of the two roots it works
on); `hand` is what a call has taken from one place and not yet put in another.
`hxid`, `tree`, `active`, `lock` are in the header; `clock`, `cpid`, `cxid`,
`pend` in a slot; `pxid` is the id stamped on each page. `Crash(q)` wipes the
memory and locks of process `q` and leaves the mapped file alone. `Stat` and
`Repair` are `ed_stat_new` and `ed_idx_repair_leaks`. `Repair` is for fewer than 64
leaks (`FewLeaks`): the code never resets its count (`lib/idx.c:511-520`), so from 64 on
it frees pages again and stores past its array. That is outside the model and
the theorems.

**Bpt.** `page` maps page numbers to leaves and branches, `head` is the committed
root, `txn` the open transaction, `dbp` the cursor (`EdTxnDb`: path, index,
`kmin`, `kmax`, counters). One action per public call: `Find`, `First`,
`LastEntry`, `NextEntry`, `PrevEntry`, `Set`, `SetRefused`, `Del`, `MapFails`,
and open, close and commit. `n` of `Set` and `Del` is the number of allocations
that succeed before one fails. `Asked` is how the cache calls `ed_bpt_set`: after a
search, on the match a scan stopped at (`update_expiry`), or with `replace` false where a
scan of the matches ended (`obj_upsert`, for a key whose hash collides).

**Cache.** `idx` is the committed index (key and block tables, next `vno`, id),
`slab` the blocks with their headers, `lck` the region locks per process, `obj`
the open objects, `proc` the call a process is in. A call that locks, commits
and writes the slab is split at each of those (`CreateBegin`, `ReserveSkip`,
`ReserveTake`, `CreateCommit`, `CreateInit`, ...).

## Runs

| Run | Checks | Shows |
| --- | --- | --- |
| `txn_reclaim` | `OneOwner`, `SnapshotPagesKept`, `CopyOnWrite`, `NoLeak` | a reader and a writer over enough ids for pages to be freed and reused, allocations larger than `hdr->active` and the pending lists, an early crash at any point but between the two stores of a commit: pages of a snapshot are not handed out, committed pages are not changed, no page has two owners; without a crash none is lost |
| `txn_faults` | `TypeOK`, `OneOwner`, `NoLostUpdate`, `LockNotKept`, `WriteLockReleased` | two writers with failing frees, maps and locks, a crash anywhere, and a repairer |
| `pg_crash` | `TypeOK`, `OnePlace`, `NoPageLost`, `ListsInPage`, `ImplementsPageStore` | allocations and frees with failing maps and crashes between any two stores but those of `gc_list_next` and of the end of the file; until a crash the words implement `PageStore` |
| `bpt_tree` | `Verified`, `PagesBalanced`, `FindComplete`, `CursorRange`, `WalkInOrder`, `ImplementsTable` | sets, deletes and scans over trees of up to three levels, with failing allocations |
| `cache_slab` | `ActiveNotEvicted`, `IndexMatchesSlab`, `ReservedApart`, `ExpiryAgrees`, `ListOnce`, `ImplementsMap` | six workloads over a slab of three blocks, see below |

`LockNotKept` says that a writer's call that ends leaves the write lock free, with
one exception that the code has: when a root cannot be mapped, `ed_txn_open` returns
with the lock held (`lib/txn.c:120-121`). Closing the transaction then does not
release it, because its state is closed. `WriteLockReleased` says that otherwise
whoever takes the lock gives it up in time.

Seven runs show that the code departs from what its comments, asserts or
documentation say; each is a finding of `PROJECT.json` with the lines.

| Run | Violated | Why |
| --- | --- | --- |
| `txn_mixed_roots` | `SingleChange` | the two roots of a snapshot are loaded one by one around a commit |
| `txn_inplace_after_crash` | `CopyOnWrite` | a crash between `hdr->vtree` and `hdr->xid` lets the next writer reuse an id that committed pages carry |
| `pg_crash_list` | `OnePlace` | `gc_list_next` counts a list before its header is stored |
| `pg_full_page` | `RoomNotNegative` | without any crash: the lists of the last gc page end less than a list header before its end and are all handed out; the next free finds a negative room |
| `bpt_collision` | `RepeatsTogether` | `split_point` counts the matches back from a cursor that a scan has moved past them, and splits between equal keys |
| `bpt_emptied_leaf` | `CursorInLeaf` | a leaf emptied by `ed_bpt_del` stays, and `ed_bpt_next` stops on it |
| `cache_active` | `ActiveNotEvicted` | after a refused lock `vno % block_count` is no longer the place that was locked |

The passing runs leave out what leads to these violations, so that they say what
holds otherwise: `CrashAt` is without `"xid"` in `txn_reclaim` and without `"list"` in
`pg_crash`; `EmptyLeaf` and `SplitPast` are `FALSE` in `bpt_tree`; `cache_slab` does not go
beyond states in which `InStep` is false. `pg_crash` does reach the negative room,
and the process ends there.

`pg_crash` also leaves out a crash at `"count"` (`lib/pg.c:162`), between the stores of
`tail_start` and `tail_count`: the header then has the new start with the old, too
high count, and later allocations map pages behind the end of the file.

### Bounds

- **Txn**: two processes, two slots. `txn_reclaim` has three pages and five ids: reuse
  of a freed page needs a commit that replaces it, one that raises the id past it
  and one that allocates it. Transactions use one or two pages, and `hdr->active` and
  the pending lists have room for one, so that both overflow. Its constraint
  `EarlyCrash` follows a behaviour with a crash only while `hdr->xid` is below three;
  what a later crash or a longer recovery does is left to the theorems.
  `txn_faults` has one page and two commits, and spends its states on crashes and
  failures. `txn_mixed_roots` has four pages for the two roots.
- **PgGc**: gc pages of ten words hold a list of up to seven pages or two short
  lists, so lists are merged, shifted and continued on a second gc page; three
  pages, two crashes.
- **Bpt**: three entries per leaf, four children per branch, two changes per run
  from a new file and from a tree whose root and one leaf are full, so that one
  insertion splits a leaf, the root and the path, and another goes behind a match
  in a leaf with room. `Allocs = {1, 9}` fails the second allocation or none.
- **Cache**: three blocks, two keys. *Alone*: one process, objects of one and two
  blocks, failing commits, discards, a crash at any step; from an empty and a full
  slab. *Listing*: expiring objects and a list. *Pair*: two creating processes that
  discard, fail to commit a close and are killed at any step; two changes. *Steady*:
  two creating processes and three changes, killed only at `locking`, `reserve` or
  `commit`. *Readers*: one creating process with all faults and two readers. A refused
  lock takes `obj_reserve` out of step where the next entry is not adjacent: with
  objects of two sizes, or behind the gap that a discarded object left. The
  constraint `InStep` ends the search there. Checksums are on: without them a lookup
  that is overtaken by a create which is then discarded opens what that left, and
  `ActiveNotEvicted` fails under *Pair*. Offline, *Pair* with failing creates and
  three changes (1,260,244 states) and *Readers* with two (1,214,950) pass.

`PageSymmetry` and the symmetry of `q` and `r` permute values that no definition
tells apart, and are used with invariants and with step properties only, never
in `txn_faults`. The `VIEW` of `MCBpt` identifies states that differ by a renaming
of page numbers: the code never compares two of them except for equality.
Deadlock is not checked: the counters that bound a run end it.

### Fairness

`txn_faults` assumes weak fairness of the steps inside a call (`Progress`) and of
the application ending a transaction it opened, by commit or close. A call runs
on one thread and waits only for the write lock, and the library cannot end a
transaction that its caller keeps open. Nothing is assumed about starting calls
or about crashes.

## Proofs

### Transactions

The theorems hold for any processes, slots, pages, list lengths, failing calls
and numbers of crashes, from the named assumptions of `Txn` on its constants. They are
about `Spec`, in which a repair frees fewer than 64 leaks at once.

- `TypeCorrect`: `TypeOK`. `LockCorrect`: `LockInv`. A transaction at a point
  between open and close has its process hold the lock (`WriteInv`); this needs
  that a slot belongs to one process (`ConnInv`), that a process runs one call
  at a time (`OneThread`) and that a writer is not read-only (`ModeInv`).
- `OneOwnerTheorem`: `OneOwner`, if at most one process repairs leaks, and as long as
  each finds fewer than 64 (`FewLeaks`).
  `OneOwner` speaks of the file only and is not inductive: a page about to be
  stored may be in a process's memory. `PageInv` adds, for each program point,
  what the object holds (`Settled`, `Holds`), how its view relates to the trees
  (`Loads`, `Edits`), and that what a repairer will free is known to nobody
  (`LeakInv`).
- `NoLostUpdateTheorem`: `NoLostUpdate`, under the same assumption. With
  `PageInv` it is inductive: only the writer changes the trees, and a clone takes
  a page out of its view, puts it in its `gc` and adds one it owns.
- `CopyOnWriteTheorem`: `CopyOnWrite`, if moreover `"xid"` is not a crash point.
  `StampInv` says that stamps on committed pages are at most `hdr->xid` except
  between the two stores of a commit, and that a writer's id is `hdr->xid + 1`.
  So no page of the trees passes the test for the writer's own pages. Without
  the assumption the crash step fails, as `txn_inplace_after_crash` shows.
- `SnapshotTheorem`: `SnapshotPagesKept`, under `Solo`. The invariant `SnapInv`
  has two parts. `XidInv` bounds the ids: no slot protects an id above
  `hdr->xid`, a reader's slot protects one, and a writer's id is `hdr->xid + 1`.
  `ReadInv` says of each page of a reader's snapshot (`Kept`) that it is in no
  list that is freed or used without a gate, that the gate it has, or will get
  from the writer that replaced it, is newer than the protected id, and that a
  scan of `ed_idx_xmin` under way either still comes to the reader's slot or has
  a result at or below the gate. The hard step is a reader that loads its roots
  while a writer scans: its pages are in the trees then, so not free.
  `Solo` says that a process has one transaction object and that nobody repairs
  leaks. Both are needed: objects of one process share a slot, so the second
  overwrites the id the first protects; and `ed_idx_repair_leaks` frees with gate
  0 pages of a killed writer's commit that a reader may still see.
- `NoLeakTheorem`: `NoLeak`, if at most one process repairs leaks. As long as
  nobody was killed and frees do not fail (`Lossless`), every page is in one of
  the four durable places or with a transaction at work (`AccountInv`). To be
  inductive this needs that the slot of a transaction at rest lists exactly the
  pages it kept, that pages its copy of the trees lacks are queued in `gc`, and
  that pages in `hdr->active` are also in the memory of their owner (`Tidy`). When
  the lock is free nobody is at work, and the durable places are what
  `ed_stat_new` marks.

Each step lemma first says what an action does in terms that the invariant
needs (`Apart`, `Others`, `Bounded`, `Counts`, ...) and then that any step of that
kind keeps the invariant. `XidInv`, `ReadInv`, `Tidy` and `AccountInv` were checked
with TLC, with two writers, crashes, all failures and a repairer, before they
were proved.

### Cache

The theorems hold for any slab size, keys, processes, sizes, times to live,
failing calls and crashes. They assume that a load starts from an index that
matches its slab and asks for objects that fit in the slab (`LoadAssumption`;
`ed_create` does not check the latter, and an object larger than the slab is
outside the model), and that a process has one object open at a time
(`Separate`): record locks do not separate two objects of one process.

- `IndexTheorem`: `IndexMatchesSlab`. `ReservedTheorem`: `ReservedApart`.
  `MapTheorem`: `ImplementsMap`, that is, every step of `Cache` is a step of
  `CacheMap` or changes nothing that a lookup sees. All three have the hypothesis
  `[]InStep`: while `obj_reserve` searches, its virtual number and its block
  number mean the same place. A refused lock can break it; `cache_slab` goes no
  further then, and `cache_active` shows that `ActiveNotEvicted` breaks with it. So
  the theorems say that this drift is the only way in which the index, the slab
  and the record locks come apart.
- `AloneTheorem`: for one process `InStep` holds as well, and the three results
  need no hypothesis. Nobody refuses its locks, so the step that could part the
  positions is never taken.
- `ExpiryTheorem`: `ExpiryAgrees`, under `[]InStep`, if it holds when the cache is
  opened. Up to the first change that is cut short, lists and lookups agree about
  what is expired.
- `ActiveTheorem`: `ActiveNotEvicted`, under `[]InStep`, for opens that verify the
  checksum (`Checksum`) and objects of one size (`OneSize`). `ed_open` looks up
  without a lock and then locks the region of an entry that may be out of date.
  Without the checksum it may open what a killed `ed_create` left in that region
  under the same key, which the next writer completes or replaces; with two sizes
  the header it finds there may claim more blocks than were locked.
- `ListTheorem`: `ListOnce`, without `Separate` and without `InStep`. It counts places of
  the snapshot's table. What a list yields at a place is the header in the slab at
  that moment (`ed_list_next` takes no lock): of the object of the snapshot, of a newer
  one, or data that was written over it. Nothing is claimed about that.
- `TtlExact`, `TtlReadBack`, `ExpiryOrder`: expiry times for every epoch, time
  and time to live that fit; the clamps never produce "never" or "deleted".

`IndexMatchesSlab` is not inductive: a commit publishes an index that the process
has had in memory since before other processes wrote to the slab. `CacheInv` has a
part that is common to all (`Common`) and one for each process (`Mine`). `Fits`
extends `Matches` by what the next steps need: keys have one entry, `hdr->vno` is
not inside an object, and no entry is on blocks that are taken. `Common` says this
of the committed index, with the blocks of objects being written (`Taken`), and
`Pending` of the index that a call is about to commit, with those and the blocks
of an `ed_create` that has not committed yet (`Claims`). Claims are under the
exclusive lock of their process, so the claims of two processes are disjoint and a
store of one leaves the entries and objects of the other alone (`SameClaims`,
`SlabChange`, `OthersKept`). `Object` says how much of an object is in the slab, so
that the last `ed_write` makes it whole. A step lemma shows what one action does
to its own process; `StepOf` gives the invariant from that. For `MapTheorem` the
lemmas also say that no step changes the value behind a committed key entry
(`Kept`).

The other theorems have invariants of their own, in `CacheExpiry` and `CacheReaders`.

- `ExpiryInv`: as long as no change was cut short, the committed index agrees with
  the headers while nobody changes it (`Agrees`), and a process between its stores
  into headers and its commit (`Marking`: `ed_close`, `ed_update_ttl`), or an `ed_create`
  that is to commit, has an index in memory that agrees with them already.
  `CacheInv` gives the rest: every other store into the slab is inside a taken range
  (`Inward`), where no entry leads. The store of `ed_close` marks the
  object it replaces as deleted and its commit removes the entry of that object
  (`EnteredAgrees`); an update changes one header and the one entry that leads to it
  (`UpdatedAgrees`).
- `ReaderInv(n)`: every open object is what its header and its blocks say, its reader
  has a shared lock on `n` blocks from its place on, and headers are of objects of
  `n` blocks. It is inductive given two facts about every step (`StoredNext`,
  `GuardsHold`): stores are inside taken ranges, and nobody has a shared lock there.
- `ListInv`: the walk stays inside one round of the slab (`Round`), or the table it
  read has a single entry (`Single`), which the count of rounds stops at; what was
  yielded lies behind the position, and is counted (`Counted`). `ed_list_open` reads
  the end position after the table, so the two may be of different commits. It needs
  only types (`TypeInv(S)`, with the sizes of all objects in `S`), and those hold even
  where `obj_reserve` has drifted.

TLC checked these invariants before they were proved. `ListInv` holds in the 337,171
states of `cache_slab`, with its quantifiers over `Nat` bounded by 20. The others were
checked on earlier sets of loads: `CacheInv` and `ExpiryInv` on 729,608 states (among
them two processes with objects of two sizes, all faults and a crash anywhere, cut
off where `InStep` fails), `TypeInv(Nat)` on 260,981, and `ReaderInv(n)` with
`TypeInv({n})` on 4,688,413 for one block and 23,641 for two (two writers with all
faults and a crash anywhere, and readers).

### Only model-checked

- Liveness (`WriteLockReleased`): out of the prover's reach. `LockNotKept`.
- Everything of `PgGc` and `Bpt` (`OnePlace`, `NoPageLost`, `ListsInPage`, `Verified`,
  `PagesBalanced`, `FindComplete`, `CursorRange`, `WalkInOrder`, their types and refinements): these
  walk chains and trees with RECURSIVE operators, which TLAPS does not support, and
  what such a walk returns needs induction over data.
- `ActiveNotEvicted` for one process with objects of two sizes. For several processes
  it needs what `ActiveTheorem` assumes.
- `RoomNotNegative`, `CursorInLeaf` and `RepeatsTogether` are stated for the runs that
  violate them.

## Known limits

- Two processes repairing leaks at once (`lib/idx.c:516`) is left out of every
  run and assumed away in the proofs.
- `Cache` has one handle per process, since `fcntl` locks do not separate handles
  of one process; its block table stands for one leaf of the tree; keys do not
  collide (`lib/cache.c:267`; `Bpt` has the insertion this leads to); `ED_FKEEPOLD` is
  off; checksum verification on open (`lib/cache.c:485`) is on in `cache_slab` and in
  `ActiveTheorem`, and off in `cache_active`; lists start at the oldest object for
  `ListOnce`.
- `ed_pg_mark_gc` (`lib/pg.c:552`) appears only as the set of pages it marks.

## Not modelled

File creation, verification and mapping of the index, the getters and the opening
of a cache handle: system calls and field reads. Hash, MIME detection, paths,
random seeds and error tables: no shared state, and properties about their
arithmetic or tables that bounded checking would not reach. Debugging aids
observe the program; the faults they inject are the failing calls of the models.
The command line tools parse options around single calls.
