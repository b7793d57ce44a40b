# LibPM in TLA+

LibPM keeps the objects of a C program in a *container*: a file that is mapped
into memory, from which pages are allocated, whose content is committed by
checkpoints and found again by a restore. This directory models the library's
own code (`src/src/*.c`), checks the models with TLC and proves, with TLAPS, the
safety of both page allocators, of the container on them, of the closure and of the
hash table. `PROJECT.json` maps every definition to the lines it stands for.

## The system

| component | code | state | operations |
| --- | --- | --- | --- |
| page allocator | `page_alloc.c` | the operations table of a container | init, getpage, freepages, mappage, mprotect, swap_mappings, shutdown |
| fixed mapper | `fixmapper.c` | file size, free list with a last pointer, index of protections | the same, on one linear mapping that is doubled |
| non-linear mapper | `nlmapper.c` | free list, tree of pages in use with their offsets | the same, growth by appending, swaps of two mappings |
| slab | `alloc.c`, `slab.c` | directory, outers, inners, buckets of slab entries; `es_list` per object size, `sd_free_list` | palloc, setroot, getroot |
| copy-on-write | `snapshot.c`, `sfhandler.c` | current and snapshot reference on every level | SIGSEGV handler, snapshots of buckets and nodes |
| checkpoint | `cont.c`, `checkpoint.c` | `CFLAG_CPOINT_IN_PROGRESS`, `sb_has_snapshot`, `sd_vector` | container_cpoint |
| restore | `cont.c`, `restore.c` | (rebuilds the process state) | container_restore |
| closure | `closure.c` | tables of volatile allocations and pointers | moves reachable objects into the container |
| hash table | `htable.c`, `hash.c` | a list of chains, length and count | insert, lookup, remove, filter, foreach |
| persistent pointers | `slab.c`, `fixptr.c` | pointer page of an entry; a list of pointers | records pointers, fixes them after a restore |
| flushes | `atomics.c`, `atomics.h` | none | clflush, ordered stores |

The application calls `container_palloc`, stores to its objects and calls
`container_cpoint`. A store to a data page that a checkpoint made read-only
faults, and the handler copies the page before it lets the store through. All
of these take pages from the allocator of the container, and a checkpoint gives
them back. `container_restore` opens the file in a new process: it takes the
snapshot references, or, when the flag says that a checkpoint was under way,
carries that checkpoint to its end.

The library has one thread of control and nothing in it waits. What is hard is
not concurrency: it is the death of the process between two stores, the fault
handler running in the middle of any store of the library or the application,
the file growing in the middle of any operation, long sequences of calls on
lists with cached ends, and a restore that must rebuild what died with the
process. `hazards` in `PROJECT.json` lists these places one by one.

What makes each part correct:

- mappers: a page is held or available and never both, in every order of calls;
  a growth adds only new pages and undoes no protection the library relies on;
  what the mapper records is what the kernel maps;
- slab: no object is given out twice, an entry is found by its identifier, no
  page has two roles;
- copy-on-write: the snapshot page keeps the data of the last checkpoint;
- checkpoint and restore: what was committed is what is found, from a crash at
  any store, and nothing that is still referred to is given back;
- closure: what the container points to is in it after a checkpoint, moved once,
  and every registered pointer leads to the object it led to; the records that a
  restore fixes pointers with agree with the pointers;
- hash table: it is a map, whatever collides.

## The modules

| module | what it models |
| --- | --- |
| `PagePool` | the abstract page pool: no call hands out a page that is held |
| `FixedMapperOps` | the functions of `fixmapper.c` as operators on the record of a handler |
| `FixedMapper` | its calls in any order, the end of the process and the reopening of the file; implements `PagePool` |
| `FixedMapperOpsProofs`, `FixedMapperProofs` | lemmas and theorems about the two |
| `Container` | one container with a slab of one bucket on the fixed mapper: palloc, faults, checkpoint, death, restore, one store that matters at a time |
| `SlabTree` | the tree of the slab through all of its levels, its copies and a whole checkpoint of it |
| `SlabPage` | the bytes of one data page: bitmap, capacity and offsets for every object size, the search for a free object, and the root of the container |
| `Closure` | mallocat, pointerat, the program's stores, and a checkpoint step by step: classification, the walk that moves allocations, back references; the pointer pages of slab entries |
| `NLMapperOps`, `NLMapper` | the functions of `nlmapper.c`, and its calls in any order |
| `NLSnapshot` | copy-on-write and checkpoint on the non-linear mapper |
| `NLMapperOpsProofs`, `NLMapperProofs` | lemmas and theorems about the non-linear mapper |
| `NLSnapshotProofs`, `ContainerProofs`, `ClosureProofs` | theorems about the three |
| `Dictionary`, `HTable` | the abstract map, and the chained table that implements it |
| `HTableProofs` | that it does, and its invariants |
| `MC*` | the modules as TLC runs them |

`Container` EXTENDS `FixedMapperOps` and `NLSnapshot` EXTENDS `NLMapperOps`: the
allocator of a container is the same set of operators that the mapper's own
module is checked and proved with.

**State.** A page of the file is a number. In `Container` the fields `maddr` and
`laddr` of a reference are one page number, because a process maps the file at
one address and a restore computes each `maddr` from its `laddr` again; in
`NLSnapshot`, where the two differ, a reference has both. The content of a page
is a bucket or the two facts a data page has: what the bytes of a bitmap say,
and what the application stored. `Container` keeps apart what is in the file
(`mem`, `si`, `flags`, `vec`, `buffer`), what dies with the process (`fm`, `pc`,
`op`, `es`, `freeEntries`, `nextId`) and history variables of the properties
(`live`, `handed`, `saved`, `saving`, `dirty`, `since`, `kept`). `buffer` is the
pointer to the buffer of `sd_vector`, which `VECTOR_INIT` stores in the file: after
a death it is `"lost"`, an address of a process that has ended.

In `Closure` an object has one size and one pointer, at its beginning, so that
an object and the location of its pointer are one address: a volatile address, a
pointer variable, or a number in the order in which `palloc` gives objects out.
`st` is the record of what the library and the program share (memory, tree of
allocations, vectors, registered locations, pointer pages); `ident` says, for the
properties, which object is at an address, wherever it was moved. A pointer page
is a number, and its content a sequence of records; that pages are recycled
is left to `Container`.

**Actions.** One per call or per handler, with everything the call does; where
a death between two stores can be told from a death after both, a call is cut
into steps, which `pc` orders. `container_cpoint` is cut at each entry, at the
bucket's reference, at `sb_has_snapshot`, at the flush and at the flag.
`slab_palloc` is cut at the bucket's copy, the initialisation of the entry and
the bit of the object. In `SlabTree` it is cut at each new node. In `Closure` a
checkpoint is one step per pointer that is walked. A fault is
part of the store that faults. A call that the code ends by dereferencing a
NULL index, by an assertion or by `handle_error` is an action too, that leads
to a state in which the process is dead, with the stores it made before in the
file: a checkpoint that dies in `freepages` has already assigned the snapshot
reference (`DiesFreeing`). Freeing a lost `buffer` at the end of `slab_cpoint` is
undefined, and the process dies of it (`DiesFlushing`) or goes on. A restore that
completes a checkpoint maps the same bucket more than once, so that a free entry
is put on `sd_free_list` again and linked to itself; the list in the model has it
once, because the process dies at the first page it asks for, before it allocates
from that list.

**Crashes** are deaths of the process: every store that was made is in the file.
The order in which cache lines reach the medium at a power failure is not
modelled.

**Configuration of the library.** `Closure` has `PMLIB_CLOSURE=1` and
`PMLIB_FIX_PTRS=1`, the defaults; the other modules have both at 0, where a
checkpoint is the slab's part alone.
`DefaultProt` is `DEFAULT_MAPPING_PROT`: `"R"` is what the repository is built
with. With it every restore dies at its first store (action `RestoreFaults`), so
`container_restore` and `container_rollback` take `"W"`, the value with which a
restore can go on, and all other runs `"R"`.

## The runs

| run | bounds | what it shows |
| --- | --- | --- |
| `fixed_mapper` | 1 page, at most 6 | free list, index and protections agree in every order of calls; the mapper implements `PagePool` |
| `container` | 2 entries, 11 pages, 3 checkpoints, 2 deaths (with `"R"` the second is a restore) | no growth: every page is accounted for, snapshots keep their data, identifiers are positions, no object is given out twice |
| `container_restore` | 8 pages, at most 24, 2 checkpoints, 2 deaths, `"W"` | restores after a death at any step, a second death in the restored process; what an interrupted checkpoint was called for is in the file at every step of it and after every death; lists are rebuilt; the file is doubled in the middle of every operation, and no referenced page is available and no page has two roles |
| `nl_mapper` | 1 page, at most 6, 2 processes | list, tree and table stay in step with the kernel through swaps and growths |
| `nl_snapshot` | 7 pages, at most 21, 2 entries, 4 checkpoints | both versions of the bucket are where their offsets say, no metadata page is available, no checkpoint frees an address that is not in use |
| `htable` | 5 keys, 2 values, lists of 2, 4 and 8 | the table implements a map, its count and load are right |
| `slab_tree` | 2 entries, 4 buckets, 2 inners, 2 outers, 1 checkpoint | identifiers lead to entries on every level, until the directory is full; before the first checkpoint a restore sees nothing of a growth |
| `closure` | 2 volatile addresses, 3 mallocs, 1 palloc, 1 variable, 2 objects to a page, 2 stores, 3 checkpoints | every graph these can form, before, between and after checkpoints, reused addresses included: what is reachable is moved once, registered pointers follow, records reproduce them, pointer pages are not freed while current, the checkpoint returns |
| `slab_page` | 4096 bytes, every request from 0 to 4097 bytes | bitmap and objects are apart, a page with room yields an object, only objects of 8, 16, 24 and 56 bytes reach over the end of the page, by 56, 16, 6 and 2 bytes; a root is looked for in its own entry or under an identifier that no entry has |
| `container_rollback` | as `container_restore`, with 10 pages | **violation**: a store after a checkpoint survives a restore |
| `container_checkpoint_commits` | 2 checkpoints | **violation**: a checkpoint after two allocations commits nothing |
| `closure_targets` | as `closure`, with 3 stores and 2 checkpoints | **violation**: a recorded pointer keeps a volatile target |

Why the bounds are enough. One page that is doubled gives the mapper an empty
list, a list of one page and longer ones, each reached by allocations and by
frees in any order, and two growths (`MaxPages` counts what `posix_fallocate`
makes of the file, three times the old size). Two entries are the least with
which one entry's pages can be mistaken for another's, and with two object sizes
they cover both layouts of the bitmap; an L page holds one object, so that an
entry fills at once, an S page two, so that it fills in two steps. Eleven pages
are what two entries with copies and a bucket with a copy need at most; eight
make a growth happen at every point of an operation. Three checkpoints let a page
be used, freed, used as something else and freed again. Two deaths put a death
into a restored process. In `SlabTree` an inner has four slots because an inner's
number is used as a slot in it and there are four inners; with two inners and two
outers every level is filled and passed once, and no page is used twice
(`MaxPages`), so that recycled pages are left to `Container`. The table's smallest
length is 2 instead of 4, so that five keys resize it twice. Two volatile
allocations and an object of the container make chains, a shared target, a
pointer to oneself and a cycle through the container; three mallocs of two
addresses make one come back after a checkpoint freed it; with two objects to a
page the three objects are in two entries, one of which gets its second object at
a later checkpoint than its first; the third checkpoint is the first that can
find something to move by the walk of dirty entries. A cycle of two volatile
allocations that the container points to takes three stores: with these and two
checkpoints the same properties hold (382,586 states). `slab_page` has no bound on a page: it fills one
of the real size with each of the 512 object sizes. The identifiers of its entries are
the first and the last of the first bucket, one of more than 16 bits and the last
that a full tree has (28 entries in a bucket, 127 buckets in an inner, 127 inners
in an outer, 124 outers: `TreeEntries`).

Deadlock is checked for the fixed mapper. In the other runs the bounds on
checkpoints, deaths and pages, and the deaths themselves, end a behaviour.

Fairness. `Closure` states `WF_vars(Library)`: once `container_cpoint` is called,
the library goes on with its next step, because it has one thread and waits for
nothing. The steps of the program (`malloc`, stores, the call of a checkpoint)
have no fairness: nothing obliges it to make a call. `CheckpointReturns` is then
about the walk itself, which appends to the vector it walks and ends only because
an allocation is moved once. The other calls of the library are loops over
arrays and lists of a fixed length, and their specifications state no fairness.

### What the violations show

- `container_rollback`: the first allocation after a checkpoint copies the bucket.
  The store it then makes faults, and the fault makes a copy of the data page,
  records it in the current bucket only (`snapshot.c:66`), and lets the store change
  the page in place. The bucket's copy, which a restore takes after a death, names
  that page as current and as snapshot, and so the change is restored. If no
  allocation has copied the bucket, the restore takes the current bucket, which
  names two pages, and ends at the assertion of `slab_bucket_map` (`restore.c:48`,
  `RestoreAssertionHolds` below).
- `container_checkpoint_commits`: `sb_has_snapshot` is assigned the result of
  every snapshot attempt, which is 0 at the second allocation after a
  checkpoint; the next checkpoint then skips the bucket (`alloc.c:151`).
- `closure_targets`: the closure walks the pointers recorded for dirty entries, so
  that a pointer which was registered once can be changed later. But the fault
  that makes the entry dirty sets the number of its records to that of the
  snapshot, which is always 0 (`snapshot.c:59`): nothing is walked, and the
  container is committed with a pointer to volatile memory.

Further statements of the repository that the code does not keep are definitions
at the end of the modules, with the words they are taken from. TLC refutes
each under the module's configuration with that definition as the invariant:

| definition | what happens |
| --- | --- |
| `FixedMapper!IndexTracksAllPages` | a file that exists is opened with a NULL index and an empty free list |
| `FixedMapper!FileAtMostTwice` | `posix_fallocate` gets the new size as a length: a doubled file is three times as long |
| `Container!RestoreReturns` | with `"R"`, a restore stores to a page it mapped read-only |
| `Container!RestoreAssertionHolds` | with `"W"`, a death after a fault leaves two different pages in an entry, and the assertion in `slab_bucket_map` fails |
| `Container!RestoreCanCheckpoint` | with `"W"`, completing a checkpoint frees pages through the NULL index |
| `Container!SnapshotIntact` | holds while the file does not grow. The index remembers the protection a page was allocated with, so a growth makes a data page that was copied and made writable read-only again; the next store copies it a second time, over the reference to the first copy (`fixmapper.c:127`; 8 pages, at most 24, `"R"`) |
| `NLMapper!AllInUseHere` | opening an existing file puts all of its pages on the free list |
| `NLSnapshot!EntryMapped` | `slab_entry_copynswap` swaps a page with itself, while the offset of the entry changes |
| `SlabTree!BucketIndexed` | `slab_bucket_snapshot` looks a bucket up in the slot numbered by its inner (`snapshot.c:127`) |
| `SlabTree!CheckpointKeepsBuckets` | the second bucket of the first inner puts its copy into the slot of the first, and the checkpoint frees the second bucket's own page (`checkpoint.c:52`; 1 entry to a bucket, 2 checkpoints) |
| `SlabTree!ShapeRolledBack` | an outer with two inners is changed without a copy (`alloc.c:77`), and a restore finds a bucket linked after the checkpoint |
| `Closure!UnmovedPointersStay` | a registered pointer to a registered allocation that did not move is rebased to the persistent address it does not have, and becomes NULL (`closure.c:267`) |
| `Closure!PointersRestorable` | the copy of a pointer page keeps the offset of the old page, because `atomic_set` at `snapshot.c:60` has its operands the wrong way round; the checkpoint frees the old page and commits its offset |
| `SlabPage!RootFound` | the offset of the root is subtracted the wrong way round (`slab.c:338`), so that all 64 bits of a negative number are packed: the identifier read back is 2^32 - 1 unless the object starts its page. An object of less than 512 bytes never does, since the bitmap is there. `get_slab_entry_by_id` reduces the number modulo the directory only (`slab.c:219`) and follows the reference it finds, or NULL |

`MovedObjectsClosed` has an exception, `Waiting`, which the code does not seem to
intend. The pointers of an allocation that is moved join the vector "to continue
the discovery" (`closure.c:190`). But the walk of dirty entries (`closure.c:256`)
comes after the walk of the vector and moves allocations as well: their pointers
stay on the vector, with volatile targets in a committed container, until the next
checkpoint walks it, and if a target is moved later in the same walk its pointer
leads to freed memory until then. The proof of `MovedObjectsClosed` without the
exception failed at this place, and three checkpoints are enough for TLC to show
the case.

A further consequence, of the tree that nothing empties (`closure.c:113`): when
`malloc` returns an address that a checkpoint freed, the entry of the old
allocation is found for the new one, and pointers to the new object are redirected
to the old.

## The proofs

Two modules hold lemmas about the operators of the mappers
(`FixedMapperOpsProofs`, `NLMapperOpsProofs`) and six hold theorems. Each of the six
has the same shape: an inductive invariant
`IndInv` (stated in the module it is about, where TLC can check it too), a lemma
`Init => IndInv`, one lemma per action for `IndInv /\ Next => IndInv'`, and
theorems `Spec => []P` for the properties that follow. The proofs are for every
value of the constants: sizes and bounds, numbers of entries, objects, stores,
checkpoints and processes, hash functions.

| module | theorems beside `Invariance` |
| --- | --- |
| `FixedMapperProofs` | `TypeCorrect`, `FreeListCorrect`, `PartitionCorrect`, `GrowthCorrect`, `WritableCorrect`: the invariants of the run `fixed_mapper`; `Refinement`: `Spec => ImplementsPagePool` |
| `NLMapperProofs` | `TypeCorrect`, `FreeListCorrect`, `TableCorrect`, `TreeCorrect`: all of the run `nl_mapper` |
| `NLSnapshotProofs` | `BucketCorrect`, `MetaCorrect`, `AddressesCorrect`: all of the run `nl_snapshot` |
| `ContainerProofs` | `TypeCorrect`, `NoLivePageCorrect`, `NoPageSharedCorrect`, `IdCorrect`, `NoObjectTwiceCorrect`; on `RestoreInvariance`: `CleanRestorableCorrect`, `RollForwardCorrect`; on `RoomInvariance`: `HeadFullCorrect`; on `KeptInvariance`: `SnapshotIntactCorrect`, `PagesAccountedCorrect`: all of the runs `container` and `container_restore` |
| `ClosureProofs` | `TypeCorrect`, `OnePlaceCorrect`, `PagesHeldCorrect`, `ClosedCorrect`, `FollowCorrect`, `RecordsCorrect`: all of the run `closure` but its liveness |
| `HTableProofs` | `CountCorrect`, `LoadCorrect`; `TableImplementsDictionary`: `Spec => ImplementsDictionary`: all of the run `htable` |

**Assumptions.** `PagesAssumption` (sizes of the file are positive naturals in
order), `ProtAssumption`, `NullAssumption` and `NoSizeAssumption` (NULL is neither
a page nor a size), `EntriesAssumption`, `CapacityAssumption` (an entry, a page and
an object exist), `OpensAssumption`, and `ClosureAssumption`: bounds are naturals,
there are finitely many volatile addresses, and volatile addresses, variables, the
container's objects and NULL are told apart; `HashAssumption` and `LengthAssumption`
(hashes are naturals and the smallest list is not empty; keys and values are any
sets, finite or not). TLC evaluates all of them.

**Fixed mapper.** None of the invariants is inductive alone: that `last` is the
last page of the list is needed to know where `LIST_INSERT_AFTER` puts a page;
that the list has no page twice, to know what removing its head leaves; that the
held pages and the list partition the file, to know that a page which is freed
is not on the list and one that is taken was not held; that the index is either
complete or absent, to know that a growth reads only what was written. `IndInv`
is the conjunction of these facts about the handler with those about the clients.
`FixedMapperOpsProofs` shows for each operation of the mapper what it keeps, on
lemmas about sequences without repetition.

**Non-linear mapper.** `HandlerInv` says that list and tree partition the slots
and that the table of offsets is an injection of slots into pages which the
kernel's mapping equals: a swap exchanges two values of an injection, a growth
extends it by the identity, and a free leaves it alone. The same `HandlerInv`, by
the same lemmas, is the allocator's part of the invariant of `NLSnapshot`, where
the rest says that the slots of the bucket, of its copy, of the entries and of the
tree above them are in use and apart, and that the bucket's two references are
where their offsets say.

**Container.** `FileInv` is what holds in the file of a dead process: both bucket
references name buckets, whose entries have data pages of their own apart from the
metadata. `PagesInv` adds, for a live process, that the allocator has all of these
in use; only the copy of the bucket is excepted while a checkpoint is in its
entries, because it names pages that were freed already, and a death at that point
is what the roll forward mends. `EntriesInOrder` (the creating process initialises
entries in order) makes an identifier a position, and `LiveInv` (the bit of every
object handed out is set, faults and checkpoints carry the bitmap along) makes
objects unique. The growth of the file, deaths at every step and the second
process are in the proof as they are in the model, with both protections.

Three further invariants are inductive together with `IndInv`, each for the
properties it is named for:

- `CpointInv` and `CleanInv` are about what a restore finds. While the flag is set,
  what the current bucket shows is what the application saw when it called
  `container_cpoint` (`saving`): a step of the checkpoint changes references whose
  pages agree, never a page that is shown, and this stays so over a death and in the
  process that takes the checkpoint up again (`RollForwardIntact`). It does not say
  that this process completes the checkpoint: one with a page left to free dies of the
  NULL index (`RestoreCanCheckpoint` above), and what it leaves still has the
  property. While nothing has changed since a
  checkpoint that committed the bucket, the two bucket references are one and each
  entry's are one, so that the assertion of `slab_bucket_map` holds and the restore
  shows `saved`. That a checkpoint may *not* commit the bucket is the finding of
  `container_checkpoint_commits`; `dirty` then stays set, and the invariant says
  nothing.
- `RoomInv` is about the lists by size. That all entries of a size are full when the
  first is, is true only because a size never has two entries with room. This must hold of
  the bucket in use *and* of its copy, because a death makes a restore index the
  entries of the copy; and the copy has fewer entries, with the same current pages,
  and perhaps older bitmaps, so both halves of `FileRoom` are needed to carry it through.
- `KeptInv` is about copy-on-write, on the condition `NotGrown`. The protection of a
  page decides whether a store copies it, so the invariant ties the protections to the
  references: a page is read-only only while it is its own snapshot (`CreatorInv`) or
  the process restored the file and maps all pages read-only (`RestorerInv`). A growth
  maps the file again with the protections of the index, and exactly this tie is lost;
  the table above shows `SnapshotIntact` failing with a file that grows. The condition
  is one on the state, true of every state before the first growth and of every
  process that restored the file, and both theorems state it; the run `container` has a
  file in which no growth happens.

**Closure.** Five facts carry each other through a checkpoint. `PlaceInv`: every
live address has an object of its own, an address of the heap one that was made
there, so that the entry of a reused address in the tree is never taken for the
new object when it is moved. `ClosedInv`: what this checkpoint has moved points
into the container unless its pointer is ahead in the vector. `FollowInv`: each
pointer that was registered when the checkpoint began still leads to its object, or
to the address the object was moved from and is then ahead in the vector or a back
reference, or its object will not be moved. `RecordsInv`: the records of an entry
agree with the pointers, and all that is not ahead is recorded. `CountInv`: as
many objects were moved as there are entries of the tree that have moved, so that
the number of objects is bounded. `persist_valloc` is proved in two halves, the move
of an allocation (`MoveWalked`) and the change of one pointer (`RedirectWalked`), of
which both walks, and the fixing of back references, are made. `PagesInv` is apart
from these: a pointer page belongs to one entry, current or committed, whence a
checkpoint cannot free another's, or its own current one.

**Hash table.** `IndInv` says that every entry is in the chain of its hash, that no
key is in the table twice, that `elems` counts the keys and is at most the length,
and that the length is one of the doublings. The two facts about keys need each
other: a key can be in only one chain because of its hash, and the search of that
chain finds the first entry with the key, which is the one to change or unlink only
because there is no second. The loops of `htable_resize` and `htable_filter` are
recursive functions, and lemmas say what they compute: `AllMoved` that the new list
has the entries of the old in the chains of the new length, though in another order;
`AcceptedUnlinked` that a filtered chain has the entries that were not accepted;
`AllEntriesListed` that the walk over the chains meets each entry once, so that the
count of the accepted ones is the count of their keys. The refinement maps the table
to the set of its pairs; every call is the step of `Dictionary` with the same answer.
The lengths in the model have no width; the code's have 32 bits.

**Induction over data.** The library's induction theorems cannot be instantiated,
but `WFMin` with `NatLessThanWellFounded` says that a set of numbers which is not
empty has a least element, which is a first-order fact. `SetInduction` and
`LeastExists` follow from it, and with them what the recursive functions compute:
that a checkpoint of `NLSnapshot` frees exactly the slots of the changed entries
(`Turns`), that a restore rebuilds lists of entries (`FreeLists`), that the first
clear bit and the last record of a pointer exist. In `HTableProofs` also that a
recursive function has the value of its definition at all (`RoundsExist`, for loops of
any number of rounds), and what `FlattenSeq` returns (`Flattened`).

**Only model-checked.** `SlabTree` (`EntryById`, `GrowthInvisible`): an invariant would
have to number the nodes of every level and keep these numbers apart by quotients and
remainders of the sizes of nodes. `SlabPage`: its arithmetic is for one size of a page,
which TLC tries exhaustively. Liveness, `CheckpointReturns`, is out of the prover's
reach.

## Not modelled

- SQLite, its shell and its benchmarks (`sqlite/`), which are nearly all of the
  repository's lines and are a client of the library; `tpl`, the BSD headers beyond
  the insertions used, and what CMake generated.
- `fixptr.c`: an earlier list of persistent pointers, which no code of the library
  calls and whose test is not built.
- Crashes and restores with the closure: `Closure` has no deaths, so that a death in
  the middle of a closure (`cont.c:120`) and the pointer pages a restore maps
  (`restore.c:45`, where offset 0 stands for "none" and is the container's page)
  are not modelled.
- Objects with several pointers or of several sizes in one closure, and pointers
  into the middle of an allocation.
- The number of records that fit into a pointer page.
- A restored process in `SlabTree`, where the identifier counters start again;
  nodes made of recycled pages, which are not zeroed.
- `map_hint` and where regions are placed; `remap_entire_file`, which nothing calls;
  protections of the non-linear mapper except for data pages in `NLSnapshot`.
- The order of cache lines at a power failure (`atomics.c`).
- The capacity of vectors; logging, statistics and debugging output; tests and
  benchmarks.

## Plan

The core came first: the fixed mapper with its proofs, then the container on it,
the tree, the second mapper and the table, then the closure and the bytes of a
page; then the proofs of the second mapper, of the snapshots on it, of the container,
of the closure and of the table. Next, in this order:

1. Proofs: `EntryById` and `GrowthInvisible` of `SlabTree`.
2. Deaths and restores in `Closure`, with the fixing of pointers as a step.
3. Identifiers of a restored process and recycled pages as nodes in `SlabTree`.
