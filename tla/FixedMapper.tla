---------------------------- MODULE FixedMapper ----------------------------
(***************************************************************************)
(* The fixed mapper as a component of its own: the calls of page_alloc.c   *)
(* in any order a client may make them, the death of the process at any    *)
(* point and the opening of the file that was left behind.                 *)
(***************************************************************************)
EXTENDS FixedMapperOps

VARIABLES
    up,                 \* a process has the container open
    fm,                 \* its struct fixed_mapper, and the length of the file
    used,               \* the pages clients hold: what the file's content refers to
    held,               \* pages handed out less pages taken back
    peak,               \* the largest value of held so far
    meta                \* pages handed out writable and not protected since

vars == <<up, fm, used, held, peak, meta>>

-----------------------------------------------------------------------------
(* The operations of page_alloc.c, called in any order a client may *)

Init ==
    /\ up = FALSE
    /\ fm = EmptyHandler(0)
    /\ used = {}
    /\ held = 0
    /\ peak = 0
    /\ meta = {}

page_allocator_init ==
    /\ ~up
    /\ up' = TRUE
    /\ fm' = fixed_mapper_init(fm.stSize)
    /\ UNCHANGED <<used, held, peak, meta>>

page_allocator_getpage(flags) ==
    /\ up
    /\ CanAlloc(fm)
    /\ ~AllocDies(fm)
    /\ fm' = fixed_mapper_alloc_page(fm, flags)
    /\ used' = used \cup {AllocatedPage(fm)}
    /\ held' = held + 1
    /\ peak' = IF held' > peak THEN held' ELSE peak
    /\ meta' = IF flags = "W" THEN meta \cup {AllocatedPage(fm)} ELSE meta
    /\ UNCHANGED up

(* The file has been extended when the process dies. *)
GetpageDies ==
    /\ up
    /\ CanAlloc(fm)
    /\ AllocDies(fm)
    /\ up' = FALSE
    /\ fm' = EmptyHandler(posix_fallocate(fm, 2 * fm.fileSize))
    /\ UNCHANGED <<used, held, peak, meta>>

page_allocator_freepages(p) ==
    /\ up
    /\ ~FreeDies(fm, p)
    /\ fm' = fixed_mapper_freepages(fm, p)
    /\ used' = used \ {p}
    /\ held' = held - 1
    /\ meta' = meta \ {p}
    /\ UNCHANGED <<up, peak>>

page_allocator_mprotect(p, flags) ==
    /\ up
    /\ fm' = page_allocator_mprotect_generic(fm, p, flags)
    /\ meta' = meta \ {p}
    /\ UNCHANGED <<up, used, held, peak>>

(* page_allocator_shutdown, the death of the process, or a call that dies  *)
(* on a NULL index: the mapping and the handler are gone, the file stays.  *)
Stop ==
    /\ up
    /\ up' = FALSE
    /\ fm' = EmptyHandler(fm.stSize)
    /\ UNCHANGED <<used, held, peak, meta>>

Next ==
    \/ page_allocator_init
    \/ \E flags \in Prot : page_allocator_getpage(flags)
    \/ GetpageDies
    \/ \E p \in used : page_allocator_freepages(p)
    \/ \E p \in used : \E flags \in Prot : page_allocator_mprotect(p, flags)
    \/ Stop

Spec == Init /\ [][Next]_vars

-----------------------------------------------------------------------------
(* Properties *)

(* The type invariant: the list, the index and the protections speak of    *)
(* pages of the file, and the file is at least as long as the handler      *)
(* believes.                                                               *)
TypeOK ==
    /\ up \in BOOLEAN
    /\ fm.fileSize \in Nat /\ fm.stSize \in Nat /\ fm.size \in Nat
    /\ fm.fileSize =< fm.stSize
    /\ fm.freeList \in Seq(Pages(fm.fileSize))
    /\ fm.last \in Pages(fm.fileSize) \cup {NULL}
    /\ DOMAIN fm.index \subseteq Pages(fm.fileSize)
    /\ \A p \in DOMAIN fm.index : fm.index[p] \in Prot
    /\ up => DOMAIN fm.prot = Pages(fm.fileSize)
    /\ \A p \in DOMAIN fm.prot : fm.prot[p] \in Prot
    /\ used \subseteq Pages(fm.stSize)
    /\ held \in Nat /\ peak \in Nat
    /\ meta \subseteq used

(* The free list is well formed after any sequence of calls: no page is on *)
(* it twice, size counts it, and last points at its end, or is NULL when   *)
(* it is empty.  freepages links behind last and alloc_page grows by size, *)
(* so a page would be lost or handed out twice otherwise.                  *)
FreeListSound == ListSound(fm)

(* In the process that created the file every page is either held by a     *)
(* client or on the free list, and never both, growths included: no page   *)
(* is lost and none is available while something refers to it.             *)
PagesPartitioned ==
    up /\ Tracks(fm) => PagesIn(fm.freeList) = Pages(fm.fileSize) \ used

(* What alloc_page promises of file_size: the file is doubled only when    *)
(* every page is held, so file_size stays below twice the largest number   *)
(* of pages held at once.                                                  *)
GrowthOnDemand ==
    up /\ Tracks(fm) => fm.fileSize = InitPages \/ fm.fileSize < 2 * peak

(* A page handed out writable that nobody protected since is writable:     *)
(* when a growth maps the region again, read-only, update_mapping_prot     *)
(* gives it its protection back.  (The metadata pages of the slab are such *)
(* pages, and the library stores to them without expecting a fault.)       *)
WritablePagesStayWritable ==
    up /\ Tracks(fm) => \A p \in meta : fm.prot[p] = "W"

(* The mapper implements the page pool its clients expect: whatever the    *)
(* state of list and index, a call hands out a page nobody holds.          *)
Pool == INSTANCE PagePool WITH inUse <- used, capacity <- fm.stSize
ImplementsPagePool == Pool!PoolSpec

-----------------------------------------------------------------------------
(* The inductive invariant behind the properties above: what the calls     *)
(* keep of the handler, the counters as cardinalities, the protection that *)
(* the index would restore, and the bound.                                 *)
IndInv ==
    /\ up \in BOOLEAN
    /\ IF up THEN HandlerInv(fm, used) ELSE fm = EmptyHandler(fm.stSize)
    /\ fm.stSize \in Nat /\ fm.stSize =< MaxPages
    /\ used \subseteq Pages(fm.stSize) /\ meta \subseteq used
    /\ IsFiniteSet(used) /\ held = Cardinality(used)
    /\ peak \in Nat /\ held =< peak
    /\ GrowthOnDemand
    /\ up /\ Tracks(fm) =>
            \A p \in meta : fm.prot[p] = "W" /\ fm.index[p] = "W"

-----------------------------------------------------------------------------
(* Statements of the repository that the code does not keep *)

(* struct fixed_mapper: "keep track of all pages here" (of index), of a    *)
(* mapper that is open.                                                    *)
IndexTracksAllPages == up => Tracks(fm)

(* tests/test_fmapper.c: "the size of the container file should be no more *)
(* than 2x" what is allocated, once more than the first pages are.         *)
FileAtMostTwice == peak >= InitPages => fm.stSize =< 2 * peak
=============================================================================
