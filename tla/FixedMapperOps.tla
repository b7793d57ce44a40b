--------------------------- MODULE FixedMapperOps ---------------------------
(***************************************************************************)
(* The default page allocator (fixmapper.c, reached through page_alloc.c). *)
(*                                                                         *)
(* The container file is mapped as one region.  A linked list with a       *)
(* pointer to its last element holds the pages that are available; when it *)
(* is empty the file is doubled and the whole region is mapped again, with *)
(* the protections that the index recorded when each page was allocated.   *)
(*                                                                         *)
(* The handler (struct fixed_mapper) is a record, and every function of    *)
(* the file is an operator from handlers to handlers, so that a client of  *)
(* the mapper can make several calls in one of its steps (see Container).  *)
(* Sizes are in pages and a page is known by its number; the address of a  *)
(* page is start_addr + pgno * PAGE_SIZE, a bijection.                     *)
(***************************************************************************)
EXTENDS Naturals, Sequences, FiniteSets

CONSTANTS
    InitPages,          \* first size of the file: FM_FILE_SIZE or PMLIB_INIT_SIZE
    MaxPages,           \* bound: no call that would make the file longer is taken
    DefaultProt,        \* DEFAULT_MAPPING_PROT
    NULL                \* the null pointer

(* PA_PROT_READ, and PA_PROT_WRITE with or without PA_PROT_READ *)
Prot == {"R", "W"}

ASSUME PagesAssumption ==
    /\ InitPages \in Nat \ {0}
    /\ MaxPages \in Nat
    /\ InitPages =< MaxPages

ASSUME ProtAssumption == DefaultProt \in Prot

ASSUME NullAssumption == NULL \notin Nat

-----------------------------------------------------------------------------
(* Lists *)

Pages(n) == 0 .. n - 1

(* the pages a, a+1, ..., b-1 *)
Consecutive(a, b) == [i \in 1 .. b - a |-> a + i - 1]

PagesIn(list) == {list[i] : i \in 1 .. Len(list)}

(* The element p is linked after x.  When x is not on the list any more p  *)
(* hangs from a removed element, and walking the list does not reach it.   *)
LIST_INSERT_AFTER(list, x, p) ==
    IF x \in PagesIn(list)
    THEN LET i == CHOOSE j \in 1 .. Len(list) : list[j] = x
         IN  SubSeq(list, 1, i) \o <<p>> \o SubSeq(list, i + 1, Len(list))
    ELSE list

LIST_INSERT_HEAD(list, p) == <<p>> \o list

-----------------------------------------------------------------------------
(* The functions of fixmapper.c *)

(* The file is longer than the handler's file_size says: the call reserves *)
(* new pages starting at the old size.                                     *)
posix_fallocate(h, new) ==
    IF h.fileSize + new > h.stSize THEN h.fileSize + new ELSE h.stSize

MutGrownIndex(h, new) == [p \in 0 .. new |-> DefaultProt]

(* the record for the pages of the growth, after fixed_page_alloc *)
GrownIndex(h, new) ==
    [p \in DOMAIN h.index \cup (h.fileSize .. new - 1) |->
        IF p >= h.fileSize THEN DefaultProt ELSE h.index[p]]

MutNewPages(h, new) == Consecutive(IF h.fileSize = 0 THEN 0 ELSE h.fileSize - 1, new)

(* the pages that the loop links, in order, from the first page on *)
NewPages(h, new) == Consecutive(h.fileSize, new)

fixed_mapper_grow_file(h, new) ==
    [h EXCEPT !.stSize   = posix_fallocate(h, new),
              !.index    = GrownIndex(h, new),
              !.freeList = NewPages(h, new) \o h.freeList,
              !.last     = new - 1,
              !.size     = h.size + (new - h.fileSize),
              !.fileSize = new]

map_file(h, updateMappings) ==
    [h EXCEPT !.prot = [p \in Pages(h.fileSize) |->
                            IF updateMappings THEN h.index[p] ELSE DefaultProt]]

(* A handler of calloc, with what fstat says of the file *)
EmptyHandler(stSize) ==
    [fileSize |-> stSize, stSize |-> stSize, freeList |-> <<>>, last |-> NULL,
     size |-> 0, index |-> <<>>, prot |-> <<>>]

(* An existing file is mapped and nothing else: index stays NULL and the   *)
(* free list empty.                                                        *)
fixed_mapper_init(stSize) ==
    map_file(IF stSize = 0
             THEN fixed_mapper_grow_file(EmptyHandler(0), InitPages)
             ELSE EmptyHandler(stSize),
             FALSE)

(* update_mapping_prot reads index[i] for every page of the file *)
Tracks(h) == DOMAIN h.index = Pages(h.fileSize)

MutGrowEarly(h) ==
    IF h.size =< 1
    THEN map_file(fixed_mapper_grow_file(h, 2 * h.fileSize), TRUE)
    ELSE h
MutDontUpdateMappings(h) ==
    IF h.size = 0
    THEN map_file(fixed_mapper_grow_file(h, 2 * h.fileSize), FALSE)
    ELSE h

(* fixed_mapper_alloc_page up to LIST_FIRST *)
WithFreePage(h) ==
    IF h.size = 0
    THEN map_file(fixed_mapper_grow_file(h, 2 * h.fileSize), TRUE)
    ELSE h

MutKeepLast(h, flags) ==
    LET p == Head(h.freeList) IN
    [h EXCEPT !.freeList = Tail(h.freeList),
              !.size     = h.size - 1,
              !.prot[p]  = IF flags = "W" THEN "W" ELSE @,
              !.index[p] = flags]
MutKeepOnList(h, flags) ==
    LET p == Head(h.freeList) IN
    [h EXCEPT !.prot[p]  = IF flags = "W" THEN "W" ELSE @,
              !.index[p] = flags]

(* the rest of fixed_mapper_alloc_page *)
TakeFirst(h, flags) ==
    LET p == Head(h.freeList) IN
    [h EXCEPT !.freeList = Tail(h.freeList),
              !.size     = h.size - 1,
              !.last     = IF h.size = 1 THEN NULL ELSE h.last,
              !.prot[p]  = IF flags = "W" THEN "W" ELSE @,
              !.index[p] = flags]

(* the page a call of fixed_mapper_alloc_page returns *)
AllocatedPage(h) == Head(WithFreePage(h).freeList)

fixed_mapper_alloc_page(h, flags) == TakeFirst(WithFreePage(h), flags)

(* The growth reads an index entry that nobody wrote. *)
AllocDies(h) == h.size = 0 /\ ~Tracks(h)

(* the growth an allocation would need is inside the bound *)
CanAlloc(h) == h.size > 0 \/ posix_fallocate(h, 2 * h.fileSize) =< MaxPages

MutFreeAfterLastOnly(h, p) ==
    [h EXCEPT !.freeList = LIST_INSERT_AFTER(h.freeList, h.last, p),
              !.last     = p,
              !.size     = h.size + 1]

fixed_mapper_freepages(h, p) ==
    [h EXCEPT !.freeList = IF h.last # NULL
                           THEN LIST_INSERT_AFTER(h.freeList, h.last, p)
                           ELSE LIST_INSERT_HEAD(h.freeList, p),
              !.last     = p,
              !.size     = h.size + 1]

(* h->index[pgno] is read through a NULL index *)
FreeDies(h, p) == p \notin DOMAIN h.index

page_allocator_mprotect_generic(h, p, flags) == [h EXCEPT !.prot[p] = flags]

-----------------------------------------------------------------------------
(* What every call keeps, of an open handler and the pages u in use: the   *)
(* list is sound, and either the index has every page and the list every   *)
(* page that is not in use, or (a file that existed) both are empty.       *)

HandlerFields == {"fileSize", "stSize", "freeList", "last", "size", "index", "prot"}

ListSound(h) ==
    /\ h.size = Len(h.freeList)
    /\ h.last = IF h.freeList = <<>> THEN NULL ELSE h.freeList[Len(h.freeList)]
    /\ \A i, j \in 1 .. Len(h.freeList) : h.freeList[i] = h.freeList[j] => i = j

(* the pages that are not available *)
InUse(h) == Pages(h.fileSize) \ PagesIn(h.freeList)

HandlerInv(h, u) ==
    /\ DOMAIN h = HandlerFields
    /\ h.fileSize \in Nat \ {0} /\ h.stSize \in Nat /\ h.fileSize =< h.stSize
    /\ h.freeList \in Seq(Pages(h.fileSize))
    /\ ListSound(h)
    /\ h.prot \in [Pages(h.fileSize) -> Prot]
    /\ u \subseteq Pages(h.stSize)
    /\ \/ /\ h.index \in [Pages(h.fileSize) -> Prot]
          /\ u \subseteq Pages(h.fileSize)
          /\ PagesIn(h.freeList) = Pages(h.fileSize) \ u
       \/ h.index = <<>> /\ h.freeList = <<>>
=============================================================================
