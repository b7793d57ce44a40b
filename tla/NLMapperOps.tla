---------------------------- MODULE NLMapperOps ----------------------------
(***************************************************************************)
(* The page allocator on non-linear mappings (nlmapper.c), which may       *)
(* exchange the pages that two addresses show (remap_file_pages) instead   *)
(* of copying them.                                                        *)
(*                                                                         *)
(* Addresses are slots of the mapped region (address - start_addr, in      *)
(* pages) and offsets are pages of the file.  A struct nlm_page is known   *)
(* by its slot, which never changes: pgoff gives its offset, and it is on  *)
(* the free list or in the tree of pages in use.  kmap is the page that    *)
(* the kernel shows at a slot.  Protections are left out.                  *)
(***************************************************************************)
EXTENDS Naturals, Sequences, FiniteSets, Functions

CONSTANTS
    InitPages,          \* first size of the file: FM_FILE_SIZE or PMLIB_INIT_SIZE
    MaxPages,           \* bound: no call that would make the file longer is taken
    NULL                \* the null pointer

ASSUME PagesAssumption ==
    /\ InitPages \in Nat \ {0}
    /\ MaxPages \in Nat
    /\ InitPages =< MaxPages

ASSUME NullAssumption == NULL \notin Nat

Pages(n) == 0 .. n - 1
SlotsIn(list) == {list[i] : i \in DOMAIN list}

(* calloc, and what fstat says of the file *)
EmptyHandler(stSize) ==
    [fileSize |-> stSize, prevSize |-> 0, stSize |-> stSize, freeList |-> <<>>,
     last |-> NULL, size |-> 0, tree |-> {}, pgcnt |-> 0,
     pgoff |-> <<>>, kmap |-> <<>>]

-----------------------------------------------------------------------------

MutFreeAtHead(h, a) ==
    [h EXCEPT !.freeList = <<a>> \o h.freeList,
              !.last     = a,
              !.size     = @ + 1]

(* __nlm_free_page without the removal from the tree: LIST_INSERT_HEAD     *)
(* into an empty list, LIST_INSERT_AFTER(last) otherwise                   *)
__nlm_free_page(h, a) ==
    [h EXCEPT !.freeList = IF h.size = 0 THEN <<a>> \o h.freeList
                           ELSE LET i == CHOOSE j \in DOMAIN h.freeList : h.freeList[j] = h.last
                                IN  SubSeq(h.freeList, 1, i) \o <<a>>
                                        \o SubSeq(h.freeList, i + 1, Len(h.freeList)),
              !.last     = a,
              !.size     = @ + 1]

(* __nlm_use_page of the first page of the list *)
__nlm_use_page(h) ==
    [h EXCEPT !.freeList = Tail(h.freeList),
              !.size     = @ - 1,
              !.last     = IF h.size = 1 THEN NULL ELSE @,
              !.tree     = @ \cup {Head(h.freeList)}]

MutLastPastEnd(h) ==
    LET n == h.fileSize - h.prevSize IN
    [h EXCEPT !.freeList = @ \o [i \in 1 .. n |-> h.prevSize + i - 1],
              !.last     = h.fileSize,
              !.size     = @ + n,
              !.pgcnt    = @ + n,
              !.pgoff    = [a \in Pages(h.fileSize) |-> IF a < h.prevSize THEN @[a] ELSE a]]

(* add_pages_to_free_list: one new nlm_page after the other, each put      *)
(* behind the last.  The list is empty before (see nlm_grow_file).         *)
add_pages_to_free_list(h) ==
    LET n == h.fileSize - h.prevSize IN
    [h EXCEPT !.freeList = @ \o [i \in 1 .. n |-> h.prevSize + i - 1],
              !.last     = h.fileSize - 1,
              !.size     = @ + n,
              !.pgcnt    = @ + n,
              !.pgoff    = [a \in Pages(h.fileSize) |-> IF a < h.prevSize THEN @[a] ELSE a]]

MutRemapEntireFile(h) ==
    add_pages_to_free_list([h EXCEPT !.kmap = [a \in Pages(h.fileSize) |-> a]])

(* map_appending: the pages of the growth are mapped behind the others,    *)
(* which stay as they are.                                                 *)
map_appending(h) ==
    add_pages_to_free_list(
        [h EXCEPT !.kmap = [a \in Pages(h.fileSize) |-> IF a < h.prevSize THEN @[a] ELSE a]])

(* As in the fixed mapper, the third argument of posix_fallocate is taken  *)
(* for the new size and is the length.                                     *)
nlm_grow_file(h, new) ==
    [h EXCEPT !.stSize   = IF h.fileSize + new > @ THEN h.fileSize + new ELSE @,
              !.prevSize = h.fileSize,
              !.fileSize = new]

(* A file that exists is mapped like a growth from nothing. *)
nlm_init(stSize) ==
    map_appending(IF stSize = 0 THEN nlm_grow_file(EmptyHandler(0), InitPages)
                                ELSE EmptyHandler(stSize))

WithFreePage(h) ==
    IF h.size = 0 THEN map_appending(nlm_grow_file(h, 2 * h.fileSize)) ELSE h

nlm_alloc_page(h) == __nlm_use_page(WithFreePage(h))

(* what a call of nlm_alloc_page returns, and stores in *laddr *)
AllocatedSlot(h) == Head(WithFreePage(h).freeList)
AllocatedOffset(h) == WithFreePage(h).pgoff[AllocatedSlot(h)]

(* the growth an allocation would need is inside the bound *)
CanAlloc(h) == h.size > 0 \/ 3 * h.fileSize =< MaxPages

(* nlm_free_pages of an address that is in the tree; the process dies in   *)
(* handle_error when it is not.                                            *)
nlm_free_pages(h, a) == __nlm_free_page([h EXCEPT !.tree = @ \ {a}], a)
FreeDies(h, a) == a \notin h.tree

MutForgetSwap(h, x, y) == h

(* update_swapped_pages: both pages are in use, or nothing is recorded *)
update_swapped_pages(h, x, y) ==
    IF {x, y} \subseteq h.tree
    THEN [h EXCEPT !.pgoff[x] = h.pgoff[y], !.pgoff[y] = h.pgoff[x]]
    ELSE h

(* nlm_swap_pages: two calls of remap_file_pages, in this order *)
nlm_swap_pages(h, x, yoff, y, xoff) ==
    update_swapped_pages([h EXCEPT !.kmap = [[@ EXCEPT ![x] = yoff] EXCEPT ![y] = xoff]],
                         x, y)

(* the assertions of nlm_close: every nlm_page is found and freed *)
CloseAssertions(h) ==
    /\ h.pgcnt = h.fileSize
    /\ h.pgcnt = Cardinality(h.tree) + h.size

-----------------------------------------------------------------------------
(* What every call keeps of an open handler: the list is sound, every slot *)
(* is on the list or in the tree and never on both, and what the mapper    *)
(* records of the slots is what the kernel shows there, one page at one    *)
(* slot.                                                                   *)

HandlerFields == {"fileSize", "prevSize", "stSize", "freeList", "last", "size", "tree",
                  "pgcnt", "pgoff", "kmap"}

NoRepeat(list) == \A i, j \in 1 .. Len(list) : list[i] = list[j] => i = j

ListSound(h) ==
    /\ h.size = Len(h.freeList)
    /\ h.last = IF h.freeList = <<>> THEN NULL ELSE h.freeList[Len(h.freeList)]
    /\ NoRepeat(h.freeList)

HandlerInv(h) ==
    /\ DOMAIN h = HandlerFields
    /\ h.fileSize \in Nat \ {0} /\ h.stSize \in Nat /\ h.fileSize =< h.stSize
    /\ h.prevSize \in 0 .. h.fileSize
    /\ h.freeList \in Seq(Pages(h.fileSize))
    /\ ListSound(h)
    /\ h.tree = Pages(h.fileSize) \ SlotsIn(h.freeList)
    /\ h.pgcnt = h.fileSize
    /\ h.pgoff \in [Pages(h.fileSize) -> Pages(h.fileSize)]
    /\ h.kmap = h.pgoff
    /\ IsInjective(h.pgoff)
=============================================================================
