------------------------------ MODULE NLMapper ------------------------------
(***************************************************************************)
(* The non-linear mapper as a component: page_alloc.c's calls in any order *)
(* a client may make them, swaps of two pages in use included, the end of  *)
(* the process at any point and the opening of the file it left.           *)
(***************************************************************************)
EXTENDS NLMapperOps

VARIABLES
    up,                 \* a process has the container open
    nlm,                \* its struct nlm, the kernel's mapping and the file's length
    used,               \* pages of the file that clients hold; they outlive a process
    opens               \* processes that have opened the file

vars == <<up, nlm, used, opens>>

CONSTANT MaxOpens       \* bound on the number of processes, one after the other

ASSUME OpensAssumption == MaxOpens \in Nat

Init ==
    /\ up = FALSE
    /\ nlm = EmptyHandler(0)
    /\ used = {}
    /\ opens = 0

page_allocator_init ==
    /\ ~up /\ opens < MaxOpens
    /\ up' = TRUE
    /\ nlm' = nlm_init(nlm.stSize)
    /\ opens' = opens + 1
    /\ UNCHANGED used

page_allocator_getpage ==
    /\ up /\ CanAlloc(nlm)
    /\ nlm' = nlm_alloc_page(nlm)
    /\ used' = used \cup {AllocatedOffset(nlm)}
    /\ UNCHANGED <<up, opens>>

(* A client frees the page that it sees at slot a. *)
page_allocator_freepages(a) ==
    /\ up /\ ~FreeDies(nlm, a)
    /\ nlm' = nlm_free_pages(nlm, a)
    /\ used' = used \ {nlm.kmap[a]}
    /\ UNCHANGED <<up, opens>>

(* As slab_bucket_copynswap calls it: each slot with the other's page. *)
page_allocator_swap_mappings(x, y) ==
    /\ up /\ x # y
    /\ nlm' = nlm_swap_pages(nlm, x, nlm.pgoff[y], y, nlm.pgoff[x])
    /\ UNCHANGED <<up, used, opens>>

(* nlm_close, or the death of the process: the mapping is gone *)
Stop ==
    /\ up
    /\ up' = FALSE
    /\ nlm' = EmptyHandler(nlm.stSize)
    /\ UNCHANGED <<used, opens>>

Next ==
    \/ page_allocator_init
    \/ page_allocator_getpage
    \/ \E a \in nlm.tree : page_allocator_freepages(a)
    \/ \E x, y \in nlm.tree : page_allocator_swap_mappings(x, y)
    \/ Stop

Spec == Init /\ [][Next]_vars

-----------------------------------------------------------------------------
(* Properties *)

(* The type invariant: every slot of the mapped part has an nlm_page,      *)
(* which is on the list or in the tree.                                    *)
TypeOK ==
    /\ up \in BOOLEAN /\ opens \in 0 .. MaxOpens
    /\ nlm.fileSize \in 0 .. nlm.stSize /\ nlm.prevSize \in 0 .. nlm.fileSize
    /\ nlm.last \in Pages(nlm.fileSize) \cup {NULL}
    /\ SlotsIn(nlm.freeList) \cup nlm.tree \subseteq Pages(nlm.fileSize)
    /\ up => /\ nlm.pgoff \in [Pages(nlm.fileSize) -> Pages(nlm.fileSize)]
             /\ nlm.kmap \in [Pages(nlm.fileSize) -> Pages(nlm.fileSize)]
    /\ used \subseteq Pages(nlm.stSize)

(* The list, its size and its last pointer agree after any sequence of     *)
(* calls: __nlm_free_page asserts "Invalid last pointer" and links behind  *)
(* last, and nlm_close's loops free every page exactly once.               *)
FreeListSound ==
    /\ nlm.size = Len(nlm.freeList)
    /\ nlm.last = IF nlm.freeList = <<>> THEN NULL ELSE nlm.freeList[Len(nlm.freeList)]
    /\ Cardinality(SlotsIn(nlm.freeList)) = Len(nlm.freeList)
    /\ SlotsIn(nlm.freeList) \cap nlm.tree = {}
    /\ up => CloseAssertions(nlm)

(* What the mapper records of a page is what the kernel shows at its       *)
(* address, through swaps, frees of swapped pages and growths, and no page *)
(* of the file is shown at two addresses: an offset given to a client as   *)
(* *laddr is where its stores end up.                                      *)
TableMatchesKernel ==
    up => /\ nlm.pgoff = nlm.kmap
          /\ \A a, b \in DOMAIN nlm.kmap : nlm.kmap[a] = nlm.kmap[b] => a = b

(* In the process that created the file the pages clients hold are the     *)
(* ones the slots of the tree show, and every other page is available.     *)
TreeHoldsUsed ==
    up /\ opens = 1 => used = {nlm.pgoff[a] : a \in nlm.tree}

(* The inductive invariant of the proofs in NLMapperProofs: the handler of *)
(* an open container satisfies HandlerInv, a closed one has none, and the  *)
(* file is empty until it is opened for the first time.                    *)
IndInv ==
    /\ up \in BOOLEAN /\ opens \in 0 .. MaxOpens
    /\ nlm.stSize \in Nat /\ used \subseteq Pages(nlm.stSize)
    /\ IF up THEN HandlerInv(nlm) ELSE nlm = EmptyHandler(nlm.stSize)
    /\ opens = 0 => ~up /\ nlm.stSize = 0
    /\ TreeHoldsUsed

-----------------------------------------------------------------------------
(* A statement of the repository that the code does not keep *)

(* struct nlm, of the tree: "all in_use pages are here". *)
AllInUseHere == up => used \subseteq {nlm.pgoff[a] : a \in nlm.tree}
=============================================================================
