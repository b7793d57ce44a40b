--------------------------- MODULE NLMapperProofs ---------------------------
(***************************************************************************)
(* The properties of NLMapper, for every first size of the file, every     *)
(* bound on it and every number of processes that open it.  IndInv is the  *)
(* inductive invariant; one lemma per action shows that the action keeps   *)
(* it.                                                                     *)
(***************************************************************************)
EXTENDS NLMapper, NLMapperOpsProofs

(* The file is empty and nobody has it open at first. *)
LEMMA IndInvInit == Init => IndInv
<1> SUFFICES ASSUME Init PROVE IndInv
  OBVIOUS
<1>1. nlm = EmptyHandler(nlm.stSize) /\ nlm.stSize = 0
  BY EmptyHandlerFields DEF Init
<1>2. up \in BOOLEAN /\ ~up /\ used \subseteq Pages(nlm.stSize)
  BY DEF Init
<1>3. opens \in 0 .. MaxOpens /\ nlm.stSize \in Nat
  BY <1>1, OpensAssumption DEF Init
<1>4. TreeHoldsUsed
  BY <1>2 DEF TreeHoldsUsed
<1> QED
  BY <1>1, <1>2, <1>3, <1>4, Zenon DEF IndInv

(* page_allocator_init, of a new file and of one that exists *)
LEMMA InitStep ==
    ASSUME IndInv, page_allocator_init
    PROVE  IndInv'
<1>1. /\ up' = TRUE /\ nlm' = nlm_init(nlm.stSize) /\ opens' = opens + 1 /\ used' = used
      /\ opens < MaxOpens
  BY DEF page_allocator_init
<1>2. nlm.stSize \in Nat /\ opens \in Nat /\ used \subseteq Pages(nlm.stSize)
      /\ (opens = 0 => nlm.stSize = 0) /\ opens' \in 0 .. MaxOpens
  BY <1>1, OpensAssumption DEF IndInv
<1>3. HandlerInv(nlm') /\ nlm'.tree = {} /\ nlm.stSize =< nlm'.stSize
  BY <1>1, <1>2, InitKeeps
<1>4. nlm'.stSize \in Nat
  BY <1>3 DEF HandlerInv
<1>5. used' \subseteq Pages(nlm'.stSize)
  BY <1>1, <1>2, <1>3, <1>4 DEF Pages
<1>6. TreeHoldsUsed'
  <2> SUFFICES ASSUME opens' = 1 PROVE used' = {}
    BY <1>3 DEF TreeHoldsUsed
  <2> QED
    BY <1>1, <1>2 DEF Pages
<1>7. opens' # 0
  BY <1>1, <1>2
<1> QED
  BY <1>1, <1>2, <1>3, <1>4, <1>5, <1>6, <1>7 DEF IndInv

(* page_allocator_getpage *)
LEMMA GetpageStep ==
    ASSUME IndInv, page_allocator_getpage
    PROVE  IndInv'
<1> DEFINE a == AllocatedSlot(nlm)
           p == AllocatedOffset(nlm)
<1>1. /\ up /\ nlm' = nlm_alloc_page(nlm) /\ used' = used \cup {p}
      /\ up' = up /\ opens' = opens
  BY DEF page_allocator_getpage
<1>2. HandlerInv(nlm)
  BY <1>1 DEF IndInv
<1>3. /\ HandlerInv(nlm') /\ nlm'.tree = nlm.tree \cup {a} /\ nlm'.pgoff[a] = p
      /\ \A b \in nlm.tree : nlm'.pgoff[b] = nlm.pgoff[b]
      /\ nlm.stSize =< nlm'.stSize /\ p \in Pages(nlm'.fileSize)
  BY <1>1, <1>2, AllocPageKeeps
<1> HIDE DEF a, p
<1>4. /\ nlm.stSize \in Nat /\ nlm'.stSize \in Nat /\ nlm'.fileSize \in Nat
      /\ nlm'.fileSize =< nlm'.stSize
  BY <1>2, <1>3 DEF HandlerInv
<1>5. used' \subseteq Pages(nlm'.stSize)
  BY <1>1, <1>3, <1>4 DEF IndInv, Pages
<1>6. TreeHoldsUsed'
  <2> SUFFICES ASSUME opens = 1 PROVE used' = {nlm'.pgoff[b] : b \in nlm'.tree}
    BY <1>1 DEF TreeHoldsUsed
  <2>1. used = {nlm.pgoff[b] : b \in nlm.tree}
    BY <1>1 DEF IndInv, TreeHoldsUsed
  <2> QED
    BY <1>1, <1>3, <2>1
<1> QED
  BY <1>1, <1>3, <1>4, <1>5, <1>6 DEF IndInv

(* page_allocator_freepages: the page leaves the tree, and no other slot   *)
(* of the tree shows it.                                                   *)
LEMMA FreepagesStep ==
    ASSUME IndInv, NEW a \in nlm.tree, page_allocator_freepages(a)
    PROVE  IndInv'
<1>1. /\ up /\ nlm' = nlm_free_pages(nlm, a) /\ used' = used \ {nlm.kmap[a]}
      /\ up' = up /\ opens' = opens
  BY DEF page_allocator_freepages
<1>2. HandlerInv(nlm)
  BY <1>1 DEF IndInv
<1>3. /\ HandlerInv(nlm') /\ nlm'.tree = nlm.tree \ {a} /\ nlm'.pgoff = nlm.pgoff
      /\ nlm'.stSize = nlm.stSize
  BY <1>1, <1>2, FreePagesKeeps
<1>4. /\ nlm.kmap = nlm.pgoff /\ IsInjective(nlm.pgoff)
      /\ nlm.tree \subseteq DOMAIN nlm.pgoff
  BY <1>2 DEF HandlerInv
<1>5. TreeHoldsUsed'
  <2> SUFFICES ASSUME opens = 1 PROVE used' = {nlm.pgoff[b] : b \in nlm.tree \ {a}}
    BY <1>1, <1>3 DEF TreeHoldsUsed
  <2>1. used = {nlm.pgoff[b] : b \in nlm.tree}
    BY <1>1 DEF IndInv, TreeHoldsUsed
  <2> QED
    BY <1>1, <1>4, <2>1 DEF IsInjective
<1> QED
  BY <1>1, <1>3, <1>5 DEF IndInv

(* page_allocator_swap_mappings: the pages shown in the tree are the same. *)
LEMMA SwapStep ==
    ASSUME IndInv, NEW x \in nlm.tree, NEW y \in nlm.tree,
           page_allocator_swap_mappings(x, y)
    PROVE  IndInv'
<1>1. /\ up /\ nlm' = nlm_swap_pages(nlm, x, nlm.pgoff[y], y, nlm.pgoff[x])
      /\ up' = up /\ used' = used /\ opens' = opens
  BY DEF page_allocator_swap_mappings
<1>2. HandlerInv(nlm)
  BY <1>1 DEF IndInv
<1>3. /\ HandlerInv(nlm') /\ nlm'.tree = nlm.tree /\ nlm'.stSize = nlm.stSize
      /\ nlm'.pgoff[x] = nlm.pgoff[y] /\ nlm'.pgoff[y] = nlm.pgoff[x]
      /\ \A a \in Pages(nlm.fileSize) \ {x, y} : nlm'.pgoff[a] = nlm.pgoff[a]
  BY <1>1, <1>2, SwapPagesKeeps
<1>4. nlm.tree \subseteq Pages(nlm.fileSize)
  BY <1>2 DEF HandlerInv
<1>5. {nlm'.pgoff[a] : a \in nlm.tree} = {nlm.pgoff[a] : a \in nlm.tree}
  BY <1>3, <1>4
<1>6. TreeHoldsUsed'
  BY <1>1, <1>3, <1>5 DEF IndInv, TreeHoldsUsed
<1> QED
  BY <1>1, <1>3, <1>6 DEF IndInv

(* nlm_close and the death of the process *)
LEMMA StopStep ==
    ASSUME IndInv, Stop
    PROVE  IndInv'
<1>1. /\ up' = FALSE /\ nlm' = EmptyHandler(nlm.stSize) /\ used' = used /\ opens' = opens
      /\ up
  BY DEF Stop
<1>2. nlm'.stSize = nlm.stSize
  BY <1>1, EmptyHandlerFields
<1> QED
  BY <1>1, <1>2 DEF IndInv, TreeHoldsUsed

(* The inductive invariant holds in every state of the mapper. *)
THEOREM Invariance == Spec => []IndInv
<1>1. IndInv /\ [Next]_vars => IndInv'
  <2> SUFFICES ASSUME IndInv, [Next]_vars PROVE IndInv'
    OBVIOUS
  <2>1. CASE page_allocator_init
    BY <2>1, InitStep
  <2>2. CASE page_allocator_getpage
    BY <2>2, GetpageStep
  <2>3. ASSUME NEW a \in nlm.tree, page_allocator_freepages(a)
        PROVE  IndInv'
    BY <2>3, FreepagesStep
  <2>4. ASSUME NEW x \in nlm.tree, NEW y \in nlm.tree, page_allocator_swap_mappings(x, y)
        PROVE  IndInv'
    BY <2>4, SwapStep
  <2>5. CASE Stop
    BY <2>5, StopStep
  <2>6. CASE UNCHANGED vars
    BY <2>6 DEF vars, IndInv, TreeHoldsUsed
  <2> QED
    BY <2>1, <2>2, <2>3, <2>4, <2>5, <2>6 DEF Next
<1> QED
  BY IndInvInit, <1>1, PTL DEF Spec

-----------------------------------------------------------------------------
(* The properties *)

(* Every slot of the mapped part has its nlm_page and shows a page of the  *)
(* file, after any sequence of calls, deaths and reopenings.               *)
THEOREM TypeCorrect == Spec => []TypeOK
<1>1. IndInv => TypeOK
  <2> SUFFICES ASSUME IndInv PROVE TypeOK
    OBVIOUS
  <2>1. CASE up
    <3>1. HandlerInv(nlm)
      BY <2>1 DEF IndInv
    <3>2. /\ nlm.fileSize \in 0 .. nlm.stSize /\ nlm.prevSize \in 0 .. nlm.fileSize
          /\ nlm.freeList \in Seq(Pages(nlm.fileSize)) /\ nlm.tree \subseteq Pages(nlm.fileSize)
          /\ nlm.pgoff \in [Pages(nlm.fileSize) -> Pages(nlm.fileSize)]
          /\ nlm.kmap = nlm.pgoff
      BY <3>1 DEF HandlerInv
    <3>3. nlm.last \in Pages(nlm.fileSize) \cup {NULL}
      BY <3>1, EmptySeq, ElementOfSeq DEF HandlerInv, ListSound
    <3>4. SlotsIn(nlm.freeList) \subseteq Pages(nlm.fileSize)
      BY <3>2, LenProperties DEF SlotsIn
    <3> QED
      BY <3>2, <3>3, <3>4 DEF IndInv, TypeOK
  <2>2. CASE ~up
    <3>1. /\ nlm.fileSize = nlm.stSize /\ nlm.prevSize = 0 /\ nlm.freeList = <<>>
          /\ nlm.last = NULL /\ nlm.tree = {} /\ nlm.stSize \in Nat
      BY <2>2, EmptyHandlerFields DEF IndInv
    <3>2. SlotsIn(nlm.freeList) = {}
      BY <3>1 DEF SlotsIn
    <3> QED
      BY <2>2, <3>1, <3>2 DEF IndInv, TypeOK
  <2> QED
    BY <2>1, <2>2
<1> QED
  BY Invariance, <1>1, PTL

(* The free list is well formed after any sequence of calls, and nlm_close *)
(* frees every nlm_page exactly once.                                      *)
THEOREM FreeListCorrect == Spec => []FreeListSound
<1>1. IndInv => FreeListSound
  <2> SUFFICES ASSUME IndInv PROVE FreeListSound
    OBVIOUS
  <2>1. CASE up
    <3>1. HandlerInv(nlm) /\ CloseAssertions(nlm)
      BY <2>1, CloseFindsAll DEF IndInv
    <3>2. Cardinality(SlotsIn(nlm.freeList)) = Len(nlm.freeList)
      BY <3>1, SlotsCounted DEF HandlerInv, ListSound
    <3> QED
      BY <3>1, <3>2 DEF FreeListSound, HandlerInv, ListSound
  <2>2. CASE ~up
    <3>1. nlm.freeList = <<>> /\ nlm.last = NULL /\ nlm.tree = {} /\ nlm.size = 0
      BY <2>2, EmptyHandlerFields DEF IndInv
    <3>2. SlotsIn(nlm.freeList) = {} /\ Len(nlm.freeList) = 0
      BY <3>1 DEF SlotsIn
    <3> QED
      BY <2>2, <3>1, <3>2, FS_EmptySet DEF FreeListSound
  <2> QED
    BY <2>1, <2>2
<1> QED
  BY Invariance, <1>1, PTL

(* What the mapper records of a page is what the kernel shows at its       *)
(* address, and no page is shown twice, through swaps, frees and growths.  *)
THEOREM TableCorrect == Spec => []TableMatchesKernel
<1>1. IndInv => TableMatchesKernel
  BY DEF IndInv, TableMatchesKernel, HandlerInv, IsInjective
<1> QED
  BY Invariance, <1>1, PTL

(* In the process that created the file, the tree holds what clients do.   *)
THEOREM TreeCorrect == Spec => []TreeHoldsUsed
<1>1. IndInv => TreeHoldsUsed
  BY DEF IndInv
<1> QED
  BY Invariance, <1>1, PTL
=============================================================================
