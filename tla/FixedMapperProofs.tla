------------------------- MODULE FixedMapperProofs -------------------------
(***************************************************************************)
(* The properties of FixedMapper, for every first size of the file, every  *)
(* bound on it and both values of DEFAULT_MAPPING_PROT.  IndInv is the     *)
(* inductive invariant; one lemma per action shows that the action keeps   *)
(* it and takes a step of the page pool.                                   *)
(***************************************************************************)
EXTENDS FixedMapper, FixedMapperOpsProofs

(* What the steps below establish of a step from IndInv *)
PoolStep == [Pool!PoolNext]_(Pool!poolVars)

(* The empty handler of a closed container says what the type asks for. *)
LEMMA EmptyHandlerFields ==
    ASSUME NEW n
    PROVE  LET e == EmptyHandler(n) IN
           /\ e.fileSize = n /\ e.stSize = n /\ e.freeList = <<>> /\ e.last = NULL
           /\ e.size = 0 /\ e.index = <<>> /\ e.prot = <<>>
  BY DEF EmptyHandler

(* The container is closed and its file empty at first. *)
LEMMA IndInvInit == Init => IndInv
<1> SUFFICES ASSUME Init PROVE IndInv
  OBVIOUS
<1>1. fm = EmptyHandler(fm.stSize) /\ fm.stSize = 0
  BY EmptyHandlerFields DEF Init
<1>2. IsFiniteSet(used) /\ held = Cardinality(used)
  BY FS_EmptySet DEF Init
<1>3. up \in BOOLEAN /\ ~up /\ used = {} /\ meta = {} /\ held = 0 /\ peak = 0
  BY DEF Init
<1>4. GrowthOnDemand
  BY <1>3 DEF GrowthOnDemand
<1>5. fm.stSize \in Nat /\ fm.stSize =< MaxPages /\ peak \in Nat /\ held =< peak
  BY <1>1, <1>3, PagesAssumption
<1> QED
  BY <1>1, <1>2, <1>3, <1>4, <1>5, Zenon DEF IndInv

(* page_allocator_init, of a new file and of one that exists *)
LEMMA InitStep ==
    ASSUME IndInv, page_allocator_init
    PROVE  IndInv' /\ PoolStep
<1>1. /\ up' = TRUE /\ fm' = fixed_mapper_init(fm.stSize)
      /\ used' = used /\ held' = held /\ peak' = peak /\ meta' = meta
  BY DEF page_allocator_init
<1>2. CASE fm.stSize = 0
  <2>1. used = {} /\ meta = {}
    BY <1>2 DEF IndInv, Pages
  <2>2. /\ HandlerInv(fm', used') /\ Tracks(fm') /\ fm'.fileSize = InitPages
        /\ fm'.stSize = InitPages
    BY <1>1, <1>2, <2>1, InitNewFile
  <2>3. fm'.stSize \in Nat /\ fm'.stSize =< MaxPages
    BY <2>2, PagesAssumption
  <2>4. IndInv'
    BY <1>1, <2>1, <2>2, <2>3 DEF IndInv, GrowthOnDemand
  <2>5. Pool!Grow
    <3>1. fm'.stSize \in fm.stSize .. MaxPages
      BY <1>2, <2>3, PagesAssumption
    <3> QED
      BY <1>1, <3>1 DEF Pool!Grow
  <2> QED
    BY <2>4, <2>5 DEF PoolStep, Pool!PoolNext
<1>3. CASE fm.stSize # 0
  <2>1. fm.stSize \in Nat \ {0} /\ used \in SUBSET Pages(fm.stSize)
    BY <1>3 DEF IndInv
  <2>2. HandlerInv(fm', used') /\ ~Tracks(fm') /\ fm'.stSize = fm.stSize
    BY <1>1, <2>1, InitExistingFile
  <2>3. IndInv'
    BY <1>1, <2>2 DEF IndInv, GrowthOnDemand
  <2> QED
    BY <1>1, <2>2, <2>3 DEF PoolStep, Pool!poolVars
<1> QED
  BY <1>2, <1>3

(* page_allocator_getpage: the page it hands out was not in use *)
LEMMA GetpageStep ==
    ASSUME IndInv, NEW flags \in Prot, page_allocator_getpage(flags)
    PROVE  IndInv' /\ PoolStep
<1> DEFINE w == WithFreePage(fm)
           p == AllocatedPage(fm)
<1>1. /\ up = TRUE /\ up' = TRUE /\ CanAlloc(fm) /\ ~AllocDies(fm)
      /\ fm' = TakeFirst(w, flags) /\ used' = used \cup {p} /\ held' = held + 1
      /\ peak' = (IF held' > peak THEN held' ELSE peak)
      /\ meta' = (IF flags = "W" THEN meta \cup {p} ELSE meta)
  BY DEF page_allocator_getpage, fixed_mapper_alloc_page, IndInv
<1>2. HandlerInv(fm, used)
  BY <1>1 DEF IndInv
<1>3. /\ HandlerInv(w, used) /\ Tracks(fm) /\ Tracks(w) /\ w.freeList # <<>>
      /\ fm.stSize =< w.stSize
      /\ \/ fm.size # 0 /\ w = fm
         \/ /\ fm.size = 0 /\ used = Pages(fm.fileSize)
            /\ w.fileSize = 2 * fm.fileSize
            /\ w.stSize = posix_fallocate(fm, 2 * fm.fileSize)
            /\ w.prot = w.index /\ \A q \in used : w.index[q] = fm.index[q]
  BY <1>1, <1>2, WithFreePageKeeps
<1>4. p = Head(w.freeList)
  BY DEF AllocatedPage
<1> HIDE DEF p, w
<1>5. /\ HandlerInv(fm', used') /\ Tracks(fm') /\ p \in Pages(w.fileSize) \ used
      /\ fm'.fileSize = w.fileSize /\ fm'.stSize = w.stSize
      /\ \A q \in Pages(w.fileSize) \ {p} :
            fm'.prot[q] = w.prot[q] /\ fm'.index[q] = w.index[q]
      /\ flags = "W" => fm'.prot[p] = "W" /\ fm'.index[p] = "W"
  <2> DEFINE g == TakeFirst(w, flags)
  <2>0. HandlerInv(w, used) /\ Tracks(w) /\ w.freeList # <<>>
    BY <1>3
  <2>1. /\ HandlerInv(g, used \cup {Head(w.freeList)}) /\ Tracks(g)
        /\ Head(w.freeList) \in Pages(w.fileSize) \ used
        /\ g.fileSize = w.fileSize /\ g.stSize = w.stSize
        /\ \A q \in Pages(w.fileSize) \ {Head(w.freeList)} :
              g.prot[q] = w.prot[q] /\ g.index[q] = w.index[q]
        /\ flags = "W" => /\ g.prot[Head(w.freeList)] = "W"
                          /\ g.index[Head(w.freeList)] = "W"
    BY <2>0, TakeFirstKeeps
  <2> HIDE DEF g
  <2>2. fm' = g
    BY <1>1 DEF g
  <2> QED
    BY <1>1, <1>4, <2>1, <2>2
<1>6. /\ fm.fileSize \in Nat \ {0} /\ w.fileSize \in Nat \ {0} /\ w.stSize \in Nat
      /\ w.fileSize =< w.stSize
  BY <1>2, <1>3 DEF HandlerInv
<1>7. w.stSize =< MaxPages
  <2>1. CASE w = fm
    BY <2>1 DEF IndInv
  <2>2. CASE fm.size = 0 /\ w.stSize = posix_fallocate(fm, 2 * fm.fileSize)
    BY <1>1, <2>2 DEF CanAlloc
  <2> QED
    BY <1>3, <2>1, <2>2
<1>8. /\ IsFiniteSet(used') /\ held' = Cardinality(used')
      /\ held \in Nat /\ held =< peak /\ peak \in Nat
  <2>1. IsFiniteSet(used) /\ held = Cardinality(used) /\ held =< peak /\ peak \in Nat
    BY DEF IndInv
  <2>2. Cardinality(used) \in Nat
    BY <2>1, FS_CardinalityType
  <2> QED
    BY <1>1, <1>5, <2>1, <2>2, FS_AddElement
<1>9. peak' \in Nat /\ held' =< peak' /\ peak =< peak'
  BY <1>1, <1>8
<1>10. fm'.fileSize = InitPages \/ fm'.fileSize < 2 * peak'
  <2>1. CASE w = fm
    <3>1. fm.fileSize = InitPages \/ fm.fileSize < 2 * peak
      BY <1>1, <1>3 DEF IndInv, GrowthOnDemand
    <3> QED
      BY <1>5, <1>6, <1>8, <1>9, <2>1, <3>1
  <2>2. CASE used = Pages(fm.fileSize) /\ w.fileSize = 2 * fm.fileSize
    <3>1. Cardinality(0 .. fm.fileSize - 1) = fm.fileSize
      <4>1. 0 \in Int /\ fm.fileSize - 1 \in Int /\ ~(0 > fm.fileSize - 1)
            /\ fm.fileSize - 1 - 0 + 1 = fm.fileSize
        BY <1>6
      <4> QED
        BY <4>1, FS_Interval
    <3>2. held = fm.fileSize
      BY <2>2, <3>1 DEF IndInv, Pages
    <3> QED
      BY <1>1, <1>5, <1>6, <1>8, <1>9, <2>2, <3>2
  <2> QED
    BY <1>3, <2>1, <2>2
<1>11. \A q \in meta' : fm'.prot[q] = "W" /\ fm'.index[q] = "W"
  <2>1. \A q \in meta : w.prot[q] = "W" /\ w.index[q] = "W"
    BY <1>1, <1>3 DEF IndInv
  <2>2. \A q \in meta : q \in Pages(w.fileSize) \ {p}
    BY <1>3, <1>5, TracksOrEmpty DEF IndInv
  <2> QED
    BY <1>1, <1>5, <2>1, <2>2
<1>12. used' \subseteq Pages(fm'.stSize) /\ meta' \subseteq used'
  BY <1>1, <1>5 DEF IndInv, HandlerInv
<1>13. IndInv'
  BY <1>1, <1>5, <1>6, <1>7, <1>8, <1>9, <1>10, <1>11, <1>12 DEF IndInv, GrowthOnDemand
<1>14. Pool!Alloc
  <2>1. fm'.stSize \in fm.stSize .. MaxPages
    BY <1>3, <1>5, <1>6, <1>7, PagesAssumption DEF IndInv
  <2>2. p \in (0 .. fm'.stSize - 1) \ used
    BY <1>5, <1>6 DEF Pages
  <2> QED
    BY <1>1, <2>1, <2>2 DEF Pool!Alloc
<1> QED
  BY <1>13, <1>14 DEF PoolStep, Pool!PoolNext

(* An allocation that dies has extended the file and nothing else. *)
LEMMA GetpageDiesStep ==
    ASSUME IndInv, GetpageDies
    PROVE  IndInv' /\ PoolStep
<1> DEFINE s == posix_fallocate(fm, 2 * fm.fileSize)
<1>1. /\ up = TRUE /\ up' = FALSE /\ CanAlloc(fm) /\ fm.size = 0
      /\ fm' = EmptyHandler(s)
      /\ used' = used /\ held' = held /\ peak' = peak /\ meta' = meta
  BY DEF GetpageDies, AllocDies, IndInv
<1>2. fm.fileSize \in Nat /\ fm.stSize \in Nat
  BY <1>1 DEF IndInv, HandlerInv
<1>3. s \in Nat /\ fm.stSize =< s
  BY <1>2 DEF posix_fallocate
<1>4. s =< MaxPages
  BY <1>1 DEF CanAlloc
<1> HIDE DEF s
<1>5. fm'.stSize = s
  BY <1>1, EmptyHandlerFields
<1>6. used' \subseteq Pages(fm'.stSize)
  BY <1>1, <1>2, <1>3, <1>5 DEF IndInv, Pages
<1>7. IndInv'
  BY <1>1, <1>3, <1>4, <1>5, <1>6 DEF IndInv, GrowthOnDemand
<1>8. Pool!Grow
  <2>1. fm'.stSize \in fm.stSize .. MaxPages
    BY <1>2, <1>3, <1>4, <1>5, PagesAssumption
  <2> QED
    BY <1>1, <2>1 DEF Pool!Grow
<1> QED
  BY <1>7, <1>8 DEF PoolStep, Pool!PoolNext

(* page_allocator_freepages *)
LEMMA FreepagesStep ==
    ASSUME IndInv, NEW p \in used, page_allocator_freepages(p)
    PROVE  IndInv' /\ PoolStep
<1>1. /\ up = TRUE /\ up' = TRUE /\ ~FreeDies(fm, p)
      /\ fm' = fixed_mapper_freepages(fm, p) /\ used' = used \ {p}
      /\ held' = held - 1 /\ meta' = meta \ {p} /\ peak' = peak
  BY DEF page_allocator_freepages, IndInv
<1>2. HandlerInv(fm, used)
  BY <1>1 DEF IndInv
<1>3. /\ HandlerInv(fm', used') /\ Tracks(fm) /\ Tracks(fm')
      /\ fm'.fileSize = fm.fileSize /\ fm'.stSize = fm.stSize
      /\ fm'.prot = fm.prot /\ fm'.index = fm.index
  BY <1>1, <1>2, FreepagesKeeps
<1>4. /\ IsFiniteSet(used') /\ held' = Cardinality(used')
      /\ held' =< peak' /\ peak' \in Nat
  <2>1. IsFiniteSet(used) /\ held = Cardinality(used) /\ held =< peak /\ peak \in Nat
    BY DEF IndInv
  <2>2. Cardinality(used) \in Nat
    BY <2>1, FS_CardinalityType
  <2> QED
    BY <1>1, <2>1, <2>2, FS_RemoveElement
<1>5. IndInv'
  BY <1>1, <1>3, <1>4 DEF IndInv, GrowthOnDemand
<1>6. Pool!Free
  BY <1>1, <1>3 DEF Pool!Free
<1> QED
  BY <1>5, <1>6 DEF PoolStep, Pool!PoolNext

(* page_allocator_mprotect *)
LEMMA MprotectStep ==
    ASSUME IndInv, NEW p \in used, NEW flags \in Prot, page_allocator_mprotect(p, flags)
    PROVE  IndInv' /\ PoolStep
<1>1. /\ up = TRUE /\ up' = TRUE /\ fm' = page_allocator_mprotect_generic(fm, p, flags)
      /\ meta' = meta \ {p} /\ used' = used /\ held' = held /\ peak' = peak
  BY DEF page_allocator_mprotect, IndInv
<1>2. HandlerInv(fm, used)
  BY <1>1 DEF IndInv
<1>3. /\ HandlerInv(fm', used)
      /\ fm'.fileSize = fm.fileSize /\ fm'.stSize = fm.stSize /\ fm'.index = fm.index
      /\ \A q \in Pages(fm.fileSize) \ {p} : fm'.prot[q] = fm.prot[q]
  BY <1>1, <1>2, MprotectKeeps
<1>4. Tracks(fm') <=> Tracks(fm)
  BY <1>3 DEF Tracks
<1>5. Tracks(fm) => \A q \in meta : q \in Pages(fm.fileSize)
  BY <1>2, TracksOrEmpty DEF IndInv
<1>6. IndInv'
  BY <1>1, <1>3, <1>4, <1>5 DEF IndInv, GrowthOnDemand
<1> QED
  BY <1>1, <1>3, <1>6 DEF PoolStep, Pool!poolVars

(* page_allocator_shutdown and the death of the process *)
LEMMA StopStep ==
    ASSUME IndInv, Stop
    PROVE  IndInv' /\ PoolStep
<1>1. /\ up' = FALSE /\ fm' = EmptyHandler(fm.stSize)
      /\ used' = used /\ held' = held /\ peak' = peak /\ meta' = meta
  BY DEF Stop
<1>2. fm'.stSize = fm.stSize
  BY <1>1, EmptyHandlerFields
<1>3. IndInv'
  BY <1>1, <1>2 DEF IndInv, GrowthOnDemand
<1> QED
  BY <1>1, <1>2, <1>3 DEF PoolStep, Pool!poolVars

(* Every step keeps the invariant and is a step of the page pool. *)
LEMMA NextStep ==
    ASSUME IndInv, [Next]_vars
    PROVE  IndInv' /\ PoolStep
<1>1. CASE page_allocator_init
  BY <1>1, InitStep
<1>2. ASSUME NEW flags \in Prot, page_allocator_getpage(flags)
      PROVE  IndInv' /\ PoolStep
  BY <1>2, GetpageStep
<1>3. CASE GetpageDies
  BY <1>3, GetpageDiesStep
<1>4. ASSUME NEW p \in used, page_allocator_freepages(p)
      PROVE  IndInv' /\ PoolStep
  BY <1>4, FreepagesStep
<1>5. ASSUME NEW p \in used, NEW flags \in Prot, page_allocator_mprotect(p, flags)
      PROVE  IndInv' /\ PoolStep
  BY <1>5, MprotectStep
<1>6. CASE Stop
  BY <1>6, StopStep
<1>7. CASE UNCHANGED vars
  BY <1>7 DEF vars, IndInv, GrowthOnDemand, PoolStep, Pool!poolVars
<1> QED
  BY <1>1, <1>2, <1>3, <1>4, <1>5, <1>6, <1>7 DEF Next

(* The inductive invariant holds in every state of the mapper. *)
THEOREM Invariance == Spec => []IndInv
<1>1. IndInv /\ [Next]_vars => IndInv'
  BY NextStep
<1> QED
  BY IndInvInit, <1>1, PTL DEF Spec

-----------------------------------------------------------------------------
(* The properties *)

(* The list, the index and the protections speak of pages of the file. *)
THEOREM TypeCorrect == Spec => []TypeOK
<1>1. IndInv => TypeOK
  <2> SUFFICES ASSUME IndInv PROVE TypeOK
    OBVIOUS
  <2>1. /\ up \in BOOLEAN /\ fm.stSize \in Nat /\ used \subseteq Pages(fm.stSize)
        /\ meta \subseteq used /\ peak \in Nat /\ IsFiniteSet(used)
        /\ held = Cardinality(used)
    BY DEF IndInv
  <2>2. held \in Nat
    BY <2>1, FS_CardinalityType
  <2>3. CASE up
    <3>1. HandlerInv(fm, used)
      BY <2>3 DEF IndInv
    <3>2. /\ fm.fileSize \in Nat /\ fm.fileSize =< fm.stSize
          /\ fm.freeList \in Seq(Pages(fm.fileSize)) /\ fm.size \in Nat
      BY <3>1, LenProperties DEF HandlerInv, ListSound
    <3>3. fm.last \in Pages(fm.fileSize) \cup {NULL}
      BY <3>1, EmptySeq, ElementOfSeq DEF HandlerInv, ListSound
    <3>4. /\ DOMAIN fm.index \subseteq Pages(fm.fileSize)
          /\ \A p \in DOMAIN fm.index : fm.index[p] \in Prot
      BY <3>1, TracksOrEmpty
    <3>5. /\ DOMAIN fm.prot = Pages(fm.fileSize)
          /\ \A p \in DOMAIN fm.prot : fm.prot[p] \in Prot
      BY <3>1 DEF HandlerInv
    <3> QED
      BY <2>1, <2>2, <3>2, <3>3, <3>4, <3>5, Zenon DEF TypeOK
  <2>4. CASE ~up
    <3>1. fm = EmptyHandler(fm.stSize)
      BY <2>4 DEF IndInv
    <3>2. /\ fm.fileSize = fm.stSize /\ fm.freeList = <<>> /\ fm.last = NULL
          /\ fm.size = 0 /\ fm.index = <<>> /\ fm.prot = <<>>
      BY <3>1, EmptyHandlerFields
    <3>3. DOMAIN fm.index = {} /\ DOMAIN fm.prot = {}
      BY <3>2
    <3>4. /\ fm.fileSize \in Nat /\ fm.fileSize =< fm.stSize
          /\ fm.freeList \in Seq(Pages(fm.fileSize)) /\ fm.size \in Nat
      BY <2>1, <3>2, EmptySeq
    <3> QED
      BY <2>1, <2>2, <2>4, <3>2, <3>3, <3>4, Zenon DEF TypeOK
  <2> QED
    BY <2>3, <2>4
<1> QED
  BY Invariance, <1>1, PTL

(* The free list is well formed after any sequence of calls. *)
THEOREM FreeListCorrect == Spec => []FreeListSound
<1>1. IndInv => FreeListSound
  <2> SUFFICES ASSUME IndInv PROVE ListSound(fm)
    BY DEF FreeListSound
  <2>1. CASE up
    BY <2>1 DEF IndInv, HandlerInv
  <2>2. CASE ~up
    <3>1. fm.freeList = <<>> /\ fm.last = NULL /\ fm.size = 0
      BY <2>2, EmptyHandlerFields DEF IndInv
    <3> QED
      BY <3>1 DEF ListSound
  <2> QED
    BY <2>1, <2>2
<1> QED
  BY Invariance, <1>1, PTL

(* A page is in use or available, and never both or neither. *)
THEOREM PartitionCorrect == Spec => []PagesPartitioned
<1>1. IndInv => PagesPartitioned
  BY TracksOrEmpty DEF IndInv, PagesPartitioned
<1> QED
  BY Invariance, <1>1, PTL

(* The file is doubled only when every page is held. *)
THEOREM GrowthCorrect == Spec => []GrowthOnDemand
<1>1. IndInv => GrowthOnDemand
  BY DEF IndInv
<1> QED
  BY Invariance, <1>1, PTL

(* A growth gives the writable pages their protection back. *)
THEOREM WritableCorrect == Spec => []WritablePagesStayWritable
<1>1. IndInv => WritablePagesStayWritable
  BY DEF IndInv, WritablePagesStayWritable
<1> QED
  BY Invariance, <1>1, PTL

(* The fixed mapper implements the page pool: no call hands out a page     *)
(* that is in use, through growths, deaths and reopenings.                 *)
THEOREM Refinement == Spec => ImplementsPagePool
<1>1. Init => Pool!PoolInit
  BY EmptyHandlerFields DEF Init, Pool!PoolInit
<1>2. IndInv /\ [Next]_vars => [Pool!PoolNext]_(Pool!poolVars)
  BY NextStep DEF PoolStep
<1> QED
  BY Invariance, <1>1, <1>2, PTL DEF Spec, ImplementsPagePool, Pool!PoolSpec
=============================================================================
