-------------------------- MODULE NLSnapshotProofs --------------------------
(***************************************************************************)
(* The properties of NLSnapshot, for every number of entries of a bucket,  *)
(* every size of the file and every number of checkpoints.  IndInv is the  *)
(* inductive invariant.  The frees of a checkpoint are a recursion over    *)
(* the entries of the bucket: what it computes is shown by induction over  *)
(* sets of natural numbers.                                                *)
(***************************************************************************)
EXTENDS NLSnapshot, NLMapperOpsProofs

-----------------------------------------------------------------------------
(* Induction *)

(* A set of numbers with 0 that has n + 1 with every n below N reaches N.  *)
LEMMA SetInduction ==
    ASSUME NEW N \in Nat, NEW T, 0 \in T,
           \A n \in 0 .. N - 1 : n \in T => n + 1 \in T
    PROVE  \A n \in 0 .. N : n \in T
<1> DEFINE R == OpToRel(<, Nat)
           C == {n \in 0 .. N : n \notin T}
<1>1. IsWellFoundedOn(R, Nat)
  BY NatLessThanWellFounded, Zenon
<1>2. \A x, y \in Nat : x < y => <<x, y>> \in R
  BY DEF OpToRel
<1>3. C \subseteq Nat
  OBVIOUS
<1> HIDE DEF R
<1>4. ASSUME C # {} PROVE FALSE
  <2> HIDE DEF C
  <2>1. PICK n \in C : \A y \in C : ~(<<y, n>> \in R)
    BY <1>1, <1>3, <1>4, WFMin, Zenon
  <2>2. n \in 0 .. N /\ n \notin T
    BY <2>1 DEF C
  <2>3. n # 0
    BY <2>2
  <2>4. n - 1 \in 0 .. N - 1 /\ n - 1 \in 0 .. N /\ n - 1 < n /\ n - 1 + 1 = n
    BY <2>2, <2>3
  <2>5. n - 1 \notin C
    <3>1. n \in Nat /\ n - 1 \in Nat
      BY <2>2, <2>4
    <3>2. <<n - 1, n>> \in R
      BY <1>2, <2>4, <3>1
    <3> QED
      BY <2>1, <3>2, Zenon
  <2>6. n - 1 \in T
    BY <2>4, <2>5 DEF C
  <2> QED
    BY <2>2, <2>4, <2>6
<1> QED
  BY <1>4

-----------------------------------------------------------------------------
(* The frees of a checkpoint *)

(* one turn of the loop over the entries of the bucket, for entry i - 1 *)
FreeOf(k, i) == IF i - 1 \in Changed THEN nlm_free_pages(k, se[i - 1].snap.m) ELSE k

(* f holds the handlers of the first n turns of the loop, from h on. *)
Turns(f, h, n) ==
    /\ f = [i \in 0 .. n |-> f[i]] /\ f[0] = h
    /\ \A i \in 1 .. n : f[i] = FreeOf(f[i - 1], i)

(* The loop has a handler after every turn. *)
LEMMA TurnsExist ==
    ASSUME NEW h
    PROVE  \E f : Turns(f, h, NEntries)
<1> DEFINE T == {n \in 0 .. NEntries : \E f : Turns(f, h, n)}
<1>1. NEntries \in Nat
  BY EntriesAssumption
<1>2. 0 \in T
  <2> DEFINE f == [i \in 0 .. 0 |-> h]
  <2>1. f = [i \in 0 .. 0 |-> f[i]] /\ f[0] = h /\ 1 .. 0 = {}
    OBVIOUS
  <2> HIDE DEF f
  <2>2. Turns(f, h, 0)
    BY <2>1 DEF Turns
  <2> QED
    BY <1>1, <2>2
<1>3. ASSUME NEW n \in 0 .. NEntries - 1, n \in T
      PROVE  n + 1 \in T
  <2>1. PICK f : Turns(f, h, n)
    BY <1>3
  <2> DEFINE g == [i \in 0 .. n + 1 |-> IF i = n + 1 THEN FreeOf(f[n], n + 1) ELSE f[i]]
  <2>2. n \in Nat /\ n + 1 \in 0 .. NEntries
    BY <1>1
  <2>3. g = [i \in 0 .. n + 1 |-> g[i]] /\ g[0] = h
    BY <2>1, <2>2 DEF Turns
  <2>4. ASSUME NEW i \in 1 .. n + 1
        PROVE  g[i] = FreeOf(g[i - 1], i)
    <3>1. i \in 0 .. n + 1 /\ i - 1 \in 0 .. n + 1 /\ i - 1 # n + 1
      BY <2>2
    <3>2. g[i - 1] = f[i - 1]
      BY <3>1
    <3>3. CASE i = n + 1
      <4>1. g[i] = FreeOf(f[n], n + 1) /\ i - 1 = n
        BY <2>2, <3>1, <3>3
      <4> QED
        BY <3>2, <3>3, <4>1
    <3>4. CASE i # n + 1
      <4>1. g[i] = f[i] /\ i \in 1 .. n
        BY <2>2, <3>1, <3>4
      <4> QED
        BY <2>1, <3>2, <4>1 DEF Turns
    <3> QED
      BY <3>3, <3>4
  <2> HIDE DEF g
  <2>5. Turns(g, h, n + 1)
    BY <2>3, <2>4 DEF Turns
  <2> QED
    BY <2>2, <2>5
<1> HIDE DEF T
<1>4. \A n \in 0 .. NEntries : n \in T
  BY <1>1, <1>2, <1>3, SetInduction, Zenon
<1>5. NEntries \in T
  BY <1>1, <1>4
<1> QED
  BY <1>5 DEF T

(* FreeSnapshots is the handler after the last turn. *)
LEMMA FreeSnapshotsTurns ==
    ASSUME NEW h
    PROVE  \E f : Turns(f, h, NEntries) /\ FreeSnapshots(h) = f[NEntries]
<1> DEFINE Def(f) == [i \in 0 .. NEntries |->
                         IF i = 0 THEN h
                         ELSE IF i - 1 \in Changed
                         THEN nlm_free_pages(f[i - 1], se[i - 1].snap.m)
                         ELSE f[i - 1]]
           after == CHOOSE f : f = Def(f)
<1>1. FreeSnapshots(h) = after[NEntries]
  BY DEF FreeSnapshots
<1>2. PICK f : Turns(f, h, NEntries)
  BY TurnsExist
<1>3. f = Def(f)
  <2>1. f = [i \in 0 .. NEntries |-> f[i]]
    BY <1>2 DEF Turns
  <2>2. ASSUME NEW i \in 0 .. NEntries
        PROVE  f[i] = IF i = 0 THEN h
                      ELSE IF i - 1 \in Changed
                      THEN nlm_free_pages(f[i - 1], se[i - 1].snap.m)
                      ELSE f[i - 1]
    <3>1. CASE i = 0
      BY <1>2, <3>1 DEF Turns
    <3>2. CASE i # 0
      <4>1. i \in 1 .. NEntries
        BY <3>2, EntriesAssumption
      <4>2. f[i] = FreeOf(f[i - 1], i)
        BY <1>2, <4>1 DEF Turns
      <4> QED
        BY <3>2, <4>2 DEF FreeOf
    <3> QED
      BY <3>1, <3>2
  <2>3. [i \in 0 .. NEntries |-> f[i]] = Def(f)
    BY <2>2
  <2> QED
    BY <2>1, <2>3
<1>4. after = Def(after)
  BY <1>3, Zenon
<1> HIDE DEF after
<1>5. Turns(after, h, NEntries)
  BY <1>4, EntriesAssumption DEF Turns, FreeOf
<1> QED
  BY <1>1, <1>5

(* FreeSnapshots of addresses that are in use, no two entries having the   *)
(* same: exactly the snapshots of the changed entries leave the tree, and  *)
(* no slot shows another page.                                             *)
LEMMA FreeSnapshotsKeeps ==
    ASSUME NEW h, HandlerInv(h),
           \A e \in Changed : se[e].snap.m \in h.tree,
           \A e, f \in Changed : e # f => se[e].snap.m # se[f].snap.m
    PROVE  /\ HandlerInv(FreeSnapshots(h))
           /\ FreeSnapshots(h).pgoff = h.pgoff
           /\ FreeSnapshots(h).tree = h.tree \ {se[e].snap.m : e \in Changed}
<1> DEFINE Freed(n) == {se[e].snap.m : e \in {c \in Changed : c < n}}
<1>1. PICK f : Turns(f, h, NEntries) /\ FreeSnapshots(h) = f[NEntries]
  BY FreeSnapshotsTurns
<1> DEFINE T == {n \in 0 .. NEntries : /\ HandlerInv(f[n]) /\ f[n].pgoff = h.pgoff
                                       /\ f[n].tree = h.tree \ Freed(n)}
<1>2. NEntries \in Nat /\ Changed \subseteq 0 .. NEntries - 1
  BY EntriesAssumption DEF Changed, Entries
<1>3. 0 \in T
  <2>1. Freed(0) = {}
    BY <1>2
  <2>2. f[0] = h
    BY <1>1 DEF Turns
  <2> QED
    BY <1>2, <2>1, <2>2
<1>4. ASSUME NEW n \in 0 .. NEntries - 1, n \in T
      PROVE  n + 1 \in T
  <2>1. n \in Nat /\ n + 1 \in 0 .. NEntries /\ n + 1 \in 1 .. NEntries /\ n + 1 - 1 = n
    BY <1>2
  <2>2. /\ HandlerInv(f[n]) /\ f[n].pgoff = h.pgoff /\ f[n].tree = h.tree \ Freed(n)
    BY <1>4
  <2>3. f[n + 1] = FreeOf(f[n], n + 1)
    <3>1. \A i \in 1 .. NEntries : f[i] = FreeOf(f[i - 1], i)
      BY <1>1 DEF Turns
    <3>2. PICK i \in 1 .. NEntries : i = n + 1
      BY <2>1
    <3>3. f[i] = FreeOf(f[i - 1], i)
      BY <3>1
    <3>4. i - 1 = n
      BY <2>1, <3>2
    <3> QED
      BY <3>2, <3>3, <3>4
  <2>4. CASE n \notin Changed
    <3>1. f[n + 1] = f[n]
      BY <2>1, <2>3, <2>4 DEF FreeOf
    <3>2. {c \in Changed : c < n + 1} = {c \in Changed : c < n}
      <4>1. \A c \in 0 .. NEntries - 1 : c # n => (c < n + 1 <=> c < n)
        BY <2>1
      <4>2. \A c \in Changed : c < n + 1 <=> c < n
        BY <1>2, <2>4, <4>1
      <4> QED
        BY <4>2
    <3> QED
      BY <2>1, <2>2, <3>1, <3>2
  <2>5. CASE n \in Changed
    <3> DEFINE a == se[n].snap.m
    <3>1. f[n + 1] = nlm_free_pages(f[n], a)
      BY <2>1, <2>3, <2>5 DEF FreeOf
    <3>2. a \notin Freed(n)
      BY <1>2, <2>1, <2>5
    <3>3. a \in f[n].tree
      BY <2>2, <2>5, <3>2
    <3>4. Freed(n + 1) = Freed(n) \cup {a}
      <4>1. {c \in Changed : c < n + 1} = {c \in Changed : c < n} \cup {n}
        <5>1. \A c \in 0 .. NEntries - 1 : c < n + 1 <=> c < n \/ c = n
          BY <2>1
        <5>2. \A c \in Changed : c < n + 1 <=> c < n \/ c = n
          BY <1>2, <5>1
        <5> QED
          BY <2>5, <5>2
      <4> QED
        BY <4>1
    <3> HIDE DEF a, Freed
    <3>5. /\ HandlerInv(f[n + 1]) /\ f[n + 1].pgoff = f[n].pgoff
          /\ f[n + 1].tree = f[n].tree \ {a}
      BY <2>2, <3>1, <3>3, FreePagesKeeps
    <3> QED
      BY <2>1, <2>2, <3>4, <3>5
  <2> QED
    BY <2>4, <2>5
<1> HIDE DEF T
<1>5. \A n \in 0 .. NEntries : n \in T
  BY <1>2, <1>3, <1>4, SetInduction, Zenon
<1>6. NEntries \in T
  BY <1>2, <1>5
<1>7. Freed(NEntries) = {se[e].snap.m : e \in Changed}
  BY <1>2
<1> QED
  BY <1>1, <1>6, <1>7 DEF T

-----------------------------------------------------------------------------
(* The inductive invariant *)

(* container_init takes the first five slots of the new file, in order.    *)
LEMMA IndInvInit == Init => IndInv
<1> SUFFICES ASSUME Init PROVE IndInv
  OBVIOUS
<1> DEFINE h0 == nlm_init(0)
           h1 == nlm_alloc_page(h0)
           h2 == nlm_alloc_page(h1)
           h3 == nlm_alloc_page(h2)
           h4 == nlm_alloc_page(h3)
<1>1. /\ nlm = nlm_alloc_page(h4) /\ se = [e \in Entries |-> NULL]
      /\ sb = [cur |-> NewRef(h4), snap |-> NewRef(h4), has |-> FALSE]
  BY DEF Init
<1>2. InOrder(nlm, 5) /\ NewRef(h4) = Ref(4, 4)
  <2>1. InOrder(h0, 0)
    BY InitInOrder
  <2> HIDE DEF h0
  <2>2. InOrder(h1, 1)
    BY <2>1, AllocInOrder
  <2> HIDE DEF h1
  <2>3. InOrder(h2, 2)
    BY <2>2, AllocInOrder
  <2> HIDE DEF h2
  <2>4. InOrder(h3, 3)
    BY <2>3, AllocInOrder
  <2> HIDE DEF h3
  <2>5. InOrder(h4, 4)
    BY <2>4, AllocInOrder
  <2> HIDE DEF h4
  <2>6. /\ InOrder(nlm_alloc_page(h4), 5)
        /\ AllocatedSlot(h4) = 4 /\ AllocatedOffset(h4) = 4
    BY <2>5, AllocInOrder
  <2> QED
    BY <1>1, <2>6 DEF NewRef
<1> HIDE DEF h4
<1>3. /\ sb.cur.m = 4 /\ sb.cur.l = 4 /\ sb.snap.m = 4 /\ sb.snap.l = 4 /\ sb.has = FALSE
      /\ DOMAIN sb = {"cur", "snap", "has"}
  BY <1>1, <1>2 DEF Ref
<1>4. /\ HandlerInv(nlm) /\ nlm.tree = 0 .. 4
      /\ \A a \in 0 .. 4 : nlm.pgoff[a] = a
  <2>1. /\ HandlerInv(nlm) /\ nlm.tree = Pages(5) /\ 5 =< nlm.fileSize
        /\ \A a \in Pages(nlm.fileSize) : nlm.pgoff[a] = a
    BY <1>2 DEF InOrder
  <2>2. nlm.fileSize \in Nat
    BY <2>1 DEF HandlerInv
  <2> QED
    BY <2>1, <2>2 DEF Pages
<1>5. \A e \in Entries : se[e] = NULL
  BY <1>1
<1>6. /\ MetaSlots \subseteq nlm.tree /\ 4 \in nlm.tree \ MetaSlots /\ nlm.pgoff[4] = 4
      /\ \A a \in MetaSlots : nlm.pgoff[a] = a
  BY <1>4 DEF MetaSlots
<1>7. DOMAIN se = Entries
  BY <1>1
<1>8. {sb.cur.m, sb.snap.m} \subseteq nlm.tree \ MetaSlots
  BY <1>3, <1>6
<1> QED
  BY <1>3, <1>4, <1>5, <1>6, <1>7, <1>8 DEF IndInv

(* What slab_bucket_copynswap leaves: the bucket has a snapshot at another *)
(* address, the slots in use before are in use and the entries' and the    *)
(* tree's show what they did.                                              *)
LEMMA BucketCopyKeeps ==
    ASSUME IndInv
    PROVE  LET s == slab_bucket_copynswap IN
           /\ HandlerInv(s.nlm) /\ nlm.tree \subseteq s.nlm.tree
           /\ DOMAIN s.sb = {"cur", "snap", "has"} /\ s.sb.has \in BOOLEAN
           /\ s.sb.cur.m # s.sb.snap.m
           /\ s.sb.cur.m = sb.cur.m /\ s.sb.cur.m \in s.nlm.tree
           /\ s.sb.snap.m \in s.nlm.tree \ (nlm.tree \ {sb.snap.m})
           /\ s.nlm.pgoff[s.sb.cur.m] = s.sb.cur.l
           /\ s.nlm.pgoff[s.sb.snap.m] = s.sb.snap.l
           /\ \A a \in nlm.tree \ {sb.cur.m} : s.nlm.pgoff[a] = nlm.pgoff[a]
           /\ s.sb.snap.m \notin MetaSlots
<1> DEFINE s == slab_bucket_copynswap
           x == sb.cur.m
<1>1. /\ HandlerInv(nlm) /\ DOMAIN sb = {"cur", "snap", "has"} /\ MetaSlots \subseteq nlm.tree
      /\ x \in nlm.tree /\ sb.snap.m \in nlm.tree \ MetaSlots
      /\ nlm.pgoff[x] = sb.cur.l /\ nlm.pgoff[sb.snap.m] = sb.snap.l
  BY DEF IndInv
<1>2. CASE x # sb.snap.m
  <2>1. s.nlm = nlm /\ s.sb = [sb EXCEPT !.has = FALSE]
    BY <1>2 DEF slab_bucket_copynswap
  <2>2. /\ DOMAIN s.sb = {"cur", "snap", "has"} /\ s.sb.cur = sb.cur
        /\ s.sb.snap = sb.snap /\ s.sb.has = FALSE
    BY <1>1, <2>1
  <2> QED
    BY <1>1, <1>2, <2>1, <2>2
<1>3. CASE x = sb.snap.m
  <2> DEFINE h == nlm_alloc_page(nlm)
             y == AllocatedSlot(nlm)
             p == AllocatedOffset(nlm)
             g == nlm_swap_pages(h, x, p, y, sb.cur.l)
  <2>1. /\ s.nlm = g
        /\ s.sb = [cur |-> Ref(x, p), snap |-> Ref(y, sb.snap.l), has |-> TRUE]
    BY <1>3 DEF slab_bucket_copynswap, CopyAndSwapBucket, NewRef, Ref
  <2>2. /\ HandlerInv(h) /\ y \notin nlm.tree /\ h.tree = nlm.tree \cup {y}
        /\ h.pgoff[y] = p /\ \A b \in nlm.tree : h.pgoff[b] = nlm.pgoff[b]
    BY <1>1, AllocPageKeeps
  <2> HIDE DEF h, y, p
  <2>3. p = h.pgoff[y] /\ sb.cur.l = h.pgoff[x] /\ x \in h.tree /\ y \in h.tree /\ x # y
    BY <1>1, <2>2
  <2>4. /\ HandlerInv(g) /\ g.tree = h.tree
        /\ g.pgoff[x] = h.pgoff[y] /\ g.pgoff[y] = h.pgoff[x]
        /\ \A a \in Pages(h.fileSize) \ {x, y} : g.pgoff[a] = h.pgoff[a]
    <3> DEFINE k == nlm_swap_pages(h, x, h.pgoff[y], y, h.pgoff[x])
    <3>1. g = k
      BY <2>3
    <3>2. /\ HandlerInv(k) /\ k.tree = h.tree
          /\ k.pgoff[x] = h.pgoff[y] /\ k.pgoff[y] = h.pgoff[x]
          /\ \A a \in Pages(h.fileSize) \ {x, y} : k.pgoff[a] = h.pgoff[a]
      BY <2>2, <2>3, SwapPagesKeeps
    <3> QED
      BY <3>1, <3>2
  <2>5. h.tree \subseteq Pages(h.fileSize)
    BY <2>2 DEF HandlerInv
  <2>6. /\ DOMAIN s.sb = {"cur", "snap", "has"} /\ s.sb.cur.m = x /\ s.sb.cur.l = p
        /\ s.sb.snap.m = y /\ s.sb.snap.l = sb.snap.l /\ s.sb.has = TRUE
    BY <2>1 DEF Ref
  <2> HIDE DEF g, s, x
  <2>7. \A a \in nlm.tree \ {x} : g.pgoff[a] = nlm.pgoff[a]
    BY <2>2, <2>4, <2>5
  <2>8. sb.snap.l = sb.cur.l
    BY <1>1, <1>3
  <2> QED
    BY <1>1, <1>3, <2>1, <2>2, <2>3, <2>4, <2>6, <2>7, <2>8 DEF x, s
<1> QED
  BY <1>2, <1>3

(* slab_palloc, of a new entry and of one with room *)
LEMMA PallocStep ==
    ASSUME IndInv, NEW e \in Entries, slab_palloc(e)
    PROVE  IndInv'
<1> DEFINE s == slab_bucket_copynswap
           Meta == MetaSlots \cup {s.sb.cur.m, s.sb.snap.m}
<1>1. /\ sb' = s.sb
      /\ IF se[e] = NULL
         THEN /\ nlm' = nlm_alloc_page(s.nlm)
              /\ se' = [se EXCEPT ![e] = [cur |-> NewRef(s.nlm), snap |-> NewRef(s.nlm)]]
         ELSE nlm' = s.nlm /\ se' = se
  BY DEF slab_palloc
<1>2. /\ HandlerInv(s.nlm) /\ nlm.tree \subseteq s.nlm.tree
      /\ DOMAIN s.sb = {"cur", "snap", "has"} /\ s.sb.has \in BOOLEAN
      /\ s.sb.cur.m # s.sb.snap.m
      /\ s.sb.cur.m = sb.cur.m /\ s.sb.cur.m \in s.nlm.tree
      /\ s.sb.snap.m \in s.nlm.tree \ (nlm.tree \ {sb.snap.m})
      /\ s.nlm.pgoff[s.sb.cur.m] = s.sb.cur.l
      /\ s.nlm.pgoff[s.sb.snap.m] = s.sb.snap.l
      /\ \A a \in nlm.tree \ {sb.cur.m} : s.nlm.pgoff[a] = nlm.pgoff[a]
      /\ s.sb.snap.m \notin MetaSlots
  BY BucketCopyKeeps
<1> HIDE DEF s
<1>3. /\ DOMAIN se = Entries /\ MetaSlots \subseteq nlm.tree
      /\ \A a \in MetaSlots : nlm.pgoff[a] = a
      /\ sb.cur.m \in nlm.tree \ MetaSlots /\ sb.snap.m \in nlm.tree \ MetaSlots
      /\ \A f \in Entries : se[f] # NULL =>
            EntrySlots(f) \subseteq nlm.tree \ (MetaSlots \cup {sb.cur.m, sb.snap.m})
      /\ \A f, g \in Entries : se[f] # NULL /\ se[g] # NULL /\ f # g =>
            EntrySlots(f) \cap EntrySlots(g) = {}
  BY DEF IndInv
<1>4. /\ Meta \subseteq s.nlm.tree
      /\ \A a \in MetaSlots : s.nlm.pgoff[a] = a
      /\ \A f \in Entries : se[f] # NULL => EntrySlots(f) \subseteq s.nlm.tree \ Meta
  BY <1>2, <1>3
<1>5. CASE se[e] # NULL
  <2>1. nlm' = s.nlm /\ se' = se /\ \A f : EntrySlots(f)' = EntrySlots(f)
    BY <1>1, <1>5 DEF EntrySlots
  <2> QED
    BY <1>1, <1>2, <1>3, <1>4, <2>1 DEF IndInv
<1>6. CASE se[e] = NULL
  <2> DEFINE h == s.nlm
             a == AllocatedSlot(h)
  <2>1. /\ nlm' = nlm_alloc_page(h)
        /\ se' = [se EXCEPT ![e] = [cur |-> NewRef(h), snap |-> NewRef(h)]]
    BY <1>1, <1>6
  <2>2. /\ HandlerInv(nlm') /\ a \notin h.tree /\ nlm'.tree = h.tree \cup {a}
        /\ \A b \in h.tree : nlm'.pgoff[b] = h.pgoff[b]
    BY <1>2, <2>1, AllocPageKeeps
  <2>3. DOMAIN se' = Entries /\ EntrySlots(e)' = {a}
    BY <1>3, <2>1 DEF EntrySlots, NewRef, Ref
  <2>4. \A f \in Entries \ {e} : se'[f] = se[f] /\ EntrySlots(f)' = EntrySlots(f)
    BY <1>3, <2>1 DEF EntrySlots
  <2> HIDE DEF h, a
  <2>5. \A f \in Entries : se'[f] # NULL => EntrySlots(f)' \subseteq nlm'.tree \ Meta
    BY <1>4, <2>2, <2>3, <2>4 DEF h
  <2>6. ASSUME NEW f \in Entries, NEW g \in Entries,
               se'[f] # NULL, se'[g] # NULL, f # g
        PROVE  EntrySlots(f)' \cap EntrySlots(g)' = {}
    BY <1>3, <1>4, <2>2, <2>3, <2>4, <2>6 DEF h
  <2>7. /\ \A b \in MetaSlots : nlm'.pgoff[b] = b
        /\ nlm'.pgoff[s.sb.cur.m] = s.sb.cur.l /\ nlm'.pgoff[s.sb.snap.m] = s.sb.snap.l
        /\ MetaSlots \subseteq nlm'.tree
        /\ {s.sb.cur.m, s.sb.snap.m} \subseteq nlm'.tree \ MetaSlots
    BY <1>2, <1>3, <1>4, <2>2 DEF h
  <2> QED
    BY <1>1, <1>2, <2>2, <2>3, <2>5, <2>6, <2>7 DEF IndInv
<1> QED
  BY <1>5, <1>6

(* slab_entry_copynswap: the new page becomes the snapshot of the entry,   *)
(* and the swap of the new slot with itself changes nothing.               *)
LEMMA EntryCopyStep ==
    ASSUME IndInv, NEW e \in Entries, slab_entry_copynswap(e)
    PROVE  IndInv'
<1> DEFINE h == nlm_alloc_page(nlm)
           a == AllocatedSlot(nlm)
           p == AllocatedOffset(nlm)
<1>1. /\ se[e] # NULL /\ nlm' = nlm_swap_pages(h, a, se[e].snap.l, a, p) /\ sb' = sb
      /\ se' = [se EXCEPT ![e] = [cur  |-> Ref(se[e].cur.m, p),
                                  snap |-> Ref(a, se[e].snap.l)]]
  BY DEF slab_entry_copynswap, NewRef, Ref
<1>2. /\ HandlerInv(nlm) /\ DOMAIN se = Entries /\ MetaSlots \subseteq nlm.tree
      /\ \A b \in MetaSlots : nlm.pgoff[b] = b
      /\ {sb.cur.m, sb.snap.m} \subseteq nlm.tree \ MetaSlots
      /\ nlm.pgoff[sb.cur.m] = sb.cur.l /\ nlm.pgoff[sb.snap.m] = sb.snap.l
      /\ \A f \in Entries : se[f] # NULL =>
            EntrySlots(f) \subseteq nlm.tree \ (MetaSlots \cup {sb.cur.m, sb.snap.m})
      /\ \A f, g \in Entries : se[f] # NULL /\ se[g] # NULL /\ f # g =>
            EntrySlots(f) \cap EntrySlots(g) = {}
  BY DEF IndInv
<1>3. /\ HandlerInv(h) /\ a \notin nlm.tree /\ h.tree = nlm.tree \cup {a}
      /\ h.pgoff[a] = p /\ \A b \in nlm.tree : h.pgoff[b] = nlm.pgoff[b]
  BY <1>2, AllocPageKeeps
<1>4. EntrySlots(e)' = {se[e].cur.m, a} /\ DOMAIN se' = Entries
  BY <1>1, <1>2 DEF EntrySlots, Ref
<1>5. \A f \in Entries \ {e} : se'[f] = se[f] /\ EntrySlots(f)' = EntrySlots(f)
  BY <1>1, <1>2 DEF EntrySlots
<1> HIDE DEF h, a, p
<1>6. HandlerInv(nlm') /\ nlm'.tree = h.tree /\ nlm'.pgoff = h.pgoff
  <2>1. a \in h.tree /\ nlm' = nlm_swap_pages(h, a, se[e].snap.l, a, h.pgoff[a])
    BY <1>1, <1>3
  <2> QED
    BY <1>3, <2>1, SwapWithItself
<1>7. se[e].cur.m \in EntrySlots(e)
  BY DEF EntrySlots
<1>8. \A f \in Entries : se'[f] # NULL =>
            EntrySlots(f)' \subseteq nlm'.tree \ (MetaSlots \cup {sb.cur.m, sb.snap.m})
  BY <1>1, <1>2, <1>3, <1>4, <1>5, <1>6, <1>7
<1>9. ASSUME NEW f \in Entries, NEW g \in Entries, se'[f] # NULL, se'[g] # NULL, f # g
      PROVE  EntrySlots(f)' \cap EntrySlots(g)' = {}
  BY <1>1, <1>2, <1>3, <1>4, <1>5, <1>7, <1>9
<1>10. /\ \A b \in MetaSlots : nlm'.pgoff[b] = b
       /\ nlm'.pgoff[sb.cur.m] = sb.cur.l /\ nlm'.pgoff[sb.snap.m] = sb.snap.l
       /\ MetaSlots \subseteq nlm'.tree
       /\ {sb.cur.m, sb.snap.m} \subseteq nlm'.tree \ MetaSlots
  BY <1>2, <1>3, <1>6
<1> QED
  BY <1>1, <1>4, <1>6, <1>8, <1>9, <1>10 DEF IndInv

(* slab_cpoint: only the addresses of versions that it replaces leave the  *)
(* tree, and it finds each of them there.                                  *)
LEMMA CpointStep ==
    ASSUME IndInv, slab_cpoint
    PROVE  IndInv'
<1>1. /\ HandlerInv(nlm) /\ DOMAIN se = Entries /\ MetaSlots \subseteq nlm.tree
      /\ DOMAIN sb = {"cur", "snap", "has"} /\ sb.has \in BOOLEAN
      /\ \A b \in MetaSlots : nlm.pgoff[b] = b
      /\ sb.cur.m \in nlm.tree \ MetaSlots /\ sb.snap.m \in nlm.tree \ MetaSlots
      /\ nlm.pgoff[sb.cur.m] = sb.cur.l /\ nlm.pgoff[sb.snap.m] = sb.snap.l
      /\ (sb.has => sb.cur.m # sb.snap.m)
      /\ \A f \in Entries : se[f] # NULL =>
            EntrySlots(f) \subseteq nlm.tree \ (MetaSlots \cup {sb.cur.m, sb.snap.m})
      /\ \A f, g \in Entries : se[f] # NULL /\ se[g] # NULL /\ f # g =>
            EntrySlots(f) \cap EntrySlots(g) = {}
  BY DEF IndInv
<1>2. CASE ~sb.has
  <2>1. nlm' = nlm /\ se' = se /\ sb' = sb /\ \A f : EntrySlots(f)' = EntrySlots(f)
    BY <1>2 DEF slab_cpoint, EntrySlots
  <2> QED
    BY <1>1, <2>1 DEF IndInv
<1>3. CASE sb.has
  <2> DEFINE F == {se[e].snap.m : e \in Changed}
             h == FreeSnapshots(nlm)
  <2>1. /\ nlm' = nlm_free_pages(h, sb.snap.m)
        /\ se' = [e \in Entries |-> IF se[e] = NULL THEN NULL
                                    ELSE IF e \in Changed
                                    THEN [cur |-> se[e].cur, snap |-> se[e].cur]
                                    ELSE se[e]]
        /\ sb' = [cur |-> sb.cur, snap |-> sb.cur, has |-> FALSE]
    BY <1>3 DEF slab_cpoint, FreeBucketSnapshot
  <2>2. /\ \A e \in Changed : e \in Entries /\ se[e] # NULL /\ se[e].cur.m # se[e].snap.m
        /\ \A e \in Entries \ Changed : se[e] # NULL => se[e].cur.m = se[e].snap.m
    BY DEF Changed
  <2>3. \A e : se[e].cur.m \in EntrySlots(e) /\ se[e].snap.m \in EntrySlots(e)
    BY DEF EntrySlots
  <2>4. /\ \A e \in Changed : se[e].snap.m \in nlm.tree
        /\ \A e, f \in Changed : e # f => se[e].snap.m # se[f].snap.m
    BY <1>1, <2>2, <2>3
  <2>5. HandlerInv(h) /\ h.pgoff = nlm.pgoff /\ h.tree = nlm.tree \ F
    BY <1>1, <2>4, FreeSnapshotsKeeps
  <2>6. \A a \in F : a \notin MetaSlots \cup {sb.cur.m, sb.snap.m}
    BY <1>1, <2>2, <2>3
  <2> HIDE DEF h
  <2>7. sb.snap.m \in h.tree
    BY <1>1, <2>5, <2>6
  <2>8. HandlerInv(nlm') /\ nlm'.pgoff = nlm.pgoff /\ nlm'.tree = nlm.tree \ (F \cup {sb.snap.m})
    BY <2>1, <2>5, <2>7, FreePagesKeeps
  <2>9. /\ DOMAIN sb' = {"cur", "snap", "has"} /\ sb'.cur = sb.cur /\ sb'.snap = sb.cur
        /\ sb'.has = FALSE /\ DOMAIN se' = Entries
    BY <2>1
  <2>10. \A e \in Entries : se'[e] # NULL =>
            se[e] # NULL /\ EntrySlots(e)' = {se[e].cur.m}
    BY <2>1, <2>2 DEF EntrySlots
  <2>11. \A e \in Entries : se[e] # NULL => se[e].cur.m \notin F
    BY <1>1, <2>2, <2>3
  <2>12. \A e \in Entries : se'[e] # NULL =>
            EntrySlots(e)' \subseteq nlm'.tree \ (MetaSlots \cup {sb'.cur.m, sb'.snap.m})
    BY <1>1, <2>3, <2>8, <2>9, <2>10, <2>11
  <2>13. ASSUME NEW e \in Entries, NEW f \in Entries, se'[e] # NULL, se'[f] # NULL, e # f
         PROVE  EntrySlots(e)' \cap EntrySlots(f)' = {}
    BY <1>1, <2>3, <2>10, <2>13
  <2>14. /\ \A b \in MetaSlots : nlm'.pgoff[b] = b
         /\ MetaSlots \subseteq nlm'.tree
         /\ {sb'.cur.m, sb'.snap.m} \subseteq nlm'.tree \ MetaSlots
         /\ nlm'.pgoff[sb'.cur.m] = sb'.cur.l /\ nlm'.pgoff[sb'.snap.m] = sb'.snap.l
    BY <1>1, <1>3, <2>6, <2>8, <2>9
  <2> QED
    BY <2>8, <2>9, <2>12, <2>13, <2>14 DEF IndInv
<1> QED
  BY <1>1, <1>2, <1>3

(* The inductive invariant holds in every state. *)
THEOREM Invariance == Spec => []IndInv
<1>1. IndInv /\ [Next]_vars => IndInv'
  <2> SUFFICES ASSUME IndInv, [Next]_vars PROVE IndInv'
    OBVIOUS
  <2>1. ASSUME NEW e \in Entries, slab_palloc(e)
        PROVE  IndInv'
    BY <2>1, PallocStep
  <2>2. ASSUME NEW e \in Entries, slab_entry_copynswap(e)
        PROVE  IndInv'
    BY <2>2, EntryCopyStep
  <2>3. CASE slab_cpoint
    BY <2>3, CpointStep
  <2>4. CASE UNCHANGED vars
    BY <2>4 DEF vars, IndInv, EntrySlots
  <2> QED
    BY <2>1, <2>2, <2>3, <2>4 DEF Next
<1> QED
  BY IndInvInit, <1>1, PTL DEF Spec

-----------------------------------------------------------------------------
(* The properties *)

(* What the library writes at an address of the bucket is what a restore   *)
(* reads at the offset recorded for it.                                    *)
THEOREM BucketCorrect == Spec => []BucketMapped
<1>1. IndInv => BucketMapped
  BY DEF IndInv, HandlerInv, BucketMapped
<1> QED
  BY Invariance, <1>1, PTL

(* No page of the slab's tree can be handed out by the allocator. *)
THEOREM MetaCorrect == Spec => []NoMetaAvailable
<1>1. IndInv => NoMetaAvailable
  <2> SUFFICES ASSUME IndInv, NEW a \in SlotsIn(nlm.freeList)
               PROVE  nlm.pgoff[a] \notin MetaSlots \cup {sb.cur.l, sb.snap.l}
    BY DEF NoMetaAvailable
  <2>1. /\ nlm.tree = Pages(nlm.fileSize) \ SlotsIn(nlm.freeList)
        /\ IsInjective(nlm.pgoff) /\ DOMAIN nlm.pgoff = Pages(nlm.fileSize)
        /\ nlm.freeList \in Seq(Pages(nlm.fileSize))
    BY DEF IndInv, HandlerInv
  <2>2. a \in Pages(nlm.fileSize) /\ a \notin nlm.tree
    BY <2>1, LenProperties DEF SlotsIn
  <2>3. ASSUME NEW b \in nlm.tree
        PROVE  nlm.pgoff[a] # nlm.pgoff[b]
    BY <2>1, <2>2 DEF IsInjective
  <2>4. /\ MetaSlots \subseteq nlm.tree /\ \A b \in MetaSlots : nlm.pgoff[b] = b
        /\ sb.cur.m \in nlm.tree /\ sb.snap.m \in nlm.tree
        /\ nlm.pgoff[sb.cur.m] = sb.cur.l /\ nlm.pgoff[sb.snap.m] = sb.snap.l
    BY DEF IndInv
  <2> QED
    BY <2>3, <2>4
<1> QED
  BY Invariance, <1>1, PTL

(* Every address that the bucket or an entry refers to is in use: no       *)
(* checkpoint frees a page twice or ends in "page not found!".             *)
THEOREM AddressesCorrect == Spec => []AddressesInUse
<1>1. IndInv => AddressesInUse
  BY DEF IndInv, AddressesInUse, EntrySlots
<1> QED
  BY Invariance, <1>1, PTL
=============================================================================
