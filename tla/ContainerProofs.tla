-------------------------- MODULE ContainerProofs --------------------------
(***************************************************************************)
(* Safety of a container across allocations, copy-on-write, checkpoints,   *)
(* deaths of the process and restores, for every number of entries, every  *)
(* capacity of a page and every size of the file, growths included.        *)
(* IndInv is about which pages a bucket and its copy name.  Four smaller   *)
(* invariants rest on it: CpointInv and CleanInv (what a restore needs of  *)
(* the entries a checkpoint has committed), RoomInv (which entries of a    *)
(* list have room) and KeptInv (what the pages of the last checkpoint      *)
(* hold, as long as the file has not grown).                               *)
(***************************************************************************)
EXTENDS Container, FixedMapperOpsProofs, NaturalsInduction, WellFoundedInduction

-----------------------------------------------------------------------------
(* Numbers *)

(* A set of numbers with 0 that has n + 1 with every n below N reaches N.  *)
LEMMA SetInduction ==
    ASSUME NEW N \in Nat, NEW T, 0 \in T,
           \A n \in 0 .. N - 1 : n \in T => n + 1 \in T
    PROVE  \A n \in 0 .. N : n \in T
<1> DEFINE R == OpToRel(<, Nat)
           C == {n \in 0 .. N : n \notin T}
<1>1. IsWellFoundedOn(R, Nat)
  BY NatLessThanWellFounded, Zenon
<1>2. \A x, y \in Nat : x < y => <<x, y>> \in R
  BY DEF OpToRel
<1>3. C \subseteq Nat
  OBVIOUS
<1> HIDE DEF R
<1>4. ASSUME C # {} PROVE FALSE
  <2> HIDE DEF C
  <2>1. PICK n \in C : \A y \in C : ~(<<y, n>> \in R)
    BY <1>1, <1>3, <1>4, WFMin, Zenon
  <2>2. n \in 0 .. N /\ n \notin T
    BY <2>1 DEF C
  <2>3. n # 0
    BY <2>2
  <2>4. n - 1 \in 0 .. N - 1 /\ n - 1 \in 0 .. N /\ n - 1 < n /\ n - 1 + 1 = n
    BY <2>2, <2>3
  <2>5. n - 1 \notin C
    <3>1. n \in Nat /\ n - 1 \in Nat
      BY <2>2, <2>4
    <3>2. <<n - 1, n>> \in R
      BY <1>2, <2>4, <3>1
    <3> QED
      BY <2>1, <3>2, Zenon
  <2>6. n - 1 \in T
    BY <2>4, <2>5 DEF C
  <2> QED
    BY <2>2, <2>4, <2>6
<1> QED
  BY <1>4

(* A set of numbers that is not empty has a least one. *)
LEMMA LeastExists ==
    ASSUME NEW C \in SUBSET Nat, C # {}
    PROVE  \E i \in C : \A j \in C : i =< j
<1> DEFINE R == OpToRel(<, Nat)
<1>1. IsWellFoundedOn(R, Nat)
  BY NatLessThanWellFounded, Zenon
<1>2. \A x, y \in Nat : x < y => <<x, y>> \in R
  BY DEF OpToRel
<1> HIDE DEF R
<1>3. PICK i \in C : \A y \in C : ~(<<y, i>> \in R)
  BY <1>1, WFMin, Zenon
<1>4. ASSUME NEW j \in C PROVE i =< j
  <2>1. ~(j < i)
    BY <1>2, <1>3
  <2> QED
    BY <2>1
<1> QED
  BY <1>4

(* One that is bounded has a greatest one. *)
LEMMA GreatestExists ==
    ASSUME NEW N \in Nat, NEW C \in SUBSET (0 .. N - 1), C # {}
    PROVE  \E i \in C : \A j \in C : j =< i
<1> DEFINE D == {N - i : i \in C}
<1>1. D \in SUBSET Nat /\ D # {}
  <2>1. \A i \in C : N - i \in Nat
    OBVIOUS
  <2> QED
    BY <2>1
<1> HIDE DEF D
<1>2. PICK x \in D : \A y \in D : x =< y
  BY <1>1, LeastExists
<1>3. PICK i \in C : x = N - i
  BY <1>2 DEF D
<1>4. ASSUME NEW j \in C PROVE j =< i
  <2>1. N - j \in D
    BY DEF D
  <2>2. N - i =< N - j
    BY <1>2, <1>3, <2>1
  <2> QED
    BY <2>2
<1> QED
  BY <1>4

-----------------------------------------------------------------------------
(* Contents of pages *)

(* Whatever a page holds, reading it as a data page gives one. *)
LEMMA AsDataType ==
    ASSUME NEW c \in DataPage \cup BucketRec
    PROVE  AsData(c) \in DataPage /\ (c \in DataPage => AsData(c) = c)
<1>1. ZeroPage \in DataPage
  BY DEF ZeroPage, DataPage
<1>2. c \in DataPage => "hdr" \in DOMAIN c
  BY DEF DataPage
<1>3. c \in BucketRec => "hdr" \notin DOMAIN c
  BY DEF BucketRec
<1> QED
  BY <1>1, <1>2, <1>3 DEF AsData

(* The entries of a bucket have types, and those that are initialised name *)
(* pages.                                                                  *)
LEMMA GoodEntries ==
    ASSUME NEW b, NEW S, GoodBucket(b, S)
    PROVE  /\ b \in BucketRec /\ b.has \in BOOLEAN /\ PagesOf(b) \subseteq S
           /\ \A e \in Entries : b.se[e] \in EntryType
           /\ \A e \in InitEntries(b) : /\ e \in Entries /\ b.se[e].size \in Sizes /\ b.se[e].id = e
                                        /\ b.se[e].cur \in S /\ b.se[e].snap \in S
           /\ \A e \in Entries : e \notin InitEntries(b) =>
                 b.se[e].size = NULL /\ b.se[e].cur = NULL
<1>1. b \in BucketRec /\ b.has \in BOOLEAN /\ PagesOf(b) \subseteq S
      /\ \A e \in Entries : b.se[e] \in EntryType
  BY DEF GoodBucket, BucketRec
<1>2. ASSUME NEW e \in InitEntries(b)
      PROVE  /\ e \in Entries /\ b.se[e].size \in Sizes /\ b.se[e].id = e
             /\ b.se[e].cur \in S /\ b.se[e].snap \in S
  BY DEF GoodBucket, EntryOK, InitEntries, SLAB_ENTRY_IS_INIT, PagesOf
<1>3. ASSUME NEW e \in Entries, e \notin InitEntries(b)
      PROVE  b.se[e].size = NULL /\ b.se[e].cur = NULL
  BY <1>3 DEF InitEntries, SLAB_ENTRY_IS_INIT
<1> QED
  BY <1>1, <1>2, <1>3

(* Two initialised entries name different pages. *)
LEMMA Apart ==
    ASSUME NEW b, NEW S, GoodBucket(b, S), NEW e \in InitEntries(b), NEW f \in InitEntries(b),
           e # f
    PROVE  /\ b.se[f].cur # b.se[e].cur /\ b.se[f].cur # b.se[e].snap
           /\ b.se[f].snap # b.se[e].cur /\ b.se[f].snap # b.se[e].snap
<1>1. {b.se[e].cur, b.se[e].snap} \cap {b.se[f].cur, b.se[f].snap} = {}
  BY DEF GoodBucket
<1> QED
  BY <1>1

(* A bucket is as good with respect to any set that has its pages. *)
LEMMA Widen ==
    ASSUME NEW b, NEW S, GoodBucket(b, S), NEW T, PagesOf(b) \subseteq T
    PROVE  GoodBucket(b, T)
BY DEF GoodBucket

(* sb_has_snapshot is no concern of the entries. *)
LEMMA SetHas ==
    ASSUME NEW b, NEW S, GoodBucket(b, S), NEW v \in BOOLEAN
    PROVE  LET c == [b EXCEPT !.has = v]
           IN  /\ GoodBucket(c, S) /\ c.has = v /\ c.se = b.se
               /\ InitEntries(c) = InitEntries(b) /\ PagesOf(c) = PagesOf(b)
<1> DEFINE c == [b EXCEPT !.has = v]
<1>1. b \in BucketRec
  BY DEF GoodBucket
<1>2. c \in BucketRec /\ c.has = v /\ c.se = b.se
  BY <1>1 DEF BucketRec
<1> HIDE DEF c
<1>3. InitEntries(c) = InitEntries(b) /\ PagesOf(c) = PagesOf(b)
  BY <1>2 DEF InitEntries, PagesOf
<1> QED
  BY <1>2, <1>3 DEF GoodBucket, c

(* An entry is replaced by one whose pages no other entry names. *)
LEMMA ReplaceEntry ==
    ASSUME NEW b, NEW S, GoodBucket(b, S), NEW e \in Entries,
           NEW s \in EntryType, EntryOK(s, e), s.size \in Sizes,
           NEW T, s.cur \in T, s.snap \in T,
           \A f \in InitEntries(b) : f # e =>
               /\ b.se[f].cur \in T /\ b.se[f].snap \in T
               /\ {s.cur, s.snap} \cap {b.se[f].cur, b.se[f].snap} = {}
    PROVE  LET c == [b EXCEPT !.se[e] = s]
           IN  /\ GoodBucket(c, T) /\ c.has = b.has /\ c.se[e] = s
               /\ \A f \in Entries : f # e => c.se[f] = b.se[f]
               /\ InitEntries(c) = InitEntries(b) \cup {e}
<1> DEFINE c == [b EXCEPT !.se[e] = s]
<1>1. b \in BucketRec /\ \A f \in Entries : EntryOK(b.se[f], f)
  BY DEF GoodBucket
<1>2. /\ c \in BucketRec /\ c.has = b.has /\ c.se[e] = s
      /\ \A f \in Entries : f # e => c.se[f] = b.se[f]
  BY <1>1 DEF BucketRec
<1> HIDE DEF c
<1>3. SLAB_ENTRY_IS_INIT(s)
  BY NoSizeAssumption DEF SLAB_ENTRY_IS_INIT
<1>4. InitEntries(c) = InitEntries(b) \cup {e}
  BY <1>2, <1>3 DEF InitEntries
<1>5. \A f \in Entries : EntryOK(c.se[f], f)
  BY <1>1, <1>2
<1>6. \A f \in InitEntries(c) : c.se[f].cur \in T /\ c.se[f].snap \in T
  BY <1>2, <1>4 DEF InitEntries
<1>7. PagesOf(c) \subseteq T
  BY <1>6 DEF PagesOf
<1>8. ASSUME NEW f \in InitEntries(c), NEW g \in InitEntries(c), f # g
      PROVE  {c.se[f].cur, c.se[f].snap} \cap {c.se[g].cur, c.se[g].snap} = {}
  <2>0. f \in Entries /\ g \in Entries
    BY DEF InitEntries
  <2>1. CASE f = e
    BY <1>2, <1>4, <1>8, <2>0, <2>1
  <2>2. CASE g = e
    BY <1>2, <1>4, <1>8, <2>0, <2>2
  <2>3. CASE f # e /\ g # e
    BY <1>2, <1>4, <1>8, <2>0, <2>3 DEF GoodBucket
  <2> QED
    BY <2>1, <2>2, <2>3
<1> QED
  BY <1>2, <1>4, <1>5, <1>7, <1>8 DEF GoodBucket, c

-----------------------------------------------------------------------------
(* The file and the mapper *)

(* A bound on the number of a page is a bound on the page. *)
LEMMA MorePages ==
    ASSUME NEW m \in Nat, NEW n \in Nat, m =< n
    PROVE  Pages(m) \subseteq Pages(n)
BY DEF Pages

(* the pages in use that are not metadata *)
DataInUse(s, h) == InUse(h) \ (MetaPages \cup {s.cur, s.snap})

(* The pages m of a file, its bucket references s and its mapper h fit     *)
(* together.  While busy, a checkpoint frees pages that the copy of the    *)
(* bucket names.                                                           *)
Sound(m, s, h, busy) ==
    /\ m \in [Page -> DataPage \cup BucketRec]
    /\ HandlerInv(h, InUse(h)) /\ h.stSize =< MaxPages
    /\ s \in [cur : Page, snap : Page]
    /\ MetaPages \subseteq InUse(h)
    /\ s.cur \in InUse(h) \ MetaPages /\ s.snap \in InUse(h) \ MetaPages
    /\ GoodBucket(m[s.cur], DataInUse(s, h))
    /\ GoodBucket(m[s.snap], Pages(h.stSize) \ (MetaPages \cup {s.cur, s.snap}))
    /\ ~busy => GoodBucket(m[s.snap], DataInUse(s, h))

Busy == pc = "cpEntry" /\ Bucket.has

(* The pages in use are pages of the file. *)
LEMMA UsedPages ==
    ASSUME NEW h, HandlerInv(h, InUse(h)), h.stSize =< MaxPages
    PROVE  InUse(h) \subseteq Pages(h.stSize) /\ Pages(h.stSize) \subseteq Page
           /\ h.stSize \in Nat
BY MorePages, PagesAssumption DEF HandlerInv, Page

(* What the invariant says of a process that is up *)
LEMMA Running ==
    ASSUME IndInv, pc \notin Down
    PROVE  /\ ProcessType /\ CallInv /\ LiveInv
           /\ Sound(mem, si, fm, Busy)
           /\ Tracks(fm) /\ Bucket.has /\ pc # "cpHas" => si.cur # si.snap
           /\ Tracks(fm) => EntriesInOrder
           /\ si.cur # NULL
<1>1. /\ ProcessType /\ CallInv /\ LiveInv /\ FileInv /\ PagesInv
      /\ Tracks(fm) => EntriesInOrder
      /\ si.cur # NULL
  BY DEF IndInv, Down
<1>2. HandlerInv(fm, InUse(fm)) /\ fm.stSize =< MaxPages
  BY <1>1 DEF PagesInv, FileInv
<1>3. /\ InUse(fm) \subseteq Pages(fm.stSize) /\ Pages(fm.stSize) \subseteq Page
  BY <1>2, UsedPages
<1>4. /\ mem \in [Page -> DataPage \cup BucketRec]
      /\ si \in [cur : Page, snap : Page]
      /\ si.cur \notin MetaPages /\ si.snap \notin MetaPages
      /\ GoodBucket(mem[si.cur], DataPages) /\ GoodBucket(mem[si.snap], DataPages)
  BY <1>1, <1>3 DEF FileInv, Bucket, SnapshotBucket
<1>5. /\ MetaPages \subseteq InUse(fm) /\ si.cur \in InUse(fm) /\ si.snap \in InUse(fm)
      /\ PagesOf(mem[si.cur]) \subseteq InUse(fm)
      /\ ~Busy => PagesOf(mem[si.snap]) \subseteq InUse(fm)
  BY <1>1 DEF PagesInv, Held, Busy, Bucket, SnapshotBucket
<1>6. GoodBucket(mem[si.cur], DataInUse(si, fm))
  <2>1. PagesOf(mem[si.cur]) \subseteq DataInUse(si, fm)
    BY <1>4, <1>5, GoodEntries DEF DataInUse, DataPages
  <2> QED
    BY <1>4, <2>1, Widen
<1>7. ASSUME ~Busy PROVE GoodBucket(mem[si.snap], DataInUse(si, fm))
  <2>1. PagesOf(mem[si.snap]) \subseteq DataInUse(si, fm)
    BY <1>4, <1>5, <1>7, GoodEntries DEF DataInUse, DataPages
  <2> QED
    BY <1>4, <2>1, Widen
<1>8. Sound(mem, si, fm, Busy)
  BY <1>2, <1>4, <1>5, <1>6, <1>7 DEF Sound, DataPages
<1> QED
  BY <1>1, <1>8 DEF PagesInv

(* What has to be shown of a step that leaves the process up *)
LEMMA StillRunning ==
    ASSUME ProcessType', CallInv', LiveInv', pc' \notin Down,
           Sound(mem', si', fm', Busy'),
           Tracks(fm') /\ Bucket'.has /\ pc' # "cpHas" => si'.cur # si'.snap,
           Tracks(fm') => EntriesInOrder'
    PROVE  IndInv'
<1>1. HandlerInv(fm', InUse(fm')) /\ fm'.stSize =< MaxPages
  BY DEF Sound
<1>2. /\ InUse(fm') \subseteq Pages(fm'.stSize) /\ Pages(fm'.stSize) \subseteq Page
      /\ fm'.stSize \in Nat
  BY <1>1, UsedPages
<1>3. /\ mem' \in [Page -> DataPage \cup BucketRec]
      /\ si' \in [cur : Page, snap : Page] /\ MetaPages \subseteq InUse(fm')
      /\ si'.cur \in InUse(fm') \ MetaPages /\ si'.snap \in InUse(fm') \ MetaPages
      /\ GoodBucket(mem'[si'.cur], DataInUse(si', fm'))
      /\ GoodBucket(mem'[si'.snap], Pages(fm'.stSize) \ (MetaPages \cup {si'.cur, si'.snap}))
      /\ ~Busy' => GoodBucket(mem'[si'.snap], DataInUse(si', fm'))
  BY DEF Sound
<1>4. PagesOf(mem'[si'.cur]) \subseteq DataInUse(si', fm')
      /\ (~Busy' => PagesOf(mem'[si'.snap]) \subseteq DataInUse(si', fm'))
  BY <1>3, GoodEntries
<1>5. GoodBucket(mem'[si'.cur], Pages(fm'.stSize) \ (MetaPages \cup {si'.cur, si'.snap}))
  <2>1. PagesOf(mem'[si'.cur]) \subseteq Pages(fm'.stSize) \ (MetaPages \cup {si'.cur, si'.snap})
    BY <1>2, <1>4 DEF DataInUse
  <2> QED
    BY <1>3, <2>1, Widen
<1>6. FileInv'
  BY <1>1, <1>2, <1>3, <1>5 DEF FileInv, Bucket, SnapshotBucket, DataPages
<1>7. PagesInv'
  BY <1>1, <1>3, <1>4 DEF PagesInv, Held, Bucket, SnapshotBucket, DataInUse, Busy
<1>8. si'.cur # NULL
  BY <1>3, NullAssumption DEF Page, Pages
<1> QED
  BY <1>6, <1>7, <1>8 DEF IndInv

-----------------------------------------------------------------------------
(* Stores to data pages *)

(* the entry e of bucket b, with q as its snapshot page *)
WithSnapshot(b, e, q) == [b EXCEPT !.se[e] = [b.se[e] EXCEPT !.snap = q]]

(* Bucket c differs from b at most in snapshot pages. *)
SameEntries(b, c) ==
    /\ c.has = b.has /\ InitEntries(c) = InitEntries(b)
    /\ \A f \in Entries : /\ c.se[f].size = b.se[f].size /\ c.se[f].bm = b.se[f].bm
                          /\ c.se[f].cur = b.se[f].cur

(* the bitmaps after content was stored in the data page of e *)
BitmapsAfter(m, b, m2, b2, e, content) ==
    /\ \A f \in InitEntries(b) : f # e => BitmapOf(m2, b2, f) = BitmapOf(m, b, f)
    /\ BitmapOf(m2, b2, e) = IF b.se[e].size = "L" THEN b.se[e].bm ELSE content.hdr

(* The snapshot page of one entry changes, to a page no other entry names. *)
LEMMA SnapshotChanged ==
    ASSUME NEW b, NEW S, GoodBucket(b, S), NEW e \in InitEntries(b), NEW q \in Page, NEW T,
           q \in T, b.se[e].cur \in T,
           \A f \in InitEntries(b) : f # e =>
               /\ b.se[f].cur \in T /\ b.se[f].snap \in T
               /\ q # b.se[f].cur /\ q # b.se[f].snap
    PROVE  /\ GoodBucket(WithSnapshot(b, e, q), T) /\ SameEntries(b, WithSnapshot(b, e, q))
           /\ WithSnapshot(b, e, q) \in BucketRec
           /\ PagesOf(WithSnapshot(b, e, q)) \subseteq T
<1> DEFINE s == [b.se[e] EXCEPT !.snap = q]
           c == WithSnapshot(b, e, q)
<1>1. /\ e \in Entries /\ b.se[e] \in EntryType /\ b.se[e].size \in Sizes
      /\ b.se[e].id = e
  BY GoodEntries
<1>2. /\ s \in EntryType /\ s.size = b.se[e].size /\ s.id = b.se[e].id /\ s.bm = b.se[e].bm
      /\ s.cur = b.se[e].cur /\ s.snap = q
  BY <1>1 DEF EntryType
<1> HIDE DEF s
<1>3. b.se[e].cur # NULL /\ q # NULL
  <2>1. EntryOK(b.se[e], e)
    BY <1>1 DEF GoodBucket
  <2> QED
    BY <1>1, <2>1, NoSizeAssumption, NullAssumption DEF EntryOK, Page, Pages
<1>4. EntryOK(s, e)
  BY <1>1, <1>2, <1>3 DEF EntryOK
<1>5. \A f \in InitEntries(b) : f # e =>
          {s.cur, s.snap} \cap {b.se[f].cur, b.se[f].snap} = {}
  BY <1>2 DEF GoodBucket
<1>6. c = [b EXCEPT !.se[e] = s]
  BY DEF WithSnapshot, s
<1> HIDE DEF c
<1>7. /\ GoodBucket(c, T) /\ c.has = b.has /\ c.se[e] = s
      /\ \A f \in Entries : f # e => c.se[f] = b.se[f]
      /\ InitEntries(c) = InitEntries(b) \cup {e}
  BY <1>1, <1>2, <1>4, <1>5, <1>6, ReplaceEntry
<1>8. SameEntries(b, c)
  BY <1>2, <1>7 DEF SameEntries
<1> QED
  BY <1>7, <1>8, GoodEntries DEF c

(* A store to a data page that is writable *)
LEMMA WrittenInPlace ==
    ASSUME NEW m, NEW s, NEW h, Sound(m, s, h, FALSE),
           NEW e \in InitEntries(m[s.cur]), NEW content \in DataPage
    PROVE  LET m2 == [m EXCEPT ![m[s.cur].se[e].cur] = content]
           IN  /\ Sound(m2, s, h, FALSE)
               /\ SameEntries(m[s.cur], m2[s.cur])
               /\ m2[s.cur] = m[s.cur] /\ m2[s.snap] = m[s.snap]
               /\ BitmapsAfter(m, m[s.cur], m2, m2[s.cur], e, content)
<1> DEFINE b == m[s.cur]
           d == b.se[e].cur
           m2 == [m EXCEPT ![d] = content]
<1>1. /\ m \in [Page -> DataPage \cup BucketRec] /\ s.cur \in Page /\ s.snap \in Page
      /\ GoodBucket(b, DataInUse(s, h)) /\ InUse(h) \subseteq Page
  BY UsedPages DEF Sound
<1>2. d \in InUse(h) /\ d # s.cur /\ d # s.snap /\ e \in Entries
  BY <1>1, GoodEntries DEF DataInUse
<1>3. /\ m2 \in [Page -> DataPage \cup BucketRec] /\ m2[s.cur] = m[s.cur] /\ m2[s.snap] = m[s.snap]
      /\ m2[d] = content /\ \A p \in Page : p # d => m2[p] = m[p]
  BY <1>1, <1>2
<1> HIDE DEF m2
<1>4. Sound(m2, s, h, FALSE)
  BY <1>3 DEF Sound
<1>5. SameEntries(m[s.cur], m2[s.cur])
  BY <1>3 DEF SameEntries
<1>6. ASSUME NEW f \in InitEntries(b), f # e
      PROVE  b.se[f].cur # d /\ b.se[f].cur \in Page
  <2>1. b.se[f].cur # d
    BY <1>1, <1>6, Apart
  <2>2. b.se[f].cur \in DataInUse(s, h)
    BY <1>1, GoodEntries
  <2> QED
    BY <1>1, <2>1, <2>2 DEF DataInUse
<1>7. AsData(content) = content
  BY AsDataType
<1>8. BitmapsAfter(m, b, m2, b, e, content)
  BY <1>3, <1>6, <1>7 DEF BitmapsAfter, BitmapOf
<1> QED
  BY <1>3, <1>4, <1>5, <1>8 DEF m2

(* A store to a data page that faults: the page is copied to a new one,    *)
(* which becomes the snapshot page of the entry, and made writable.        *)
LEMMA WrittenAfterFault ==
    ASSUME NEW m, NEW s, NEW h, Sound(m, s, h, FALSE), CanAlloc(h), ~AllocDies(h),
           NEW e \in InitEntries(m[s.cur]), NEW content \in DataPage
    PROVE  LET b == m[s.cur]
               q == AllocatedPage(h)
               m1 == [m EXCEPT ![q] = AsData(m[b.se[e].cur]), ![s.cur].se[e].snap = q]
               m2 == [m1 EXCEPT ![b.se[e].cur] = content]
               g == page_allocator_mprotect_generic(fixed_mapper_alloc_page(h, "W"),
                                                    b.se[e].cur, "W")
           IN  /\ Sound(m2, s, g, FALSE) /\ Tracks(g) /\ Tracks(h)
               /\ SameEntries(b, m2[s.cur])
               /\ BitmapsAfter(m, b, m2, m2[s.cur], e, content)
<1> DEFINE b == m[s.cur]
           d == b.se[e].cur
           q == AllocatedPage(h)
           c == WithSnapshot(b, e, q)
           m1 == [m EXCEPT ![q] = AsData(m[d]), ![s.cur].se[e].snap = q]
           m2 == [m1 EXCEPT ![d] = content]
           k == fixed_mapper_alloc_page(h, "W")
           g == page_allocator_mprotect_generic(k, d, "W")
<1>1. /\ m \in [Page -> DataPage \cup BucketRec] /\ s.cur \in Page /\ s.snap \in Page
      /\ s \in [cur : Page, snap : Page]
      /\ HandlerInv(h, InUse(h)) /\ h.stSize =< MaxPages
      /\ MetaPages \subseteq InUse(h)
      /\ s.cur \in InUse(h) \ MetaPages /\ s.snap \in InUse(h) \ MetaPages
      /\ GoodBucket(b, DataInUse(s, h)) /\ GoodBucket(m[s.snap], DataInUse(s, h))
      /\ InUse(h) \subseteq Page
  BY UsedPages DEF Sound
<1>2. /\ HandlerInv(k, InUse(k)) /\ Tracks(h) /\ Tracks(k) /\ q \notin InUse(h)
      /\ q \in Pages(k.stSize) /\ InUse(k) = InUse(h) \cup {q} /\ k.stSize =< MaxPages
  <2>1. "W" \in Prot
    BY DEF Prot
  <2> QED
    BY <1>1, <2>1, AllocTakes
<1> HIDE DEF k, q
<1>3. /\ HandlerInv(g, InUse(g)) /\ InUse(g) = InUse(k) /\ Tracks(g) /\ g.stSize = k.stSize
  <2>1. "W" \in Prot
    BY DEF Prot
  <2> QED
    BY <1>2, <2>1, MprotectIsProt
<1> HIDE DEF g
<1>4. InUse(g) = InUse(h) \cup {q} /\ g.stSize =< MaxPages /\ InUse(g) \subseteq Pages(g.stSize)
      /\ q \in Page
  BY <1>2, <1>3, UsedPages
<1>5. /\ d \in InUse(h) /\ d # s.cur /\ d # s.snap /\ d \notin MetaPages /\ e \in Entries
      /\ q # d /\ q # s.cur /\ q # s.snap /\ q \notin MetaPages
  BY <1>1, <1>2, GoodEntries DEF DataInUse
<1>6. DataInUse(s, g) = DataInUse(s, h) \cup {q}
  BY <1>4, <1>5 DEF DataInUse
<1>7. /\ GoodBucket(c, DataInUse(s, g)) /\ SameEntries(b, c) /\ c \in BucketRec
      /\ PagesOf(c) \subseteq DataInUse(s, g)
  <2>1. \A f \in InitEntries(b) : /\ b.se[f].cur \in DataInUse(s, h)
                                  /\ b.se[f].snap \in DataInUse(s, h)
    BY <1>1, GoodEntries
  <2>2. q \notin DataInUse(s, h)
    BY <1>2 DEF DataInUse
  <2> QED
    BY <1>1, <1>4, <1>6, <2>1, <2>2, SnapshotChanged
<1>8. /\ m2 \in [Page -> DataPage \cup BucketRec]
      /\ m2[s.cur] = c /\ (s.snap # s.cur => m2[s.snap] = m[s.snap])
      /\ m2[d] = content /\ \A p \in Page : p \notin {d, q, s.cur} => m2[p] = m[p]
  <2>1. b \in BucketRec
    BY <1>1, GoodEntries
  <2>2. AsData(m[d]) \in DataPage
    BY <1>1, <1>5, AsDataType
  <2>3. /\ m1[s.cur] = [b EXCEPT !.se[e].snap = q] /\ DOMAIN m1 = Page
        /\ m1[q] = AsData(m[d]) /\ \A p \in Page : p \notin {q, s.cur} => m1[p] = m[p]
    BY <1>1, <1>4, <1>5
  <2>4. [b EXCEPT !.se[e].snap = q] = c
    BY DEF WithSnapshot
  <2> HIDE DEF m1, c
  <2>5. m1 \in [Page -> DataPage \cup BucketRec]
    <3>1. m1 = [p \in Page |-> m1[p]]
      BY <1>1 DEF m1
    <3>2. \A p \in Page : m1[p] \in DataPage \cup BucketRec
      BY <1>1, <1>7, <2>2, <2>3, <2>4
    <3> QED
      BY <3>1, <3>2
  <2> QED
    BY <1>1, <1>5, <2>3, <2>4, <2>5
<1> HIDE DEF m2, c
<1>9. Sound(m2, s, g, FALSE)
  <2>1. GoodBucket(m2[s.snap], DataInUse(s, g))
    <3>1. CASE s.snap = s.cur
      BY <1>7, <1>8, <3>1
    <3>2. CASE s.snap # s.cur
      <4>1. PagesOf(m[s.snap]) \subseteq DataInUse(s, g)
        BY <1>1, <1>6, GoodEntries
      <4> QED
        BY <1>1, <1>8, <3>2, <4>1, Widen
    <3> QED
      BY <3>1, <3>2
  <2>2. DataInUse(s, g) \subseteq Pages(g.stSize) \ (MetaPages \cup {s.cur, s.snap})
    BY <1>4 DEF DataInUse
  <2>3. GoodBucket(m2[s.snap], Pages(g.stSize) \ (MetaPages \cup {s.cur, s.snap}))
    <3>1. PagesOf(m2[s.snap]) \subseteq Pages(g.stSize) \ (MetaPages \cup {s.cur, s.snap})
      BY <2>1, <2>2, GoodEntries
    <3> QED
      BY <2>1, <3>1, Widen
  <2> QED
    BY <1>1, <1>3, <1>4, <1>5, <1>7, <1>8, <2>1, <2>3 DEF Sound
<1>10. ASSUME NEW f \in InitEntries(b), f # e
       PROVE  b.se[f].cur \notin {d, q, s.cur} /\ b.se[f].cur \in Page /\ f \in Entries
  <2>1. b.se[f].cur # d
    BY <1>1, <1>10, Apart
  <2>2. b.se[f].cur \in DataInUse(s, h) /\ f \in Entries
    BY <1>1, GoodEntries
  <2> QED
    BY <1>1, <1>2, <2>1, <2>2 DEF DataInUse
<1>11. AsData(content) = content
  BY AsDataType
<1>12. BitmapsAfter(m, b, m2, c, e, content)
  <2>1. ASSUME NEW f \in InitEntries(b), f # e
        PROVE  BitmapOf(m2, c, f) = BitmapOf(m, b, f)
    <3>1. m2[b.se[f].cur] = m[b.se[f].cur] /\ f \in Entries
      BY <1>8, <1>10, <2>1
    <3> QED
      BY <1>7, <3>1 DEF BitmapOf, SameEntries
  <2>2. BitmapOf(m2, c, e) = IF b.se[e].size = "L" THEN b.se[e].bm ELSE content.hdr
    <3>1. c.se[e].size = b.se[e].size /\ c.se[e].bm = b.se[e].bm /\ c.se[e].cur = d
      BY <1>5, <1>7 DEF SameEntries
    <3> HIDE DEF d, b
    <3> QED
      BY <1>8, <1>11, <3>1 DEF BitmapOf
  <2> QED
    BY <2>1, <2>2 DEF BitmapsAfter
<1> QED
  BY <1>2, <1>3, <1>7, <1>8, <1>9, <1>12 DEF m2, m1, g, k, q

-----------------------------------------------------------------------------
(* What a step that leaves a part of the state alone carries over *)

(* The objects of the application, when no bit is cleared *)
LEMMA CarryLive ==
    ASSUME LiveInv, live' = live, handed' = handed,
           InitEntries(Bucket) \subseteq InitEntries(Bucket'),
           \A f \in InitEntries(Bucket) :
               BitmapOf(mem, Bucket, f) \subseteq BitmapOf(mem', Bucket', f)
    PROVE  LiveInv'
<1>1. ASSUME NEW o \in live'
      PROVE  o[1] \in InitEntries(Bucket') /\ o[2] \in Bitmap(o[1])'
  <2>1. o[1] \in InitEntries(Bucket) /\ o[2] \in BitmapOf(mem, Bucket, o[1])
    BY DEF LiveInv, Bitmap, BitmapOf, SE
  <2>2. o[1] \in InitEntries(Bucket') /\ o[2] \in BitmapOf(mem', Bucket', o[1])
    BY <2>1
  <2> QED
    BY <2>2 DEF Bitmap, BitmapOf, SE
<1> QED
  BY <1>1 DEF LiveInv

(* The order of initialisation, outside slab_palloc *)
LEMMA CarryOrder ==
    ASSUME EntriesInOrder, nextId' = nextId, freeEntries' = freeEntries,
           InitEntries(Bucket') = InitEntries(Bucket),
           pc # "pallocInit", pc' # "pallocInit"
    PROVE  EntriesInOrder'
BY DEF EntriesInOrder

-----------------------------------------------------------------------------
(* The steps of a process that is up *)

(* A store of the application, with the fault it may take *)
LEMMA WriteKeeps ==
    ASSUME IndInv, NEW e \in Entries, AppWrite(e)
    PROVE  IndInv'
<1>0. pc = "run" /\ pc' = "run" /\ pc \notin Down /\ si' = si
  BY DEF AppWrite, Down
<1>1. /\ ProcessType /\ CallInv /\ LiveInv
      /\ Sound(mem, si, fm, FALSE)
      /\ Tracks(fm) /\ Bucket.has => si.cur # si.snap
      /\ Tracks(fm) => EntriesInOrder
  <2>1. Busy = FALSE
    BY <1>0 DEF Busy
  <2> QED
    BY <1>0, <2>1, Running
<1>2. e \in InitEntries(Bucket)
  <2>1. PICK slot : <<e, slot>> \in live
    BY DEF AppWrite
  <2> QED
    BY <1>1, <2>1 DEF LiveInv
<1>3. PICK content \in AppContent(e) :
        IF Faults(e)
        THEN /\ handle_memory_update(e)
             /\ mem' = StoreData(slab_entry_snapshot(e), e, content)
        ELSE /\ mem' = StoreData(mem, e, content)
             /\ UNCHANGED <<fm, vec>>
  BY DEF AppWrite
<1>4. /\ content \in DataPage
      /\ SE(e).size # "L" => content.hdr = BitmapOf(mem, Bucket, e)
  <2>1. SE(e).size \in Sizes /\ mem[SE(e).cur] \in DataPage \cup BucketRec
    <3>1. GoodBucket(Bucket, DataInUse(si, fm)) /\ InUse(fm) \subseteq Page
          /\ mem \in [Page -> DataPage \cup BucketRec]
      BY <1>1, UsedPages DEF Sound, Bucket
    <3>2. SE(e).size \in Sizes /\ SE(e).cur \in DataInUse(si, fm)
      BY <1>2, <3>1, GoodEntries DEF SE
    <3> QED
      BY <3>1, <3>2 DEF DataInUse
  <2>2. AsData(mem[SE(e).cur]) \in DataPage
    BY <2>1, AsDataType
  <2>3. CASE SE(e).size = "L"
    BY <2>3 DEF AppContent, DataPage
  <2>4. CASE SE(e).size # "L"
    <3>1. Bitmap(e) = AsData(mem[SE(e).cur]).hdr /\ Bitmap(e) = BitmapOf(mem, Bucket, e)
      BY <2>4 DEF Bitmap, BitmapOf, SE
    <3>2. Bitmap(e) \in SUBSET Slots("S")
      BY <2>2, <3>1 DEF DataPage
    <3> QED
      BY <2>4, <3>1, <3>2 DEF AppContent, DataPage
  <2> QED
    BY <2>3, <2>4
<1>5. /\ Sound(mem', si, fm', FALSE) /\ (Tracks(fm') => Tracks(fm))
      /\ SameEntries(Bucket, Bucket')
      /\ BitmapsAfter(mem, Bucket, mem', Bucket', e, content)
      /\ vec' \in Seq(Entries)
  <2>1. CASE ~Faults(e)
    <3>1. mem' = [mem EXCEPT ![mem[si.cur].se[e].cur] = content] /\ fm' = fm /\ vec' = vec
      BY <1>3, <2>1 DEF StoreData, SE, Bucket
    <3> QED
      BY <1>0, <1>1, <1>2, <1>4, <3>1, WrittenInPlace DEF Bucket, ProcessType
  <2>2. CASE Faults(e)
    <3>1. handle_memory_update(e) /\ mem' = StoreData(slab_entry_snapshot(e), e, content)
      BY <1>3, <2>2
    <3>2. vec' \in Seq(Entries)
      BY <1>1, <3>1 DEF handle_memory_update, ProcessType
    <3> QED
      BY <1>0, <1>1, <1>2, <1>4, <3>1, <3>2, WrittenAfterFault
      DEF handle_memory_update, slab_entry_snapshot, StoreData, SnapshotPage, SE, Bucket
  <2> QED
    BY <2>1, <2>2
<1>6. /\ live' = live /\ handed' = handed /\ es' = es /\ nextId' = nextId /\ op' = op
      /\ freeEntries' = freeEntries /\ flags' = flags /\ buffer' \in {buffer, "own"}
      /\ dirty' = TRUE
  BY DEF AppWrite, handle_memory_update
<1>7. InitEntries(Bucket') = InitEntries(Bucket) /\ Bucket'.has = Bucket.has
  BY <1>5 DEF SameEntries
<1>8. LiveInv'
  <2>1. ASSUME NEW f \in InitEntries(Bucket)
        PROVE  BitmapOf(mem, Bucket, f) \subseteq BitmapOf(mem', Bucket', f)
    <3>1. CASE f # e
      BY <1>5, <3>1 DEF BitmapsAfter
    <3>2. CASE f = e
      BY <1>4, <1>5, <3>2 DEF BitmapsAfter, BitmapOf, SE
    <3> QED
      BY <3>1, <3>2
  <2> QED
    BY <1>1, <1>6, <1>7, <2>1, CarryLive
<1>9. Tracks(fm') => EntriesInOrder'
  BY <1>0, <1>1, <1>5, <1>6, <1>7, CarryOrder
<1>10. CallInv'
  BY <1>0, <1>1, <1>6, <1>7 DEF CallInv, InCpoint
<1>11. ProcessType'
  BY <1>0, <1>1, <1>5, <1>6 DEF ProcessType
<1>12. Busy' = FALSE
  BY <1>0 DEF Busy
<1> QED
  BY <1>0, <1>1, <1>5, <1>7, <1>8, <1>9, <1>10, <1>11, <1>12, StillRunning

(* bit_ffc of an initialised entry is a slot whose bit is clear. *)
LEMMA FirstClearBit ==
    ASSUME NEW e \in Entries, SE(e).size \in Sizes, bit_ffc(e) # NULL
    PROVE  bit_ffc(e) \in Slots(SE(e).size) \ Bitmap(e)
<1> DEFINE clear == Slots(SE(e).size) \ Bitmap(e)
<1>1. clear \subseteq Nat /\ clear # {}
  BY CapacityAssumption DEF bit_ffc, Slots
<1>2. \E i \in clear : \A j \in clear : i =< j
  <2> HIDE DEF clear
  <2> QED
    BY <1>1, LeastExists
<1>3. bit_ffc(e) = CHOOSE i \in clear : \A j \in clear : i =< j
  BY <1>1 DEF bit_ffc
<1> HIDE DEF clear
<1>4. bit_ffc(e) \in clear
  BY <1>2, <1>3
<1> QED
  BY <1>4 DEF clear

(* slab_entry_alloc_mem: the bit of the object is set, in the slab entry   *)
(* or in the data page, with the fault that the store may take.            *)
LEMMA AllocMemKeeps ==
    ASSUME IndInv, slab_entry_alloc_mem
    PROVE  IndInv'
<1> DEFINE e == op.e
           idx == bit_ffc(e)
           b == Bucket
           data == AsData(mem[SE(e).cur])
           marked == [data EXCEPT !.hdr = @ \cup {idx}]
<1>0. pc = "pallocMem" /\ pc' = "run" /\ pc \notin Down /\ si' = si /\ pc' \notin Down
  BY DEF slab_entry_alloc_mem, Down
<1>1. /\ ProcessType /\ CallInv /\ LiveInv
      /\ Sound(mem, si, fm, FALSE)
      /\ Tracks(fm) /\ Bucket.has => si.cur # si.snap
      /\ Tracks(fm) => EntriesInOrder
      /\ e \in InitEntries(b) /\ si.cur # si.snap
  <2>1. Busy = FALSE
    BY <1>0 DEF Busy
  <2>2. /\ ProcessType /\ CallInv /\ LiveInv /\ Sound(mem, si, fm, Busy)
        /\ Tracks(fm) /\ Bucket.has => si.cur # si.snap
        /\ Tracks(fm) => EntriesInOrder
    BY <1>0, Running
  <2>3. e \in InitEntries(b) /\ si.cur # si.snap
    BY <1>0, <2>2 DEF CallInv
  <2> QED
    BY <2>1, <2>2, <2>3
<1>2. /\ GoodBucket(b, DataInUse(si, fm)) /\ InUse(fm) \subseteq Page
      /\ mem \in [Page -> DataPage \cup BucketRec] /\ si.cur \in Page /\ si.snap \in Page
  BY <1>1, UsedPages DEF Sound, Bucket
<1>3. /\ e \in Entries /\ SE(e).size \in Sizes /\ SE(e) \in EntryType /\ SE(e).id = e
      /\ SE(e).cur \in DataInUse(si, fm) /\ SE(e).snap \in DataInUse(si, fm)
  BY <1>1, <1>2, GoodEntries DEF SE
<1>4. data \in DataPage
  BY <1>2, <1>3, AsDataType DEF DataInUse
<1>5. /\ es' = es /\ nextId' = nextId /\ op' = NoOp /\ freeEntries' = freeEntries
      /\ flags' = flags /\ buffer' \in {buffer, "own"} /\ dirty' = dirty
  BY DEF slab_entry_alloc_mem, handle_memory_update
<1>6. Bitmap(e) = BitmapOf(mem, b, e)
  BY DEF Bitmap, BitmapOf, SE
<1>7. /\ Sound(mem', si, fm', FALSE) /\ (Tracks(fm') => Tracks(fm))
      /\ Bucket'.has = b.has /\ InitEntries(Bucket') = InitEntries(b)
      /\ \A f \in InitEntries(b) : f # e => BitmapOf(mem', Bucket', f) = BitmapOf(mem, b, f)
      /\ idx = NULL => BitmapOf(mem', Bucket', e) = BitmapOf(mem, b, e)
      /\ idx # NULL => BitmapOf(mem', Bucket', e) = BitmapOf(mem, b, e) \cup {idx}
      /\ vec' \in Seq(Entries)
  <2>1. CASE idx = NULL
    <3>1. mem' = mem /\ fm' = fm /\ vec' = vec
      BY <2>1 DEF slab_entry_alloc_mem
    <3> QED
      BY <1>0, <1>1, <2>1, <3>1 DEF Bucket, ProcessType
  <2>2. CASE idx # NULL /\ SE(e).size = "L"
    <3>1. mem' = [mem EXCEPT ![si.cur].se[e].bm = @ \cup {idx}] /\ fm' = fm /\ vec' = vec
      BY <2>2 DEF slab_entry_alloc_mem
    <3> DEFINE s == [SE(e) EXCEPT !.bm = @ \cup {idx}]
               c == [b EXCEPT !.se[e] = s]
    <3>2. idx \in Slots("L")
      BY <1>3, <2>2, FirstClearBit
    <3>3. /\ s \in EntryType /\ s.size = "L" /\ s.id = e /\ s.cur = SE(e).cur
          /\ s.snap = SE(e).snap /\ s.bm = SE(e).bm \cup {idx}
      BY <1>3, <2>2, <3>2 DEF EntryType
    <3>4. EntryOK(s, e)
      <4>1. EntryOK(SE(e), e)
        BY <1>2, <1>3 DEF GoodBucket, SE
      <4> QED
        BY <1>3, <3>3, <4>1, NoSizeAssumption DEF EntryOK, Sizes
    <3> HIDE DEF s
    <3>5. \A f \in InitEntries(b) : f # e =>
              /\ b.se[f].cur \in DataInUse(si, fm) /\ b.se[f].snap \in DataInUse(si, fm)
              /\ {s.cur, s.snap} \cap {b.se[f].cur, b.se[f].snap} = {}
      BY <1>1, <1>2, <3>3, Apart, GoodEntries DEF SE
    <3>6. /\ GoodBucket(c, DataInUse(si, fm)) /\ c.has = b.has /\ c.se[e] = s
          /\ \A f \in Entries : f # e => c.se[f] = b.se[f]
          /\ InitEntries(c) = InitEntries(b) \cup {e}
      <4>1. s.size \in Sizes /\ s.cur \in DataInUse(si, fm) /\ s.snap \in DataInUse(si, fm)
        BY <1>3, <3>3 DEF Sizes
      <4> DEFINE T == DataInUse(si, fm)
      <4>2. GoodBucket(b, T) /\ e \in Entries /\ s \in EntryType
        BY <1>2, <1>3, <3>3
      <4>3. s.cur \in T /\ s.snap \in T /\ s.size \in Sizes
        BY <4>1
      <4>4. \A f \in InitEntries(b) : f # e =>
                /\ b.se[f].cur \in T /\ b.se[f].snap \in T
                /\ {s.cur, s.snap} \cap {b.se[f].cur, b.se[f].snap} = {}
        BY <3>5
      <4> HIDE DEF b, e, T
      <4> QED
        BY <3>4, <4>2, <4>3, <4>4, ReplaceEntry DEF T
    <3>7. /\ mem' = [mem EXCEPT ![si.cur] = c]
      BY <1>2, <3>1 DEF s, SE, Bucket
    <3> HIDE DEF c
    <3>8. /\ mem' \in [Page -> DataPage \cup BucketRec] /\ mem'[si.cur] = c
          /\ \A p \in Page : p # si.cur => mem'[p] = mem[p]
      BY <1>2, <3>6, <3>7, GoodEntries
    <3>9. Sound(mem', si, fm', FALSE)
      <4>1. mem'[si.snap] = mem[si.snap]
        BY <1>1, <1>2, <3>8
      <4> QED
        BY <1>1, <3>1, <3>6, <3>8, <4>1 DEF Sound
    <3>10. Bucket' = c
      BY <1>0, <3>8 DEF Bucket
    <3>11. BitmapOf(mem', c, e) = BitmapOf(mem, b, e) \cup {idx}
      BY <2>2, <3>3, <3>6 DEF BitmapOf, SE
    <3>12. ASSUME NEW f \in InitEntries(b), f # e
           PROVE  BitmapOf(mem', c, f) = BitmapOf(mem, b, f)
      <4>1. b.se[f].cur \in DataInUse(si, fm) /\ f \in Entries
        BY <1>2, GoodEntries
      <4>2. mem'[b.se[f].cur] = mem[b.se[f].cur]
        BY <1>2, <3>8, <4>1 DEF DataInUse
      <4>3. c.se[f] = b.se[f]
        BY <3>6, <3>12, <4>1
      <4> QED
        BY <4>2, <4>3 DEF BitmapOf
    <3> QED
      BY <1>1, <2>2, <3>1, <3>6, <3>9, <3>10, <3>11, <3>12 DEF ProcessType
  <2>3. CASE idx # NULL /\ SE(e).size = "S"
    <3>1. idx \in Slots("S")
      BY <1>3, <2>3, FirstClearBit
    <3>2. marked \in DataPage /\ marked.hdr = BitmapOf(mem, b, e) \cup {idx}
      BY <1>4, <2>3, <3>1 DEF DataPage, BitmapOf, SE
    <3>3. /\ Sound(mem', si, fm', FALSE) /\ (Tracks(fm') => Tracks(fm))
          /\ SameEntries(Bucket, Bucket')
          /\ BitmapsAfter(mem, Bucket, mem', Bucket', e, marked)
          /\ vec' \in Seq(Entries)
      <4>1. CASE ~Faults(e)
        <5>1. mem' = StoreData(mem, e, marked) /\ fm' = fm /\ vec' = vec
          BY <2>3, <4>1 DEF slab_entry_alloc_mem
        <5> HIDE DEF marked, e
        <5>2. mem' = [mem EXCEPT ![mem[si.cur].se[e].cur] = marked] /\ fm' = fm /\ vec' = vec
          BY <5>1 DEF StoreData, SE, Bucket
        <5> QED
          BY <1>0, <1>1, <3>2, <5>2, WrittenInPlace DEF Bucket, ProcessType
      <4>2. CASE Faults(e)
        <5>1. handle_memory_update(e) /\ mem' = StoreData(slab_entry_snapshot(e), e, marked)
          BY <2>3, <4>2 DEF slab_entry_alloc_mem
        <5> HIDE DEF marked, e
        <5>2. vec' \in Seq(Entries)
          BY <1>1, <1>3, <5>1 DEF handle_memory_update, ProcessType
        <5>3. /\ CanAlloc(fm) /\ ~AllocDies(fm)
              /\ fm' = page_allocator_mprotect_generic(fixed_mapper_alloc_page(fm, "W"),
                                                       mem[si.cur].se[e].cur, "W")
          BY <5>1 DEF handle_memory_update, SE, Bucket
        <5>4. mem' = [[mem EXCEPT ![AllocatedPage(fm)] = AsData(mem[mem[si.cur].se[e].cur]),
                                  ![si.cur].se[e].snap = AllocatedPage(fm)]
                          EXCEPT ![mem[si.cur].se[e].cur] = marked]
          BY <5>1 DEF slab_entry_snapshot, StoreData, SnapshotPage, SE, Bucket
        <5> DEFINE d == mem[si.cur].se[e].cur
                   q == AllocatedPage(fm)
                   m1 == [mem EXCEPT ![q] = AsData(mem[d]), ![si.cur].se[e].snap = q]
                   m2 == [m1 EXCEPT ![d] = marked]
                   g == page_allocator_mprotect_generic(fixed_mapper_alloc_page(fm, "W"),
                                                        d, "W")
        <5>5. e \in InitEntries(mem[si.cur]) /\ marked \in DataPage /\ Sound(mem, si, fm, FALSE)
          BY <1>1, <3>2 DEF Bucket
        <5>6. /\ Sound(m2, si, g, FALSE) /\ Tracks(g) /\ Tracks(fm)
              /\ SameEntries(mem[si.cur], m2[si.cur])
              /\ BitmapsAfter(mem, mem[si.cur], m2, m2[si.cur], e, marked)
          BY <5>3, <5>5, WrittenAfterFault, Zenon
        <5>7. mem' = m2 /\ fm' = g
          BY <5>3, <5>4
        <5> HIDE DEF m2, g
        <5> QED
          BY <1>0, <5>2, <5>6, <5>7 DEF Bucket
      <4> QED
        BY <4>1, <4>2
    <3> HIDE DEF marked, e, idx
    <3>4. BitmapOf(mem', Bucket', e) = marked.hdr
      BY <2>3, <3>3 DEF BitmapsAfter, SE
    <3> QED
      BY <2>3, <3>2, <3>3, <3>4 DEF BitmapsAfter, SameEntries
  <2> QED
    BY <1>3, <2>1, <2>2, <2>3 DEF Sizes
<1>8. LiveInv' /\ live' \subseteq Entries \X (Slots("L") \cup Slots("S"))
  <2>1. CASE idx = NULL
    <3>1. live' = live /\ handed' = handed
      BY <2>1 DEF slab_entry_alloc_mem
    <3>2. \A f \in InitEntries(b) : BitmapOf(mem, b, f) \subseteq BitmapOf(mem', Bucket', f)
      BY <1>7, <2>1
    <3> QED
      BY <1>1, <1>7, <3>1, <3>2, CarryLive DEF ProcessType
  <2>2. CASE idx # NULL
    <3>1. live' = live \cup {<<e, idx>>} /\ handed' = handed + 1
      BY <2>2 DEF slab_entry_alloc_mem
    <3>2. idx \in Slots(SE(e).size) /\ idx \notin BitmapOf(mem, b, e)
      BY <1>3, <1>6, <2>2, FirstClearBit
    <3>3. <<e, idx>> \notin live
      BY <1>1, <1>6, <3>2 DEF LiveInv
    <3>4. ASSUME NEW o \in live'
          PROVE  o[1] \in InitEntries(Bucket') /\ o[2] \in BitmapOf(mem', Bucket', o[1])
      <4>1. CASE o \in live
        <5>1. o[1] \in InitEntries(b) /\ o[2] \in BitmapOf(mem, b, o[1])
          BY <1>1, <4>1 DEF LiveInv, Bitmap, BitmapOf, SE
        <5> QED
          BY <1>7, <2>2, <5>1
      <4>2. CASE o = <<e, idx>>
        BY <1>1, <1>7, <2>2, <4>2
      <4> QED
        BY <3>1, <4>1, <4>2
    <3>5. IsFiniteSet(live') /\ handed' = Cardinality(live')
      BY <1>1, <3>1, <3>3, FS_AddElement DEF LiveInv
    <3>6. LiveInv'
      BY <3>4, <3>5 DEF LiveInv, Bitmap, BitmapOf, SE
    <3>7. idx \in Slots("L") \cup Slots("S")
      BY <1>3, <3>2 DEF Sizes
    <3> QED
      BY <1>1, <1>3, <3>1, <3>6, <3>7 DEF ProcessType
  <2> QED
    BY <2>1, <2>2
<1>9. Tracks(fm') => EntriesInOrder'
  BY <1>0, <1>1, <1>5, <1>7, CarryOrder
<1>10. CallInv'
  BY <1>0, <1>1, <1>5, <1>7 DEF CallInv, InCpoint
<1>11. ProcessType'
  BY <1>0, <1>1, <1>5, <1>7, <1>8 DEF ProcessType
<1>12. Busy' = FALSE
  BY <1>0 DEF Busy
<1> QED
  BY <1>0, <1>1, <1>7, <1>8, <1>9, <1>10, <1>11, <1>12, StillRunning

(* The bitmaps of the entries of b are the same in c. *)
SameBitmaps(m, b, m2, c) ==
    \A f \in InitEntries(b) : BitmapOf(m2, c, f) = BitmapOf(m, b, f)

(* sb_has_snapshot is stored. *)
LEMMA HasStored ==
    ASSUME NEW m, NEW s, NEW h, Sound(m, s, h, FALSE), NEW v \in BOOLEAN
    PROVE  LET m2 == [m EXCEPT ![s.cur].has = v]
               c == m2[s.cur]
           IN  /\ Sound(m2, s, h, FALSE)
               /\ c.has = v /\ c.se = m[s.cur].se /\ InitEntries(c) = InitEntries(m[s.cur])
               /\ SameBitmaps(m, m[s.cur], m2, c)
<1> DEFINE b == m[s.cur]
           c == [b EXCEPT !.has = v]
           m2 == [m EXCEPT ![s.cur].has = v]
           S == DataInUse(s, h)
           P == Pages(h.stSize) \ (MetaPages \cup {s.cur, s.snap})
<1>1. /\ m \in [Page -> DataPage \cup BucketRec] /\ s.cur \in Page /\ s.snap \in Page
      /\ GoodBucket(b, S) /\ GoodBucket(m[s.snap], S) /\ GoodBucket(m[s.snap], P)
      /\ InUse(h) \subseteq Page
  BY UsedPages DEF Sound
<1>2. /\ GoodBucket(c, S) /\ c.has = v /\ c.se = b.se
      /\ InitEntries(c) = InitEntries(b) /\ PagesOf(c) = PagesOf(b) /\ c \in BucketRec
  BY <1>1, SetHas, GoodEntries
<1>3. m2 = [m EXCEPT ![s.cur] = c]
  OBVIOUS
<1> HIDE DEF c, m2, b
<1>4. /\ m2 \in [Page -> DataPage \cup BucketRec] /\ m2[s.cur] = c
      /\ \A p \in Page : p # s.cur => m2[p] = m[p]
  BY <1>1, <1>2, <1>3
<1>5. GoodBucket(m2[s.snap], S) /\ GoodBucket(m2[s.snap], P)
  <2>1. CASE s.snap = s.cur
    <3>1. PagesOf(c) \subseteq P
      BY <1>1, <1>2, <2>1, GoodEntries DEF b
    <3> QED
      BY <1>2, <1>4, <2>1, <3>1, Widen
  <2>2. CASE s.snap # s.cur
    BY <1>1, <1>4, <2>2
  <2> QED
    BY <2>1, <2>2
<1>6. Sound(m2, s, h, FALSE)
  BY <1>2, <1>4, <1>5 DEF Sound
<1>7. ASSUME NEW f \in InitEntries(b)
      PROVE  BitmapOf(m2, c, f) = BitmapOf(m, b, f)
  <2>1. b.se[f].cur \in S
    BY <1>1, GoodEntries
  <2>2. m2[b.se[f].cur] = m[b.se[f].cur]
    BY <1>1, <1>4, <2>1 DEF DataInUse
  <2> QED
    BY <1>2, <2>2 DEF BitmapOf
<1> QED
  BY <1>2, <1>4, <1>6, <1>7 DEF SameBitmaps, m2, b

(* The bucket is copied to a new page, which becomes its snapshot. *)
LEMMA BucketCopied ==
    ASSUME NEW m, NEW s, NEW h, Sound(m, s, h, FALSE), s.cur = s.snap,
           CanAlloc(h), ~AllocDies(h)
    PROVE  LET q == AllocatedPage(h)
               g == fixed_mapper_alloc_page(h, "W")
               m2 == [m EXCEPT ![q] = m[s.cur], ![s.cur].has = TRUE]
               s2 == [s EXCEPT !.snap = q]
               c == m2[s.cur]
           IN  /\ Sound(m2, s2, g, FALSE) /\ Tracks(h) /\ s2.cur # s2.snap /\ s2.cur = s.cur
               /\ InitEntries(c) = InitEntries(m[s.cur])
               /\ SameBitmaps(m, m[s.cur], m2, c)
<1> DEFINE b == m[s.cur]
           q == AllocatedPage(h)
           g == fixed_mapper_alloc_page(h, "W")
           c == [b EXCEPT !.has = TRUE]
           m2 == [m EXCEPT ![q] = m[s.cur], ![s.cur].has = TRUE]
           s2 == [s EXCEPT !.snap = q]
           S == DataInUse(s, h)
           T == DataInUse(s2, g)
<1>1. /\ m \in [Page -> DataPage \cup BucketRec] /\ s \in [cur : Page, snap : Page]
      /\ GoodBucket(b, S)
      /\ InUse(h) \subseteq Page /\ HandlerInv(h, InUse(h)) /\ h.stSize =< MaxPages
      /\ MetaPages \subseteq InUse(h) /\ s.cur \in InUse(h) \ MetaPages
  BY UsedPages DEF Sound
<1>2. /\ HandlerInv(g, InUse(g)) /\ Tracks(h) /\ q \notin InUse(h)
      /\ q \in Pages(g.stSize) /\ InUse(g) = InUse(h) \cup {q} /\ g.stSize =< MaxPages
  <2>1. "W" \in Prot
    BY DEF Prot
  <2> QED
    BY <1>1, <2>1, AllocTakes
<1> HIDE DEF g, q
<1>3. InUse(g) \subseteq Pages(g.stSize) /\ Pages(g.stSize) \subseteq Page
  BY <1>2, UsedPages
<1>4. /\ s2 \in [cur : Page, snap : Page] /\ s2.cur = s.cur /\ s2.snap = q /\ q # s.cur
  BY <1>1, <1>2, <1>3
<1> HIDE DEF s2
<1>5. /\ GoodBucket(c, S) /\ c.has = TRUE /\ c.se = b.se
      /\ InitEntries(c) = InitEntries(b) /\ PagesOf(c) = PagesOf(b) /\ c \in BucketRec
      /\ b \in BucketRec /\ PagesOf(b) \subseteq S
  BY <1>1, SetHas, GoodEntries
<1>6. /\ m2 \in [Page -> DataPage \cup BucketRec] /\ m2[s.cur] = c /\ m2[q] = b
      /\ \A p \in Page : p # s.cur /\ p # q => m2[p] = m[p]
  <2>1. /\ m2[s.cur] = c /\ m2[q] = b /\ DOMAIN m2 = Page
        /\ \A p \in Page : p # s.cur /\ p # q => m2[p] = m[p]
    BY <1>1, <1>2, <1>3, <1>4
  <2>2. m2 = [p \in Page |-> m2[p]]
    BY <1>1
  <2> HIDE DEF m2, c
  <2>3. \A p \in Page : m2[p] \in DataPage \cup BucketRec
    BY <1>1, <1>5, <2>1
  <2> QED
    BY <2>1, <2>2, <2>3
<1> HIDE DEF m2, c, b
<1>7. S \subseteq T /\ T \subseteq Pages(g.stSize) \ (MetaPages \cup {s2.cur, s2.snap})
  BY <1>2, <1>3, <1>4 DEF DataInUse
<1>8. /\ GoodBucket(c, T) /\ GoodBucket(b, T)
      /\ GoodBucket(b, Pages(g.stSize) \ (MetaPages \cup {s2.cur, s2.snap}))
  <2>1. PagesOf(c) \subseteq T /\ PagesOf(b) \subseteq T
        /\ PagesOf(b) \subseteq Pages(g.stSize) \ (MetaPages \cup {s2.cur, s2.snap})
    BY <1>5, <1>7
  <2> HIDE DEF S, T
  <2> QED
    BY <1>1, <1>5, <2>1, Widen
<1>9. Sound(m2, s2, g, FALSE)
  BY <1>1, <1>2, <1>4, <1>6, <1>8 DEF Sound
<1>10. ASSUME NEW f \in InitEntries(b)
       PROVE  BitmapOf(m2, c, f) = BitmapOf(m, b, f)
  <2>1. b.se[f].cur \in S
    BY <1>1, GoodEntries
  <2>2. m2[b.se[f].cur] = m[b.se[f].cur]
    BY <1>1, <1>2, <1>6, <2>1 DEF DataInUse
  <2> QED
    BY <1>5, <2>2 DEF BitmapOf
<1> QED
  BY <1>2, <1>4, <1>5, <1>6, <1>9, <1>10 DEF SameBitmaps, m2, s2, g, q, b

(* slab_palloc, with the copy of the bucket *)
LEMMA PallocKeeps ==
    ASSUME IndInv, NEW size \in Sizes, slab_palloc(size)
    PROVE  IndInv'
<1>0. pc = "run" /\ pc' = "pallocInit" /\ pc \notin Down /\ pc' \notin Down
  BY DEF slab_palloc, Down
<1>1. /\ ProcessType /\ CallInv /\ LiveInv
      /\ Sound(mem, si, fm, FALSE)
      /\ Tracks(fm) => EntriesInOrder
  <2>1. Busy = FALSE
    BY <1>0 DEF Busy
  <2> QED
    BY <1>0, <2>1, Running
<1>2. /\ Sound(mem', si', fm', FALSE) /\ (Tracks(fm') => Tracks(fm)) /\ si'.cur # si'.snap
      /\ InitEntries(Bucket') = InitEntries(Bucket)
      /\ SameBitmaps(mem, Bucket, mem', Bucket')
  <2>1. slab_bucket_snapshot
    BY DEF slab_palloc
  <2>2. CASE si.cur = si.snap
    <3>1. /\ CanAlloc(fm) /\ ~AllocDies(fm)
          /\ fm' = fixed_mapper_alloc_page(fm, "W")
          /\ mem' = [mem EXCEPT ![AllocatedPage(fm)] = mem[si.cur], ![si.cur].has = TRUE]
          /\ si' = [si EXCEPT !.snap = AllocatedPage(fm)]
      BY <2>1, <2>2 DEF slab_bucket_snapshot, Bucket
    <3> DEFINE m2 == [mem EXCEPT ![AllocatedPage(fm)] = mem[si.cur], ![si.cur].has = TRUE]
               g == fixed_mapper_alloc_page(fm, "W")
               s2 == [si EXCEPT !.snap = AllocatedPage(fm)]
    <3>0. Sound(mem, si, fm, FALSE) /\ si.cur = si.snap /\ CanAlloc(fm) /\ ~AllocDies(fm)
      BY <1>1, <2>2, <3>1
    <3>2. /\ Sound(m2, s2, g, FALSE) /\ Tracks(fm) /\ s2.cur # s2.snap /\ s2.cur = si.cur
          /\ InitEntries(m2[si.cur]) = InitEntries(mem[si.cur])
          /\ SameBitmaps(mem, mem[si.cur], m2, m2[si.cur])
      BY <3>0, BucketCopied, Zenon
    <3>3. mem' = m2 /\ fm' = g /\ si' = s2
      BY <3>1
    <3> HIDE DEF m2, g, s2
    <3> QED
      BY <3>2, <3>3 DEF Bucket
  <2>3. CASE si.cur # si.snap
    <3>1. fm' = fm /\ si' = si /\ mem' = [mem EXCEPT ![si.cur].has = FALSE]
      BY <2>1, <2>3 DEF slab_bucket_snapshot
    <3> DEFINE m2 == [mem EXCEPT ![si.cur].has = FALSE]
    <3>2. /\ Sound(m2, si, fm, FALSE)
          /\ InitEntries(m2[si.cur]) = InitEntries(mem[si.cur])
          /\ SameBitmaps(mem, mem[si.cur], m2, m2[si.cur])
      BY <1>1, <2>3, HasStored
    <3> HIDE DEF m2
    <3>3. mem' = m2
      BY <3>1 DEF m2
    <3> QED
      BY <2>3, <3>1, <3>2, <3>3 DEF Bucket
  <2> QED
    BY <2>2, <2>3
<1>3. /\ live' = live /\ handed' = handed /\ nextId' = nextId /\ flags' = flags
      /\ buffer' = buffer /\ dirty' = TRUE /\ vec' = vec
  BY DEF slab_palloc
<1>4. CASE HeadHasRoom(size)
  <2>1. op' = [NoOp EXCEPT !.e = es[size], !.size = size] /\ es' = es /\ freeEntries' = freeEntries
    BY <1>4 DEF slab_palloc
  <2>2. op'.e = es[size] /\ op'.size = size
    BY <2>1 DEF NoOp
  <2>3. es[size] # NULL
    BY <1>4 DEF HeadHasRoom
  <2>4. op'.e \in InitEntries(Bucket) /\ op'.e \in Entries
    BY <1>0, <1>1, <2>2, <2>3 DEF CallInv, InitEntries
  <2>5. CallInv'
    BY <1>0, <1>1, <1>2, <2>1, <2>2, <2>4 DEF CallInv, InCpoint
  <2>6. ASSUME Tracks(fm') PROVE EntriesInOrder'
    <3>1. EntriesInOrder /\ nextId \in Nat
      BY <1>1, <1>2, <2>6 DEF EntriesInOrder
    <3>2. op'.e < nextId /\ op'.e \in Nat
      BY <2>4, <3>1, EntriesAssumption DEF EntriesInOrder, Entries
    <3> QED
      BY <1>0, <1>2, <1>3, <2>1, <3>1, <3>2 DEF EntriesInOrder
  <2>7. ProcessType'
    BY <1>0, <1>1, <1>3, <2>1 DEF ProcessType
  <2>8. LiveInv'
    BY <1>1, <1>2, <1>3, CarryLive DEF SameBitmaps
  <2>9. Busy' = FALSE
    BY <1>0 DEF Busy
  <2> QED
    BY <1>0, <1>2, <2>5, <2>6, <2>7, <2>8, <2>9, StillRunning
<1>5. CASE ~HeadHasRoom(size)
  <2>1. /\ freeEntries # <<>> /\ op' = [NoOp EXCEPT !.e = Head(freeEntries), !.size = size]
        /\ es' = [es EXCEPT ![size] = Head(freeEntries)] /\ freeEntries' = Tail(freeEntries)
    BY <1>5 DEF slab_palloc, InsertHead
  <2>2. /\ freeEntries \in Seq(Entries) /\ Head(freeEntries) \in Entries
        /\ Tail(freeEntries) \in Seq(Entries) /\ Head(freeEntries) = freeEntries[1]
        /\ Len(freeEntries) \in Nat \ {0} /\ Len(Tail(freeEntries)) = Len(freeEntries) - 1
        /\ \A i \in 1 .. Len(freeEntries) - 1 : Tail(freeEntries)[i] = freeEntries[i + 1]
    <3>1. freeEntries \in Seq(Entries)
      BY <1>1 DEF ProcessType
    <3> QED
      BY <2>1, <3>1, HeadTailProperties, EmptySeq
  <2>3. op'.e = Head(freeEntries) /\ op'.size = size
    BY <2>1 DEF NoOp
  <2>4. CallInv'
    <3>1. ASSUME NEW t \in Sizes, es'[t] # NULL
          PROVE  es'[t] \in InitEntries(Bucket') \/ es'[t] = op'.e
      <4>1. CASE t = size
        BY <1>1, <2>1, <2>3, <4>1 DEF ProcessType
      <4>2. CASE t # size
        <5>1. es'[t] = es[t]
          BY <1>1, <2>1, <4>2 DEF ProcessType
        <5> QED
          BY <1>0, <1>1, <1>2, <3>1, <5>1 DEF CallInv
      <4> QED
        BY <4>1, <4>2
    <3> QED
      BY <1>0, <1>2, <2>2, <2>3, <3>1 DEF CallInv, InCpoint
  <2>5. ASSUME Tracks(fm') PROVE EntriesInOrder'
    <3>1. EntriesInOrder
      BY <1>1, <1>2, <2>5
    <3>2. /\ nextId \in Nat /\ nextId =< NEntries /\ Len(freeEntries) = NEntries - nextId
          /\ \A i \in 1 .. NEntries - nextId : freeEntries[i] = nextId + i - 1
          /\ \A e \in Entries : e \in InitEntries(Bucket) <=> e < nextId
      BY <1>0, <3>1, EntriesAssumption DEF EntriesInOrder
    <3>3. NEntries - nextId \in Nat \ {0} /\ 1 \in 1 .. NEntries - nextId
      BY <2>2, <3>2, EntriesAssumption
    <3>4. op'.e = nextId
      <4>1. freeEntries[1] = nextId + 1 - 1
        BY <3>2, <3>3
      <4> QED
        BY <2>2, <2>3, <3>2, <4>1
    <3>5. nextId + 1 =< NEntries /\ Len(freeEntries') = NEntries - (nextId + 1)
      BY <2>1, <2>2, <3>2, <3>3, EntriesAssumption
    <3>6. ASSUME NEW i \in 1 .. NEntries - (nextId + 1)
          PROVE  freeEntries'[i] = (nextId + 1) + i - 1
      <4>1. i \in 1 .. Len(freeEntries) - 1 /\ i + 1 \in 1 .. NEntries - nextId
        BY <2>2, <3>2, EntriesAssumption
      <4>2. freeEntries'[i] = freeEntries[i + 1] /\ freeEntries[i + 1] = nextId + (i + 1) - 1
        BY <2>1, <2>2, <3>2, <4>1
      <4> QED
        BY <3>2, <4>1, <4>2
    <3> QED
      BY <1>0, <1>2, <1>3, <3>2, <3>4, <3>5, <3>6, EntriesAssumption DEF EntriesInOrder
  <2>6. ProcessType'
    BY <1>0, <1>1, <1>3, <2>1, <2>2 DEF ProcessType
  <2>7. LiveInv'
    BY <1>1, <1>2, <1>3, CarryLive DEF SameBitmaps
  <2>8. Busy' = FALSE
    BY <1>0 DEF Busy
  <2> QED
    BY <1>0, <1>2, <2>4, <2>5, <2>6, <2>7, <2>8, StillRunning
<1> QED
  BY <1>4, <1>5

(* the pages of the file after entry e was given the data page p *)
Initialised(m, s, p, e, size) ==
    [m EXCEPT ![s.cur].se[e] = [@ EXCEPT !.cur = p, !.snap = p, !.size = size, !.id = e]]

(* An entry that is not initialised is given a data page. *)
LEMMA EntryInitialised ==
    ASSUME NEW m, NEW s, NEW h, Sound(m, s, h, FALSE), s.cur # s.snap,
           CanAlloc(h), ~AllocDies(h), NEW size \in Sizes,
           NEW e \in Entries, e \notin InitEntries(m[s.cur]), e \in Nat
    PROVE  /\ Sound(Initialised(m, s, AllocatedPage(h), e, size), s,
                    fixed_mapper_alloc_page(h, "R"), FALSE)
           /\ InitEntries(Initialised(m, s, AllocatedPage(h), e, size)[s.cur]) =
                    InitEntries(m[s.cur]) \cup {e}
           /\ SameBitmaps(m, m[s.cur], Initialised(m, s, AllocatedPage(h), e, size),
                          Initialised(m, s, AllocatedPage(h), e, size)[s.cur])
<1> DEFINE b == m[s.cur]
           p == AllocatedPage(h)
           g == fixed_mapper_alloc_page(h, "R")
           t == [b.se[e] EXCEPT !.cur = p, !.snap = p, !.size = size, !.id = e]
           c == [b EXCEPT !.se[e] = t]
           m2 == Initialised(m, s, p, e, size)
           S == DataInUse(s, h)
           T == DataInUse(s, g)
           P == Pages(g.stSize) \ (MetaPages \cup {s.cur, s.snap})
<1>1. /\ m \in [Page -> DataPage \cup BucketRec] /\ s \in [cur : Page, snap : Page]
      /\ GoodBucket(b, S) /\ GoodBucket(m[s.snap], S)
      /\ InUse(h) \subseteq Page /\ HandlerInv(h, InUse(h)) /\ h.stSize =< MaxPages
      /\ MetaPages \subseteq InUse(h)
      /\ s.cur \in InUse(h) \ MetaPages /\ s.snap \in InUse(h) \ MetaPages
  BY UsedPages DEF Sound
<1>2. /\ HandlerInv(g, InUse(g)) /\ p \notin InUse(h)
      /\ p \in Pages(g.stSize) /\ InUse(g) = InUse(h) \cup {p} /\ g.stSize =< MaxPages
  <2>1. "R" \in Prot
    BY DEF Prot
  <2> QED
    BY <1>1, <2>1, AllocTakes
<1> HIDE DEF g, p
<1>3. InUse(g) \subseteq Pages(g.stSize) /\ Pages(g.stSize) \subseteq Page
  BY <1>2, UsedPages
<1>4. p \in Page /\ p # s.cur /\ p # s.snap /\ p \notin MetaPages /\ p # NULL
  BY <1>1, <1>2, <1>3, NullAssumption DEF Page, Pages
<1>5. T = S \cup {p} /\ T \subseteq P /\ p \notin S
  BY <1>2, <1>3, <1>4 DEF DataInUse
<1>6. b \in BucketRec /\ b.se[e] \in EntryType
  BY <1>1, GoodEntries
<1>7. /\ t \in EntryType /\ t.size = size /\ t.id = e /\ t.cur = p /\ t.snap = p
  BY <1>4, <1>6 DEF EntryType
<1>8. EntryOK(t, e)
  BY <1>4, <1>7 DEF EntryOK
<1>9. m2 = [m EXCEPT ![s.cur] = c]
  BY <1>1, <1>6 DEF BucketRec, Initialised
<1> HIDE DEF t
<1>10. \A f \in InitEntries(b) : f # e =>
          /\ b.se[f].cur \in T /\ b.se[f].snap \in T
          /\ {t.cur, t.snap} \cap {b.se[f].cur, b.se[f].snap} = {}
  <2>1. \A f \in InitEntries(b) : b.se[f].cur \in S /\ b.se[f].snap \in S
    BY <1>1, GoodEntries
  <2> QED
    BY <1>5, <1>7, <2>1
<1>11. /\ GoodBucket(c, T) /\ c.has = b.has /\ c.se[e] = t
       /\ \A f \in Entries : f # e => c.se[f] = b.se[f]
       /\ InitEntries(c) = InitEntries(b) \cup {e}
  <2>1. t.cur \in T /\ t.snap \in T /\ t.size \in Sizes
    BY <1>5, <1>7
  <2> HIDE DEF b, T, S
  <2> QED
    BY <1>1, <1>7, <1>8, <1>10, <2>1, ReplaceEntry
<1> HIDE DEF c, m2, b
<1>12. /\ m2 \in [Page -> DataPage \cup BucketRec] /\ m2[s.cur] = c
       /\ \A r \in Page : r # s.cur => m2[r] = m[r]
  <2>1. c \in BucketRec
    BY <1>11, GoodEntries
  <2> QED
    BY <1>1, <1>9, <2>1
<1>13. Sound(m2, s, g, FALSE)
  <2>1. m2[s.snap] = m[s.snap]
    BY <1>1, <1>12
  <2>2. PagesOf(m[s.snap]) \subseteq T /\ PagesOf(m[s.snap]) \subseteq P
    BY <1>1, <1>5, GoodEntries
  <2>3. GoodBucket(m[s.snap], T) /\ GoodBucket(m[s.snap], P)
    <3> HIDE DEF S, T, P
    <3> QED
      BY <1>1, <2>2, Widen
  <2> QED
    BY <1>1, <1>2, <1>11, <1>12, <2>1, <2>3 DEF Sound
<1>14. ASSUME NEW f \in InitEntries(b)
       PROVE  BitmapOf(m2, c, f) = BitmapOf(m, b, f)
  <2>1. b.se[f].cur \in S /\ f \in Entries /\ f # e
    BY <1>1, GoodEntries DEF b
  <2>2. m2[b.se[f].cur] = m[b.se[f].cur] /\ c.se[f] = b.se[f]
    BY <1>1, <1>11, <1>12, <2>1 DEF DataInUse
  <2> QED
    BY <2>2 DEF BitmapOf
<1> QED
  BY <1>11, <1>12, <1>13, <1>14 DEF SameBitmaps, m2, g, p, b

(* slab_entry_init: in the process that created the container an entry     *)
(* that is not initialised is the next one.                                *)
LEMMA EntryInitKeeps ==
    ASSUME IndInv, slab_entry_init
    PROVE  IndInv'
<1>0. /\ pc = "pallocInit" /\ pc' = "pallocMem" /\ pc \notin Down /\ pc' \notin Down
      /\ si' = si
  BY DEF slab_entry_init, Down
<1>1. /\ ProcessType /\ CallInv /\ LiveInv
      /\ Sound(mem, si, fm, FALSE)
      /\ Tracks(fm) => EntriesInOrder
      /\ op.e \in Entries /\ op.size \in Sizes /\ si.cur # si.snap
  <2>1. Busy = FALSE
    BY <1>0 DEF Busy
  <2>2. /\ ProcessType /\ CallInv /\ LiveInv /\ Sound(mem, si, fm, Busy)
        /\ Tracks(fm) => EntriesInOrder
    BY <1>0, Running
  <2> QED
    BY <1>0, <2>1, <2>2 DEF CallInv
<1>2. /\ live' = live /\ handed' = handed /\ flags' = flags /\ es' = es /\ op' = op
      /\ buffer' = buffer /\ dirty' = dirty /\ vec' = vec /\ freeEntries' = freeEntries
  BY DEF slab_entry_init, known
<1>3. ProcessType'
  BY <1>0, <1>1, <1>2 DEF ProcessType
<1>4. Busy' = FALSE
  BY <1>0 DEF Busy
<1>5. CASE op.e \in InitEntries(Bucket)
  <2>1. fm' = fm /\ mem' = mem /\ nextId' = nextId
    BY <1>5 DEF slab_entry_init, InitEntries, SE
  <2>2. Bucket' = Bucket
    BY <1>0, <2>1 DEF Bucket
  <2>3. CallInv'
    BY <1>0, <1>1, <1>2, <1>5, <2>2 DEF CallInv, InCpoint
  <2>4. ASSUME Tracks(fm') PROVE EntriesInOrder'
    <3>1. EntriesInOrder /\ op.e < nextId /\ op.e \in Nat /\ nextId \in Nat
      BY <1>1, <1>5, <2>1, <2>4, EntriesAssumption DEF EntriesInOrder, Entries
    <3> QED
      BY <1>0, <1>2, <2>1, <2>2, <3>1 DEF EntriesInOrder
  <2>5. LiveInv'
    <3>1. \A f \in InitEntries(Bucket) :
              BitmapOf(mem, Bucket, f) \subseteq BitmapOf(mem', Bucket', f)
      BY <2>1, <2>2
    <3> QED
      BY <1>1, <1>2, <2>2, <3>1, CarryLive
  <2> QED
    BY <1>0, <1>1, <1>3, <1>4, <2>1, <2>3, <2>4, <2>5, StillRunning
<1>6. CASE op.e \notin InitEntries(Bucket)
  <2>1. /\ CanAlloc(fm) /\ ~AllocDies(fm) /\ nextId' = nextId + 1
        /\ fm' = fixed_mapper_alloc_page(fm, "R")
        /\ mem' = [mem EXCEPT ![si.cur].se[op.e] =
                      [@ EXCEPT !.cur = AllocatedPage(fm), !.snap = AllocatedPage(fm),
                                !.size = op.size, !.id = nextId]]
    BY <1>1, <1>6 DEF slab_entry_init, InitEntries, SE
  <2>2. Tracks(fm) /\ EntriesInOrder
    BY <1>1, <2>1, TracksOrEmpty DEF Sound
  <2>3. nextId = op.e /\ op.e \in Nat /\ nextId \in 0 .. NEntries
    BY <1>0, <1>1, <1>6, <2>2, EntriesAssumption DEF EntriesInOrder, Entries
  <2>4. mem' = [mem EXCEPT ![si.cur].se[op.e] =
                      [@ EXCEPT !.cur = AllocatedPage(fm), !.snap = AllocatedPage(fm),
                                !.size = op.size, !.id = op.e]]
    BY <2>1, <2>3
  <2>5. /\ Sound(mem', si, fm', FALSE)
        /\ InitEntries(Bucket') = InitEntries(Bucket) \cup {op.e}
        /\ SameBitmaps(mem, Bucket, mem', Bucket')
    <3> DEFINE e == op.e
               sz == op.size
               g == fixed_mapper_alloc_page(fm, "R")
               p == AllocatedPage(fm)
               m2 == Initialised(mem, si, p, e, sz)
    <3>1. mem' = m2 /\ fm' = g
      BY <2>1, <2>4 DEF Initialised
    <3>2. e \in Entries /\ e \in Nat /\ sz \in Sizes /\ e \notin InitEntries(mem[si.cur])
      BY <1>1, <1>6, <2>3 DEF Bucket
    <3>4. CanAlloc(fm) /\ ~AllocDies(fm) /\ Sound(mem, si, fm, FALSE) /\ si.cur # si.snap
      BY <1>1, <2>1
    <3> HIDE DEF e, sz
    <3>3. /\ Sound(m2, si, g, FALSE)
          /\ InitEntries(m2[si.cur]) = InitEntries(mem[si.cur]) \cup {e}
          /\ SameBitmaps(mem, mem[si.cur], m2, m2[si.cur])
      BY <3>2, <3>4, EntryInitialised, Zenon
    <3> HIDE DEF m2, g
    <3> QED
      BY <1>0, <3>1, <3>3 DEF Bucket, e
  <2>6. CallInv'
    BY <1>0, <1>1, <1>2, <2>5 DEF CallInv, InCpoint
  <2>7. EntriesInOrder'
    <3>1. /\ nextId + 1 =< NEntries
          /\ Len(freeEntries) = NEntries - (nextId + 1)
          /\ \A i \in 1 .. NEntries - (nextId + 1) : freeEntries[i] = (nextId + 1) + i - 1
          /\ \A e \in Entries : e \in InitEntries(Bucket) <=> e < nextId
      BY <1>0, <2>2, <2>3 DEF EntriesInOrder
    <3>2. \A e \in Entries : e \in InitEntries(Bucket') <=> e < nextId + 1
      BY <2>3, <2>5, <3>1, EntriesAssumption DEF Entries
    <3>3. nextId' \in 0 .. NEntries
      BY <2>1, <2>3, <3>1, EntriesAssumption
    <3>4. nextId' = nextId + 1 /\ freeEntries' = freeEntries /\ pc' # "pallocInit"
      BY <1>0, <1>2, <2>1
    <3>5. /\ nextId' =< NEntries
          /\ Len(freeEntries') = NEntries - nextId'
          /\ \A i \in 1 .. NEntries - nextId' : freeEntries'[i] = nextId' + i - 1
          /\ \A e \in Entries : e \in InitEntries(Bucket') <=> e < nextId'
      BY <3>1, <3>2, <3>4
    <3> QED
      BY <3>3, <3>4, <3>5 DEF EntriesInOrder
  <2>8. LiveInv'
    BY <1>1, <1>2, <2>5, CarryLive DEF SameBitmaps
  <2> QED
    BY <1>0, <1>1, <1>3, <1>4, <2>5, <2>6, <2>7, <2>8, StillRunning
<1> QED
  BY <1>5, <1>6

-----------------------------------------------------------------------------
(* The steps of a checkpoint *)

(* A step outside slab_palloc that leaves the pages of the file, and at    *)
(* most changes protections                                                *)
LEMMA QuietKeeps ==
    ASSUME IndInv, pc \notin Down, pc' \notin Down, mem' = mem, si' = si,
           fm'.stSize = fm.stSize, HandlerInv(fm', InUse(fm')), InUse(fm') = InUse(fm),
           Tracks(fm') <=> Tracks(fm), live' = live, handed' = handed, es' = es,
           freeEntries' = freeEntries, nextId' = nextId, ProcessType',
           pc \notin {"pallocInit", "pallocMem", "cpHas"},
           pc' \notin {"pallocInit", "pallocMem", "cpHas"},
           pc' \in InCpoint => op'.i \in 0 .. NEntries,
           Busy => Busy'
    PROVE  IndInv'
<1>1. /\ ProcessType /\ CallInv /\ LiveInv
      /\ Sound(mem, si, fm, Busy)
      /\ Tracks(fm) /\ Bucket.has /\ pc # "cpHas" => si.cur # si.snap
      /\ Tracks(fm) => EntriesInOrder
  BY Running
<1>2. Bucket' = Bucket
  BY DEF Bucket
<1>3. Sound(mem', si', fm', Busy')
  BY <1>1 DEF Sound, DataInUse
<1>4. LiveInv'
  <2>1. \A f \in InitEntries(Bucket) :
            BitmapOf(mem, Bucket, f) \subseteq BitmapOf(mem', Bucket', f)
    BY <1>2
  <2> QED
    BY <1>1, <1>2, <2>1, CarryLive
<1>5. Tracks(fm') => EntriesInOrder'
  BY <1>1, <1>2, CarryOrder
<1>6. CallInv'
  BY <1>1, <1>2 DEF CallInv
<1> QED
  BY <1>1, <1>2, <1>3, <1>4, <1>5, <1>6, StillRunning

(* container_cpoint sets the flag and starts at the first entry. *)
LEMMA CpointKeeps ==
    ASSUME IndInv, container_cpoint
    PROVE  IndInv'
<1>1. /\ pc = "run" /\ pc' = "cpEntry" /\ mem' = mem /\ si' = si /\ fm' = fm
      /\ live' = live /\ handed' = handed /\ es' = es /\ freeEntries' = freeEntries
      /\ nextId' = nextId /\ flags' = TRUE /\ vec' = vec /\ buffer' = buffer
      /\ dirty' = dirty /\ op' = [NoOp EXCEPT !.type = "REGULAR"]
  BY DEF container_cpoint
<1>2. pc \notin Down /\ pc' \notin Down
  BY <1>1 DEF Down
<1>3. op'.i \in 0 .. NEntries
  BY <1>1, EntriesAssumption DEF NoOp
<1>4. ProcessType /\ HandlerInv(fm, InUse(fm))
  BY <1>2, Running DEF Sound
<1>5. ProcessType'
  BY <1>1, <1>4 DEF ProcessType, InCpoint
<1>6. ~Busy
  BY <1>1 DEF Busy
<1> QED
  BY <1>1, <1>2, <1>3, <1>4, <1>5, <1>6, QuietKeeps

(* A checkpoint that finds no snapshot of the bucket leaves its entries. *)
LEMMA SkipKeeps ==
    ASSUME IndInv, SkipBucket
    PROVE  IndInv'
<1>1. /\ pc = "cpEntry" /\ pc' = "cpFlush" /\ mem' = mem /\ si' = si /\ fm' = fm
      /\ live' = live /\ handed' = handed /\ es' = es /\ freeEntries' = freeEntries
      /\ nextId' = nextId /\ flags' = flags /\ vec' = vec /\ buffer' = buffer
      /\ dirty' = dirty /\ op' = op /\ ~Bucket.has
  BY DEF SkipBucket, file, known
<1>2. pc \notin Down /\ pc' \notin Down
  BY <1>1 DEF Down
<1>3. ProcessType /\ HandlerInv(fm, InUse(fm)) /\ CallInv
  BY <1>2, Running DEF Sound
<1>4. op'.i \in 0 .. NEntries
  BY <1>1, <1>3 DEF CallInv, InCpoint
<1>5. ProcessType'
  BY <1>1, <1>3 DEF ProcessType, InCpoint
<1>6. ~Busy
  BY <1>1 DEF Busy
<1> QED
  BY <1>1, <1>2, <1>3, <1>4, <1>5, <1>6, QuietKeeps

(* slab_cpoint frees the vector. *)
LEMMA FlushKeeps ==
    ASSUME IndInv, slab_cpoint
    PROVE  IndInv'
<1>1. /\ pc = "cpFlush" /\ pc' = "cpClear" /\ mem' = mem /\ si' = si /\ fm' = fm
      /\ live' = live /\ handed' = handed /\ es' = es /\ freeEntries' = freeEntries
      /\ nextId' = nextId /\ flags' = flags /\ vec' = <<>> /\ buffer' = NULL
      /\ dirty' = dirty /\ op' = op
  BY DEF slab_cpoint, known
<1>2. pc \notin Down /\ pc' \notin Down
  BY <1>1 DEF Down
<1>3. ProcessType /\ HandlerInv(fm, InUse(fm)) /\ CallInv
  BY <1>2, Running DEF Sound
<1>4. op'.i \in 0 .. NEntries
  BY <1>1, <1>3 DEF CallInv, InCpoint
<1>5. ProcessType'
  BY <1>1, <1>3, EmptySeq DEF ProcessType, InCpoint
<1>6. ~Busy
  BY <1>1 DEF Busy
<1> QED
  BY <1>1, <1>2, <1>3, <1>4, <1>5, <1>6, QuietKeeps

(* slab_mprotect_datapgs changes protections only. *)
LEMMA MprotectDatapgs ==
    ASSUME NEW h, HandlerInv(h, InUse(h)), NEW b
    PROVE  LET g == slab_mprotect_datapgs(h, b)
           IN  /\ HandlerInv(g, InUse(g)) /\ InUse(g) = InUse(h)
               /\ Tracks(g) <=> Tracks(h)
               /\ g.stSize = h.stSize
<1> DEFINE g == slab_mprotect_datapgs(h, b)
           pr == [p \in DOMAIN h.prot |->
                     IF \E e \in Entries : SLAB_ENTRY_IS_INIT(b.se[e]) /\ b.se[e].cur = p
                     THEN "R" ELSE h.prot[p]]
<1>1. h.prot \in [Pages(h.fileSize) -> Prot]
  BY DEF HandlerInv
<1>2. pr \in [Pages(h.fileSize) -> Prot]
  BY <1>1 DEF Prot
<1>3. g = [h EXCEPT !.prot = pr]
  BY DEF slab_mprotect_datapgs
<1> HIDE DEF pr, g
<1>4. /\ HandlerInv(g, InUse(g)) /\ InUse(g) = InUse(h)
      /\ Tracks(g) <=> Tracks(h)
      /\ g.stSize = h.stSize
  BY <1>2, <1>3, ProtKeeps
<1> QED
  BY <1>4 DEF g

(* The checkpoint, or the restore it was part of, returns. *)
LEMMA ReturnKeeps ==
    ASSUME IndInv, CpointReturns
    PROVE  IndInv'
<1>1. /\ pc = "cpClear" /\ pc' = "run" /\ mem' = mem /\ si' = si
      /\ fm' = IF op.type = "RESTORE" THEN slab_mprotect_datapgs(fm, Bucket) ELSE fm
      /\ live' = live /\ handed' = handed /\ es' = es /\ freeEntries' = freeEntries
      /\ nextId' = nextId /\ flags' = FALSE /\ vec' = vec /\ buffer' = buffer
      /\ dirty' = dirty
  BY DEF CpointReturns
<1>2. pc \notin Down /\ pc' \notin Down /\ pc' \notin InCpoint
  BY <1>1 DEF Down, InCpoint
<1>3. ProcessType /\ HandlerInv(fm, InUse(fm))
  BY <1>2, Running DEF Sound
<1>4. /\ fm'.stSize = fm.stSize /\ HandlerInv(fm', InUse(fm')) /\ InUse(fm') = InUse(fm)
      /\ Tracks(fm') <=> Tracks(fm)
  <2>1. CASE op.type = "RESTORE"
    <3>1. fm' = slab_mprotect_datapgs(fm, Bucket)
      BY <1>1, <2>1
    <3> QED
      BY <1>3, <3>1, MprotectDatapgs
  <2>2. CASE op.type # "RESTORE"
    BY <1>1, <1>3, <2>2
  <2> QED
    BY <2>1, <2>2
<1>5. ProcessType'
  BY <1>1, <1>3 DEF ProcessType
<1>6. ~Busy
  BY <1>1 DEF Busy
<1> QED
  BY <1>1, <1>2, <1>3, <1>4, <1>5, <1>6, QuietKeeps

(* sb_has_snapshot is cleared. *)
LEMMA ClearKeeps ==
    ASSUME IndInv, ClearHasSnapshot
    PROVE  IndInv'
<1>1. /\ pc = "cpHas" /\ pc' = "cpFlush" /\ mem' = [mem EXCEPT ![si.cur].has = FALSE]
      /\ si' = si /\ fm' = fm
      /\ live' = live /\ handed' = handed /\ es' = es /\ freeEntries' = freeEntries
      /\ nextId' = nextId /\ flags' = flags /\ vec' = vec /\ buffer' = buffer
      /\ dirty' = FALSE /\ op' = op
  BY DEF ClearHasSnapshot
<1>2. pc \notin Down /\ pc' \notin Down
  BY <1>1 DEF Down
<1>3. /\ ProcessType /\ CallInv /\ LiveInv /\ Sound(mem, si, fm, FALSE)
      /\ Tracks(fm) => EntriesInOrder
  <2>1. Busy = FALSE
    BY <1>1 DEF Busy
  <2> QED
    BY <1>2, <2>1, Running
<1>4. /\ Sound(mem', si, fm, FALSE) /\ Bucket'.has = FALSE
      /\ InitEntries(Bucket') = InitEntries(Bucket)
      /\ SameBitmaps(mem, Bucket, mem', Bucket')
  <2> DEFINE m2 == [mem EXCEPT ![si.cur].has = FALSE]
  <2>1. /\ Sound(m2, si, fm, FALSE) /\ m2[si.cur].has = FALSE
        /\ InitEntries(m2[si.cur]) = InitEntries(mem[si.cur])
        /\ SameBitmaps(mem, mem[si.cur], m2, m2[si.cur])
    BY <1>3, HasStored
  <2>2. mem' = m2 /\ si' = si
    BY <1>1
  <2> HIDE DEF m2
  <2> QED
    BY <2>1, <2>2 DEF Bucket
<1>5. LiveInv'
  BY <1>1, <1>3, <1>4, CarryLive DEF SameBitmaps
<1>6. Tracks(fm') => EntriesInOrder'
  BY <1>1, <1>3, <1>4, CarryOrder
<1>7. CallInv'
  BY <1>1, <1>3, <1>4 DEF CallInv, InCpoint
<1>8. ProcessType'
  BY <1>1, <1>3 DEF ProcessType, InCpoint
<1>9. Busy' = FALSE
  BY <1>1 DEF Busy
<1> QED
  BY <1>1, <1>2, <1>4, <1>5, <1>6, <1>7, <1>8, <1>9, StillRunning

(* slab_inner_cpoint frees the copy of the bucket, which nothing names.    *)
LEMMA InnerKeeps ==
    ASSUME IndInv, slab_inner_cpoint
    PROVE  IndInv'
<1>1. /\ pc = "cpEntry" /\ pc' = "cpHas" /\ mem' = mem /\ Bucket.has
      /\ si' = [si EXCEPT !.snap = si.cur] /\ fm' = fixed_mapper_freepages(fm, si.snap)
      /\ ~FreeDies(fm, si.snap)
      /\ live' = live /\ handed' = handed /\ es' = es /\ freeEntries' = freeEntries
      /\ nextId' = nextId /\ flags' = flags /\ vec' = vec /\ buffer' = buffer
      /\ dirty' = dirty /\ op' = op
  BY DEF slab_inner_cpoint, CommittedBucket, known
<1>2. pc \notin Down /\ pc' \notin Down
  BY <1>1 DEF Down
<1>3. /\ ProcessType /\ CallInv /\ LiveInv /\ Sound(mem, si, fm, Busy)
      /\ Tracks(fm) => EntriesInOrder
      /\ Tracks(fm) => si.cur # si.snap
  BY <1>1, <1>2, Running
<1>4. /\ mem \in [Page -> DataPage \cup BucketRec] /\ si \in [cur : Page, snap : Page]
      /\ HandlerInv(fm, InUse(fm)) /\ fm.stSize =< MaxPages /\ MetaPages \subseteq InUse(fm)
      /\ si.cur \in InUse(fm) \ MetaPages /\ si.snap \in InUse(fm) \ MetaPages
      /\ GoodBucket(mem[si.cur], DataInUse(si, fm))
  BY <1>3 DEF Sound
<1>5. /\ HandlerInv(fm', InUse(fm')) /\ Tracks(fm) /\ InUse(fm') = InUse(fm) \ {si.snap}
      /\ fm'.stSize = fm.stSize
  BY <1>1, <1>4, FreeGivesBack
<1>6. /\ si' \in [cur : Page, snap : Page] /\ si'.cur = si.cur /\ si'.snap = si.cur
      /\ si.cur # si.snap
  BY <1>1, <1>3, <1>4, <1>5
<1>7. DataInUse(si', fm') = DataInUse(si, fm)
  BY <1>5, <1>6 DEF DataInUse
<1>8. GoodBucket(mem[si.cur], Pages(fm'.stSize) \ (MetaPages \cup {si'.cur, si'.snap}))
  <2>1. InUse(fm') \subseteq Pages(fm'.stSize)
    BY <1>4, <1>5, UsedPages
  <2>2. PagesOf(mem[si.cur]) \subseteq Pages(fm'.stSize) \ (MetaPages \cup {si'.cur, si'.snap})
    BY <1>4, <1>7, <2>1, GoodEntries DEF DataInUse
  <2> QED
    BY <1>4, <2>2, Widen
<1>9. Sound(mem', si', fm', Busy')
  BY <1>1, <1>4, <1>5, <1>6, <1>7, <1>8 DEF Sound
<1>10. Bucket' = Bucket
  BY <1>1, <1>6 DEF Bucket
<1>11. LiveInv'
  <2>1. \A f \in InitEntries(Bucket) :
            BitmapOf(mem, Bucket, f) \subseteq BitmapOf(mem', Bucket', f)
    BY <1>1, <1>10
  <2> QED
    BY <1>1, <1>3, <1>10, <2>1, CarryLive
<1>12. Tracks(fm') => EntriesInOrder'
  BY <1>1, <1>3, <1>5, <1>10, CarryOrder
<1>13. CallInv'
  BY <1>1, <1>3, <1>10 DEF CallInv, InCpoint
<1>14. ProcessType'
  BY <1>1, <1>3 DEF ProcessType, InCpoint
<1> QED
  BY <1>1, <1>2, <1>9, <1>11, <1>12, <1>13, <1>14, StillRunning

(* A checkpoint handles one entry: its snapshot page is its current page,  *)
(* and the page it replaces, if it is another one, is not in use any more. *)
LEMMA EntryCommitted ==
    ASSUME NEW m, NEW s, NEW h, NEW g, Sound(m, s, h, TRUE), NEW e \in InitEntries(m[s.cur]),
           HandlerInv(g, InUse(g)), g.stSize = h.stSize,
           \/ InUse(g) = InUse(h)
           \/ /\ m[s.cur].se[e].cur # m[s.cur].se[e].snap
              /\ InUse(g) = InUse(h) \ {m[s.cur].se[e].snap}
    PROVE  LET b == m[s.cur]
               m2 == [m EXCEPT ![s.cur].se[e].snap = b.se[e].cur]
           IN  /\ Sound(m2, s, g, TRUE)
               /\ SameEntries(b, m2[s.cur])
               /\ SameBitmaps(m, b, m2, m2[s.cur])
<1> DEFINE b == m[s.cur]
           d == b.se[e].cur
           c == WithSnapshot(b, e, d)
           m2 == [m EXCEPT ![s.cur].se[e].snap = d]
           S == DataInUse(s, h)
           T == DataInUse(s, g)
           P == Pages(g.stSize) \ (MetaPages \cup {s.cur, s.snap})
<1>1. /\ m \in [Page -> DataPage \cup BucketRec] /\ s \in [cur : Page, snap : Page]
      /\ GoodBucket(b, S)
      /\ GoodBucket(m[s.snap], Pages(h.stSize) \ (MetaPages \cup {s.cur, s.snap}))
      /\ InUse(h) \subseteq Page /\ h.stSize =< MaxPages
      /\ MetaPages \subseteq InUse(h)
      /\ s.cur \in InUse(h) \ MetaPages /\ s.snap \in InUse(h) \ MetaPages
  BY UsedPages DEF Sound
<1>2. d \in S /\ b.se[e].snap \in S /\ e \in Entries
  BY <1>1, GoodEntries
<1>3. d \in T /\ MetaPages \subseteq InUse(g) /\ s.cur \in InUse(g) /\ s.snap \in InUse(g)
      /\ d \in Page /\ T \subseteq P /\ T \subseteq S
  <2>1. InUse(g) \subseteq Pages(g.stSize)
    BY <1>1, UsedPages
  <2> QED
    BY <1>1, <1>2, <2>1 DEF DataInUse
<1>4. ASSUME NEW f \in InitEntries(b), f # e
      PROVE  /\ b.se[f].cur \in T /\ b.se[f].snap \in T
             /\ d # b.se[f].cur /\ d # b.se[f].snap
  <2>1. /\ b.se[f].cur # b.se[e].cur /\ b.se[f].cur # b.se[e].snap
        /\ b.se[f].snap # b.se[e].cur /\ b.se[f].snap # b.se[e].snap
    BY <1>1, <1>4, Apart
  <2>2. b.se[f].cur \in S /\ b.se[f].snap \in S
    BY <1>1, GoodEntries
  <2> QED
    BY <2>1, <2>2 DEF DataInUse
<1>5. GoodBucket(c, T) /\ SameEntries(b, c) /\ c \in BucketRec /\ PagesOf(c) \subseteq T
  <2> HIDE DEF b, d, T, S
  <2>1. d = b.se[e].cur /\ e \in InitEntries(b)
    BY DEF b, d
  <2> QED
    BY <1>1, <1>3, <1>4, <2>1, SnapshotChanged
<1>6. m2 = [m EXCEPT ![s.cur] = c]
  BY DEF WithSnapshot
<1> HIDE DEF m2, c
<1>7. /\ m2 \in [Page -> DataPage \cup BucketRec] /\ m2[s.cur] = c
      /\ \A r \in Page : r # s.cur => m2[r] = m[r]
  BY <1>1, <1>5, <1>6
<1>8. Sound(m2, s, g, TRUE)
  <2>1. GoodBucket(m2[s.snap], P)
    <3>1. CASE s.snap = s.cur
      <4>1. PagesOf(c) \subseteq P
        BY <1>3, <1>5
      <4> QED
        BY <1>5, <1>7, <3>1, <4>1, Widen
    <3>2. CASE s.snap # s.cur
      BY <1>1, <1>7, <3>2
    <3> QED
      BY <3>1, <3>2
  <2> QED
    BY <1>1, <1>3, <1>5, <1>7, <2>1 DEF Sound
<1>9. ASSUME NEW f \in InitEntries(b)
      PROVE  BitmapOf(m2, c, f) = BitmapOf(m, b, f)
  <2>1. b.se[f].cur \in S /\ f \in Entries
    BY <1>1, GoodEntries
  <2>2. m2[b.se[f].cur] = m[b.se[f].cur]
    BY <1>1, <1>7, <2>1 DEF DataInUse
  <2> QED
    BY <1>5, <2>1, <2>2 DEF BitmapOf, SameEntries
<1> QED
  BY <1>5, <1>7, <1>8, <1>9 DEF SameBitmaps, m2

(* One turn of the loop of slab_bucket_cpoint *)
LEMMA BucketKeeps ==
    ASSUME IndInv, slab_bucket_cpoint
    PROVE  IndInv'
<1>1. /\ pc = "cpEntry" /\ pc' = "cpEntry" /\ Bucket.has /\ op.i < NEntries
      /\ si' = si /\ op' = [op EXCEPT !.i = @ + 1]
      /\ live' = live /\ handed' = handed /\ es' = es /\ freeEntries' = freeEntries
      /\ nextId' = nextId /\ flags' = flags /\ vec' = vec /\ buffer' = buffer
      /\ dirty' = dirty
  BY DEF slab_bucket_cpoint
<1>2. pc \notin Down /\ pc' \notin Down
  BY <1>1 DEF Down
<1>3. /\ ProcessType /\ CallInv /\ LiveInv /\ Sound(mem, si, fm, TRUE)
      /\ Tracks(fm) => EntriesInOrder
      /\ Tracks(fm) => si.cur # si.snap
      /\ op.i \in 0 .. NEntries
  <2>1. Busy = TRUE
    BY <1>1, <1>2, Running, GoodEntries DEF Busy, Sound, Bucket
  <2>2. /\ ProcessType /\ CallInv /\ LiveInv /\ Sound(mem, si, fm, Busy)
        /\ Tracks(fm) => EntriesInOrder
        /\ Tracks(fm) => si.cur # si.snap
    BY <1>1, <1>2, Running
  <2> QED
    BY <1>1, <2>1, <2>2 DEF CallInv, InCpoint
<1>4. op.i \in Entries /\ op.i + 1 \in 0 .. NEntries
  BY <1>1, <1>3, EntriesAssumption DEF Entries
<1>5. op'.i \in 0 .. NEntries \/ op'.i = op.i
  BY <1>1, <1>4
<1>6. /\ Sound(mem', si, fm', TRUE) /\ (Tracks(fm') => Tracks(fm))
      /\ SameEntries(Bucket, Bucket') /\ SameBitmaps(mem, Bucket, mem', Bucket')
  <2>1. CASE op.i \notin InitEntries(Bucket)
    <3>1. mem' = mem /\ fm' = fm
      BY <1>4, <2>1 DEF slab_bucket_cpoint, InitEntries, SE
    <3> QED
      BY <1>1, <1>3, <3>1 DEF SameEntries, SameBitmaps, Bucket
  <2>2. CASE op.i \in InitEntries(Bucket)
    <3> DEFINE e == op.i
               d == mem[si.cur].se[e].cur
               z == mem[si.cur].se[e].snap
               f == IF d # z THEN fixed_mapper_freepages(fm, z) ELSE fm
    <3>1. /\ d # z => ~FreeDies(fm, z)
          /\ mem' = [mem EXCEPT ![si.cur].se[e].snap = d]
          /\ fm' = ProtectData(f, d)
      BY <2>2 DEF slab_bucket_cpoint, InitEntries, SE, Bucket, FreeSnapshot
    <3>2. /\ HandlerInv(fm, InUse(fm)) /\ z \in InUse(fm)
      BY <1>3, <2>2, GoodEntries DEF Sound, Bucket, DataInUse
    <3>3. /\ HandlerInv(f, InUse(f)) /\ (Tracks(f) => Tracks(fm)) /\ f.stSize = fm.stSize
          /\ InUse(f) = InUse(fm) \/ (d # z /\ InUse(f) = InUse(fm) \ {z})
      <4> HIDE DEF d, z
      <4>1. CASE d # z
        <5>1. f = fixed_mapper_freepages(fm, z)
          BY <4>1
        <5> QED
          BY <3>1, <3>2, <4>1, <5>1, FreeGivesBack
      <4>2. CASE d = z
        BY <3>2, <4>2
      <4> QED
        BY <4>1, <4>2
    <3> HIDE DEF f
    <3>4. /\ HandlerInv(fm', InUse(fm')) /\ (Tracks(fm') => Tracks(f)) /\ fm'.stSize = f.stSize
          /\ InUse(fm') = InUse(f)
      <4>1. CASE op.type = "REGULAR"
        <5>1. fm' = page_allocator_mprotect_generic(f, d, "R") /\ "R" \in Prot
          BY <3>1, <4>1 DEF ProtectData, Prot
        <5> HIDE DEF d
        <5> QED
          BY <3>3, <5>1, MprotectIsProt
      <4>2. CASE op.type # "REGULAR"
        BY <3>1, <3>3, <4>2 DEF ProtectData
      <4> QED
        BY <4>1, <4>2
    <3> DEFINE m2 == [mem EXCEPT ![si.cur].se[e].snap = d]
    <3>5. /\ Sound(m2, si, fm', TRUE) /\ SameEntries(mem[si.cur], m2[si.cur])
          /\ SameBitmaps(mem, mem[si.cur], m2, m2[si.cur])
      <4>1. e \in InitEntries(mem[si.cur])
        BY <2>2 DEF Bucket
      <4>2. fm'.stSize = fm.stSize
            /\ \/ InUse(fm') = InUse(fm)
               \/ /\ mem[si.cur].se[e].cur # mem[si.cur].se[e].snap
                  /\ InUse(fm') = InUse(fm) \ {mem[si.cur].se[e].snap}
        BY <3>3, <3>4
      <4> HIDE DEF e
      <4> QED
        BY <1>3, <3>4, <4>1, <4>2, EntryCommitted
    <3>6. mem' = m2
      BY <3>1
    <3> HIDE DEF m2
    <3> QED
      BY <1>1, <3>3, <3>4, <3>5, <3>6 DEF Bucket
  <2> QED
    BY <2>1, <2>2
<1>7. InitEntries(Bucket') = InitEntries(Bucket) /\ Bucket'.has = Bucket.has
  BY <1>6 DEF SameEntries
<1>8. Busy' = TRUE
  <2>1. GoodBucket(mem'[si.cur], DataInUse(si, fm'))
    BY <1>6 DEF Sound
  <2> QED
    BY <1>1, <1>7, <2>1, GoodEntries DEF Busy, Bucket
<1>9. LiveInv'
  BY <1>1, <1>3, <1>6, <1>7, CarryLive DEF SameBitmaps
<1>10. Tracks(fm') => EntriesInOrder'
  BY <1>1, <1>3, <1>6, <1>7, CarryOrder
<1>11. CallInv'
  BY <1>1, <1>3, <1>5, <1>7 DEF CallInv, InCpoint
<1>12. ProcessType'
  BY <1>1, <1>3 DEF ProcessType
<1> QED
  BY <1>1, <1>2, <1>3, <1>6, <1>7, <1>8, <1>9, <1>10, <1>11, <1>12, StillRunning

-----------------------------------------------------------------------------
(* The death of the process *)

(* What the invariant says of a container that exists *)
LEMMA Created ==
    ASSUME IndInv, si.cur # NULL
    PROVE  ProcessType /\ FileInv
BY DEF IndInv

(* The process dies, having extended the file or not, and leaves the pages *)
(* and references of a file that fits together.                            *)
LEMMA DeadKeeps ==
    ASSUME IndInv, si.cur # NULL, NEW w \in Down, NEW n \in Nat, Dead(w, n),
           FileInv', si'.cur # NULL
    PROVE  IndInv'
<1>1. /\ pc' = w /\ fm' = EmptyHandler(n) /\ flags' = flags
      /\ vec' = vec /\ es' = [s \in Sizes |-> NULL] /\ freeEntries' = <<>> /\ nextId' = 0
      /\ buffer' = buffer /\ live' = {} /\ handed' = 0 /\ dirty' = dirty
  BY DEF Dead
<1>2. fm'.stSize = n
  BY <1>1 DEF EmptyHandler
<1>3. ProcessType
  BY Created
<1>4. ProcessType'
  BY <1>1, <1>3, EmptySeq DEF ProcessType
<1> QED
  BY <1>1, <1>2, <1>4 DEF IndInv

(* The pages and references are those there were. *)
LEMMA FileKept ==
    ASSUME IndInv, si.cur # NULL, NEW w \in Down, NEW n \in Nat, fm.stSize =< n,
           n =< MaxPages, Dead(w, n), mem' = mem, si' = si
    PROVE  IndInv'
<1>1. fm'.stSize = n
  BY DEF Dead, EmptyHandler
<1>2. FileInv
  BY Created
<1>3. FileInv'
  <2>1. /\ mem \in [Page -> DataPage \cup BucketRec] /\ fm.stSize \in Nat
        /\ si \in [cur : Pages(fm.stSize) \ MetaPages, snap : Pages(fm.stSize) \ MetaPages]
        /\ MetaPages \subseteq Pages(fm.stSize)
        /\ GoodBucket(mem[si.cur], DataPages) /\ GoodBucket(mem[si.snap], DataPages)
    BY <1>2 DEF FileInv, Bucket, SnapshotBucket
  <2>2. Pages(fm.stSize) \subseteq Pages(n)
    BY <2>1, MorePages
  <2>3. DataPages \subseteq DataPages'
    BY <1>1, <2>2 DEF DataPages
  <2>4. PagesOf(mem[si.cur]) \subseteq DataPages' /\ PagesOf(mem[si.snap]) \subseteq DataPages'
    BY <2>1, <2>3, GoodEntries
  <2>5. GoodBucket(mem[si.cur], DataPages') /\ GoodBucket(mem[si.snap], DataPages')
    BY <2>1, <2>4, Widen
  <2>6. /\ si' \in [cur : Pages(n) \ MetaPages, snap : Pages(n) \ MetaPages]
        /\ MetaPages \subseteq Pages(n)
    BY <2>1, <2>2
  <2> QED
    BY <1>1, <2>1, <2>5, <2>6 DEF FileInv, Bucket, SnapshotBucket
<1> QED
  BY <1>3, DeadKeeps

(* A checkpoint that dies in freepages has stored the reference whose page *)
(* it was about to free: of an entry, or of the bucket.                    *)
LEMMA FreeingEffect ==
    ASSUME IndInv, DiesFreeing
    PROVE  /\ pc \notin Down /\ pc = "cpEntry" /\ Bucket.has /\ si.cur # NULL
           /\ si'.cur = si.cur /\ Sound(mem', si', fm, TRUE)
           /\ SameEntries(Bucket, Bucket')
           /\ \A p \in Page : p # si.cur => mem'[p] = mem[p]
           /\ si' = si \/ (mem' = mem /\ si'.snap = si.cur)
<1>1. pc \notin Down /\ pc = "cpEntry" /\ Bucket.has
  BY DEF DiesFreeing, Down
<1>2. /\ Sound(mem, si, fm, TRUE) /\ si.cur # NULL
  <2>1. Sound(mem, si, fm, Busy) /\ si.cur # NULL
    BY <1>1, Running
  <2> QED
    BY <2>1 DEF Sound
<1>3. /\ mem \in [Page -> DataPage \cup BucketRec] /\ si \in [cur : Page, snap : Page]
      /\ HandlerInv(fm, InUse(fm)) /\ GoodBucket(mem[si.cur], DataInUse(si, fm))
  BY <1>2 DEF Sound
<1>4. CASE /\ op.i < NEntries /\ SLAB_ENTRY_IS_INIT(SE(op.i)) /\ SE(op.i).cur # SE(op.i).snap
           /\ mem' = [mem EXCEPT ![si.cur].se[op.i].snap = SE(op.i).cur] /\ si' = si
  <2>1. op.i \in InitEntries(mem[si.cur])
    <3>1. op.i \in 0 .. NEntries
      BY <1>1, Running DEF CallInv, InCpoint
    <3> QED
      BY <1>4, <3>1, EntriesAssumption DEF InitEntries, Entries, SE, Bucket
  <2> DEFINE e == op.i
             m2 == [mem EXCEPT ![si.cur].se[e].snap = mem[si.cur].se[e].cur]
  <2>2. Sound(m2, si, fm, TRUE) /\ SameEntries(mem[si.cur], m2[si.cur])
    <3> HIDE DEF e
    <3>1. e \in InitEntries(mem[si.cur])
      BY <2>1 DEF e
    <3> QED
      BY <1>2, <1>3, <3>1, EntryCommitted
  <2>3. mem' = m2
    BY <1>4 DEF SE, Bucket
  <2>4. \A p \in Page : p # si.cur => m2[p] = mem[p]
    BY <1>3
  <2> HIDE DEF m2
  <2> QED
    BY <1>1, <1>2, <1>4, <2>2, <2>3, <2>4 DEF Bucket
<1>5. CASE si' = CommittedBucket /\ mem' = mem
  <2>1. /\ si' \in [cur : Page, snap : Page] /\ si'.cur = si.cur /\ si'.snap = si.cur
    BY <1>3, <1>5 DEF CommittedBucket
  <2>2. /\ MetaPages \subseteq InUse(fm) /\ fm.stSize =< MaxPages
        /\ si.cur \in InUse(fm) \ MetaPages /\ si.snap \in InUse(fm) \ MetaPages
    BY <1>2 DEF Sound
  <2>3. DataInUse(si, fm) \subseteq DataInUse(si', fm)
    BY <2>1 DEF DataInUse
  <2>4. GoodBucket(mem[si.cur], DataInUse(si', fm))
    <3>1. PagesOf(mem[si.cur]) \subseteq DataInUse(si', fm)
      BY <1>3, <2>3, GoodEntries
    <3> QED
      BY <1>3, <3>1, Widen
  <2>5. GoodBucket(mem[si.cur], Pages(fm.stSize) \ (MetaPages \cup {si'.cur, si'.snap}))
    <3>1. InUse(fm) \subseteq Pages(fm.stSize)
      BY <1>3, <2>2, UsedPages
    <3>2. PagesOf(mem[si.cur]) \subseteq Pages(fm.stSize) \ (MetaPages \cup {si'.cur, si'.snap})
      BY <2>4, <3>1, GoodEntries DEF DataInUse
    <3> QED
      BY <1>3, <3>2, Widen
  <2>6. Sound(mem', si', fm, TRUE)
    BY <1>3, <1>5, <2>1, <2>2, <2>4, <2>5 DEF Sound
  <2>7. Bucket' = Bucket
    BY <1>5, <2>1 DEF Bucket
  <2> QED
    BY <1>1, <1>2, <1>5, <2>1, <2>6, <2>7 DEF SameEntries
<1> QED
  BY <1>4, <1>5 DEF DiesFreeing

(* The file of a process that fits together fits together when it is gone. *)
LEMMA FreeingKeeps ==
    ASSUME IndInv, DiesFreeing
    PROVE  IndInv'
<1>1. si.cur # NULL /\ si'.cur = si.cur /\ Sound(mem', si', fm, TRUE)
  BY FreeingEffect
<1>2. Dead("diedIndex", fm.stSize) /\ "diedIndex" \in Down
  BY DEF DiesFreeing, Down
<1>3. fm'.stSize = fm.stSize
  BY <1>2 DEF Dead, EmptyHandler
<1>4. /\ HandlerInv(fm, InUse(fm)) /\ fm.stSize =< MaxPages
      /\ mem' \in [Page -> DataPage \cup BucketRec] /\ si' \in [cur : Page, snap : Page]
      /\ MetaPages \subseteq InUse(fm)
      /\ si'.cur \in InUse(fm) \ MetaPages /\ si'.snap \in InUse(fm) \ MetaPages
      /\ GoodBucket(mem'[si'.cur], DataInUse(si', fm))
      /\ GoodBucket(mem'[si'.snap], Pages(fm.stSize) \ (MetaPages \cup {si'.cur, si'.snap}))
  BY <1>1 DEF Sound
<1>5. InUse(fm) \subseteq Pages(fm.stSize) /\ fm.stSize \in Nat
  BY <1>4, UsedPages
<1>6. DataInUse(si', fm) \subseteq DataPages'
  BY <1>3, <1>5 DEF DataInUse, DataPages
<1>7. GoodBucket(mem'[si'.cur], DataPages')
  <2>1. PagesOf(mem'[si'.cur]) \subseteq DataPages'
    BY <1>4, <1>6, GoodEntries
  <2> QED
    BY <1>4, <2>1, Widen
<1>8. GoodBucket(mem'[si'.snap], DataPages')
  BY <1>3, <1>4 DEF DataPages
<1>9. /\ si' \in [cur : Pages(fm.stSize) \ MetaPages, snap : Pages(fm.stSize) \ MetaPages]
      /\ MetaPages \subseteq Pages(fm.stSize)
  BY <1>4, <1>5
<1>10. FileInv'
  BY <1>3, <1>4, <1>5, <1>7, <1>8, <1>9 DEF FileInv, Bucket, SnapshotBucket
<1> QED
  BY <1>1, <1>2, <1>5, <1>10, DeadKeeps

(* A death between two calls or in the middle of one *)
LEMMA CrashKeeps ==
    ASSUME IndInv, Crash \/ Dies
    PROVE  IndInv'
<1>1. pc \notin Down
  BY DEF Crash, Dies, DiesAllocating, DiesFreeing, DiesFlushing, NeedsPage, Down
<1>2. si.cur # NULL /\ fm.stSize \in Nat /\ fm.stSize =< MaxPages /\ fm.fileSize \in Nat
  <2>1. si.cur # NULL /\ HandlerInv(fm, InUse(fm)) /\ fm.stSize =< MaxPages
    BY <1>1, Running DEF Sound
  <2> QED
    BY <2>1 DEF HandlerInv
<1>3. fm.stSize =< fm.stSize
  BY <1>2
<1>4. CASE Crash \/ DiesFlushing
  <2>1. /\ \E w \in Down : Dead(w, fm.stSize)
        /\ mem' = mem /\ si' = si
    BY <1>4 DEF Crash, DiesFlushing, Down
  <2> QED
    BY <1>2, <1>3, <2>1, FileKept
<1>5. CASE DiesAllocating
  <2> DEFINE n == posix_fallocate(fm, 2 * fm.fileSize)
  <2>1. /\ Dead("diedIndex", n) /\ CanAlloc(fm) /\ AllocDies(fm) /\ "diedIndex" \in Down
        /\ mem' = mem /\ si' = si
    BY <1>5 DEF DiesAllocating, Down
  <2>2. n =< MaxPages
    BY <2>1 DEF CanAlloc, AllocDies
  <2>3. n \in Nat /\ fm.stSize =< n
    BY <1>2 DEF posix_fallocate
  <2> HIDE DEF n
  <2> QED
    BY <1>2, <2>1, <2>2, <2>3, FileKept
<1> QED
  BY <1>4, <1>5, FreeingKeeps DEF Dies

(* A restore that dies on its mapping or on its assertion *)
LEMMA RestoreDiesKeeps ==
    ASSUME IndInv, RestoreFaults \/ RestoreAsserts
    PROVE  IndInv'
<1>1. /\ fm.stSize > 0 /\ \E w \in Down : Dead(w, fm.stSize)
      /\ mem' = mem /\ si' = si
  BY DEF RestoreFaults, RestoreAsserts, Down
<1>2. si.cur # NULL
  BY <1>1 DEF IndInv
<1>3. fm.stSize \in Nat /\ fm.stSize =< MaxPages
  BY <1>2, Created DEF FileInv
<1>4. fm.stSize =< fm.stSize
  BY <1>3
<1> QED
  BY <1>1, <1>2, <1>3, <1>4, FileKept

-----------------------------------------------------------------------------
(* The restore *)

(* sd_free_list after entry i - 1 of b was looked at, from list l *)
After(l, b, i) == IF SLAB_ENTRY_IS_INIT(b.se[i - 1]) THEN l ELSE Append(l, i - 1)

(* f holds sd_free_list after each of the first n entries of b. *)
FreeLists(f, b, n) ==
    /\ f = [i \in 0 .. n |-> f[i]] /\ f[0] = <<>>
    /\ \A i \in 1 .. n : f[i] = After(f[i - 1], b, i)

(* There is a list after every entry. *)
LEMMA FreeListsExist ==
    ASSUME NEW b
    PROVE  \E f : FreeLists(f, b, NEntries)
<1> DEFINE T == {n \in 0 .. NEntries : \E f : FreeLists(f, b, n)}
<1>1. NEntries \in Nat
  BY EntriesAssumption
<1>2. 0 \in T
  <2> DEFINE f == [i \in 0 .. 0 |-> <<>>]
  <2>1. f = [i \in 0 .. 0 |-> f[i]] /\ f[0] = <<>> /\ 1 .. 0 = {}
    OBVIOUS
  <2> HIDE DEF f
  <2>2. FreeLists(f, b, 0)
    BY <2>1 DEF FreeLists
  <2> QED
    BY <1>1, <2>2
<1>3. ASSUME NEW n \in 0 .. NEntries - 1, n \in T
      PROVE  n + 1 \in T
  <2>1. PICK f : FreeLists(f, b, n)
    BY <1>3
  <2> DEFINE g == [i \in 0 .. n + 1 |-> IF i = n + 1 THEN After(f[n], b, n + 1) ELSE f[i]]
  <2>2. n \in Nat /\ n + 1 \in 0 .. NEntries
    BY <1>1
  <2>3. g = [i \in 0 .. n + 1 |-> g[i]] /\ g[0] = <<>>
    BY <2>1, <2>2 DEF FreeLists
  <2>4. ASSUME NEW i \in 1 .. n + 1
        PROVE  g[i] = After(g[i - 1], b, i)
    <3>1. i \in 0 .. n + 1 /\ i - 1 \in 0 .. n + 1 /\ i - 1 # n + 1
      BY <2>2
    <3>2. g[i - 1] = f[i - 1]
      BY <3>1
    <3>3. CASE i = n + 1
      <4>1. g[i] = After(f[n], b, n + 1) /\ i - 1 = n
        BY <2>2, <3>1, <3>3
      <4> QED
        BY <3>2, <3>3, <4>1
    <3>4. CASE i # n + 1
      <4>1. g[i] = f[i] /\ i \in 1 .. n
        BY <2>2, <3>1, <3>4
      <4> QED
        BY <2>1, <3>2, <4>1 DEF FreeLists
    <3> QED
      BY <3>3, <3>4
  <2> HIDE DEF g
  <2>5. FreeLists(g, b, n + 1)
    BY <2>3, <2>4 DEF FreeLists
  <2> QED
    BY <2>2, <2>5
<1> HIDE DEF T
<1>4. \A n \in 0 .. NEntries : n \in T
  BY <1>1, <1>2, <1>3, SetInduction, Zenon
<1>5. NEntries \in T
  BY <1>1, <1>4
<1> QED
  BY <1>5 DEF T

(* FreeEntriesOf is a list of entries. *)
LEMMA FreeEntriesType ==
    ASSUME NEW b
    PROVE  FreeEntriesOf(b) \in Seq(Entries)
<1> DEFINE Def(f) == [i \in 0 .. NEntries |->
                         IF i = 0 THEN <<>> ELSE After(f[i - 1], b, i)]
           after == CHOOSE f : f = Def(f)
           T == {n \in 0 .. NEntries : after[n] \in Seq(Entries)}
<1>0. NEntries \in Nat
  BY EntriesAssumption
<1>1. FreeEntriesOf(b) = after[NEntries]
  BY DEF FreeEntriesOf, After
<1>2. PICK f : FreeLists(f, b, NEntries)
  BY FreeListsExist
<1>3. f = Def(f)
  <2>1. f = [i \in 0 .. NEntries |-> f[i]]
    BY <1>2 DEF FreeLists
  <2>2. ASSUME NEW i \in 0 .. NEntries
        PROVE  f[i] = IF i = 0 THEN <<>> ELSE After(f[i - 1], b, i)
    <3>1. CASE i = 0
      BY <1>2, <3>1 DEF FreeLists
    <3>2. CASE i # 0
      <4>1. i \in 1 .. NEntries
        BY <1>0, <3>2
      <4> QED
        BY <1>2, <3>2, <4>1 DEF FreeLists
    <3> QED
      BY <3>1, <3>2
  <2>3. [i \in 0 .. NEntries |-> f[i]] = Def(f)
    BY <2>2
  <2> QED
    BY <2>1, <2>3
<1>4. after = Def(after)
  BY <1>3, Zenon
<1> HIDE DEF after
<1>9. FreeLists(after, b, NEntries)
  BY <1>4, EntriesAssumption DEF FreeLists
<1>5. 0 \in T
  <2>1. after[0] = <<>>
    BY <1>9 DEF FreeLists
  <2>2. <<>> \in Seq(Entries) /\ 0 \in 0 .. NEntries
    BY <1>0
  <2>3. after[0] \in Seq(Entries)
    BY <2>1, <2>2, Zenon
  <2> QED
    BY <2>2, <2>3
<1>6. ASSUME NEW n \in 0 .. NEntries - 1, n \in T
      PROVE  n + 1 \in T
  <2>1. n + 1 \in 0 .. NEntries /\ n + 1 \in 1 .. NEntries /\ n + 1 - 1 = n /\ n \in Entries
    BY <1>0 DEF Entries
  <2>2. after[n + 1] = After(after[n], b, n + 1)
    <3>1. \A i \in 1 .. NEntries : after[i] = After(after[i - 1], b, i)
      BY <1>9 DEF FreeLists
    <3>2. after[n + 1] = After(after[n + 1 - 1], b, n + 1)
      BY <2>1, <3>1
    <3> QED
      BY <2>1, <3>2, Zenon
  <2>3. after[n] \in Seq(Entries)
    BY <1>6
  <2>4. After(after[n], b, n + 1) \in Seq(Entries)
    BY <2>1, <2>3 DEF After
  <2> QED
    BY <2>1, <2>2, <2>4
<1> HIDE DEF T
<1>7. \A n \in 0 .. NEntries : n \in T
  BY <1>0, <1>5, <1>6, SetInduction, Zenon
<1>8. NEntries \in T
  BY <1>0, <1>7
<1> QED
  BY <1>1, <1>8 DEF T

(* index_slab_entry puts initialised entries at the heads of the lists. *)
LEMMA IndexedEntries ==
    ASSUME NEW m, NEW b, NEW S, GoodBucket(b, S)
    PROVE  /\ index_slab_entry(m, b) \in [Sizes -> Entries \cup {NULL}]
           /\ \A s \in Sizes : index_slab_entry(m, b)[s] # NULL =>
                   index_slab_entry(m, b)[s] \in InitEntries(b)
<1> DEFINE Full(e) == IF b.se[e].size = "L"
                      THEN Slots("L") \subseteq b.se[e].bm
                      ELSE Slots("S") \subseteq AsData(m[b.se[e].cur]).hdr
           Of(s) == {e \in Entries : b.se[e].size = s}
           Room(s) == {e \in Of(s) : ~Full(e)}
           First(s) == IF Of(s) = {} THEN NULL
                       ELSE IF Room(s) # {} THEN CHOOSE e \in Room(s) : \A f \in Room(s) : f =< e
                       ELSE CHOOSE e \in Of(s) : \A f \in Of(s) : e =< f
<1>1. index_slab_entry(m, b) = [s \in Sizes |-> First(s)]
  BY DEF index_slab_entry
<1>2. ASSUME NEW s \in Sizes
      PROVE  First(s) = NULL \/ First(s) \in Of(s)
  <2> DEFINE O == Of(s)
             R == Room(s)
  <2>1. O \in SUBSET Nat /\ R \subseteq O /\ R \in SUBSET (0 .. NEntries - 1) /\ NEntries \in Nat
    BY EntriesAssumption DEF Entries
  <2> HIDE DEF O, R
  <2>2. CASE R # {}
    <3>1. \E e \in R : \A f \in R : f =< e
      BY <2>1, <2>2, GreatestExists
    <3>2. (CHOOSE e \in R : \A f \in R : f =< e) \in R
      BY <3>1
    <3> QED
      BY <2>1, <2>2, <3>2 DEF O, R
  <2>3. CASE R = {} /\ O # {}
    <3>1. \E e \in O : \A f \in O : e =< f
      BY <2>1, <2>3, LeastExists
    <3>2. (CHOOSE e \in O : \A f \in O : e =< f) \in O
      BY <3>1
    <3> QED
      BY <2>3, <3>2 DEF O, R
  <2> QED
    BY <2>2, <2>3 DEF O, R
<1>3. ASSUME NEW s \in Sizes
      PROVE  Of(s) \subseteq InitEntries(b) /\ Of(s) \subseteq Entries
  BY NoSizeAssumption DEF InitEntries, SLAB_ENTRY_IS_INIT
<1> HIDE DEF First, Of
<1> QED
  BY <1>1, <1>2, <1>3

(* The objects of a restored container are finitely many, and each has its *)
(* bit set in an initialised entry.                                        *)
LEMMA ObjectsRestored ==
    ASSUME NEW m, NEW b, NEW S, GoodBucket(b, S)
    PROVE  /\ ObjectsOf(m, b) \subseteq Entries \X (Slots("L") \cup Slots("S"))
           /\ \A o \in ObjectsOf(m, b) : o[1] \in InitEntries(b) /\ o[2] \in BitmapOf(m, b, o[1])
           /\ IsFiniteSet(ObjectsOf(m, b))
<1>1. ObjectsOf(m, b) \subseteq Entries \X (Slots("L") \cup Slots("S"))
  BY DEF ObjectsOf
<1>2. ASSUME NEW o \in ObjectsOf(m, b)
      PROVE  o[1] \in InitEntries(b) /\ o[2] \in BitmapOf(m, b, o[1])
  BY DEF ObjectsOf, InitEntries, BitmapOf
<1>3. IsFiniteSet(Entries) /\ IsFiniteSet(Slots("L")) /\ IsFiniteSet(Slots("S"))
  BY EntriesAssumption, CapacityAssumption, FS_Interval DEF Entries, Slots
<1>4. IsFiniteSet(Slots("L") \cup Slots("S"))
  BY <1>3, FS_Union
<1>5. IsFiniteSet(Entries \X (Slots("L") \cup Slots("S")))
  BY <1>3, <1>4, FS_Product
<1> QED
  BY <1>1, <1>2, <1>5, FS_Subset

(* A restore that gets to the end of its mapping: the mapper has no index  *)
(* and no available page, so every page of the file is in use.             *)
LEMMA RestoredKeeps ==
    ASSUME IndInv, pc \in Down, fm.stSize > 0, pc' \in {"run", "cpEntry"}, mem' = mem,
           si'.cur \in {si.cur, si.snap}, si'.snap = si.snap, DOMAIN si' = {"cur", "snap"},
           si' = [cur |-> si'.cur, snap |-> si'.snap],
           HandlerInv(fm', InUse(fm')), InUse(fm') = Pages(fm.stSize), ~Tracks(fm'),
           fm'.stSize = fm.stSize, Mapped(mem[si'.cur]),
           pc' = "cpEntry" => op'.i = 0,
           flags' = flags, vec' = vec, dirty' = dirty
    PROVE  IndInv'
<1>1. si.cur # NULL
  BY DEF IndInv
<1>2. ProcessType /\ FileInv
  BY <1>1, Created
<1>3. /\ mem \in [Page -> DataPage \cup BucketRec] /\ fm.stSize \in Nat /\ fm.stSize =< MaxPages
      /\ si.cur \in Pages(fm.stSize) \ MetaPages /\ si.snap \in Pages(fm.stSize) \ MetaPages
      /\ MetaPages \subseteq Pages(fm.stSize)
      /\ GoodBucket(mem[si.cur], DataPages) /\ GoodBucket(mem[si.snap], DataPages)
  BY <1>2 DEF FileInv, Bucket, SnapshotBucket
<1> DEFINE P == Pages(fm.stSize) \ (MetaPages \cup {si'.cur, si'.snap})
<1>4. DataPages \subseteq P /\ DataInUse(si', fm') = P
  BY DEF DataPages, DataInUse
<1>5. GoodBucket(mem[si'.cur], P) /\ GoodBucket(mem[si'.snap], P)
  <2>1. GoodBucket(mem[si'.cur], DataPages) /\ GoodBucket(mem[si'.snap], DataPages)
    BY <1>3
  <2>2. PagesOf(mem[si'.cur]) \subseteq P /\ PagesOf(mem[si'.snap]) \subseteq P
    BY <1>4, <2>1, GoodEntries
  <2> HIDE DEF P
  <2> QED
    BY <2>1, <2>2, Widen
<1>6. Sound(mem', si', fm', Busy')
  <2>1. Pages(fm.stSize) \subseteq Page
    BY <1>3, MorePages, PagesAssumption DEF Page
  <2>2. si' \in [cur : Page, snap : Page]
    BY <1>3, <2>1
  <2> QED
    BY <1>3, <1>4, <1>5, <2>2 DEF Sound
<1>7. /\ es' = index_slab_entry(mem, mem[si'.cur]) /\ freeEntries' = FreeEntriesOf(mem[si'.cur])
      /\ live' = ObjectsOf(mem, mem[si'.cur])
      /\ handed' = Cardinality(ObjectsOf(mem, mem[si'.cur])) /\ buffer' \in {NULL, "lost"}
  BY DEF Mapped
<1>8. Bucket' = mem[si'.cur]
  BY DEF Bucket
<1>9. /\ es' \in [Sizes -> Entries \cup {NULL}]
      /\ \A s \in Sizes : es'[s] # NULL => es'[s] \in InitEntries(Bucket')
  BY <1>5, <1>7, <1>8, IndexedEntries
<1>10. /\ live' \subseteq Entries \X (Slots("L") \cup Slots("S")) /\ IsFiniteSet(live')
       /\ \A o \in live' : o[1] \in InitEntries(Bucket') /\ o[2] \in BitmapOf(mem', Bucket', o[1])
       /\ handed' = Cardinality(live')
  BY <1>5, <1>7, <1>8, ObjectsRestored
<1>11. LiveInv'
  BY <1>10 DEF LiveInv, Bitmap, BitmapOf, SE
<1>12. CallInv'
  BY <1>9, EntriesAssumption DEF CallInv, InCpoint
<1>13. ProcessType'
  BY <1>2, <1>7, <1>9, <1>10, FreeEntriesType DEF ProcessType, InCpoint
<1>14. pc' \notin Down
  BY DEF Down
<1> QED
  BY <1>6, <1>11, <1>12, <1>13, <1>14, StillRunning

(* A restore that rolls the interrupted checkpoint forward *)
LEMMA IncompleteKeeps ==
    ASSUME IndInv, RestoreIncomplete
    PROVE  IndInv'
<1>1. /\ pc \in Down /\ fm.stSize > 0 /\ fm' = fixed_mapper_init(fm.stSize) /\ si' = si
      /\ Mapped(mem[si'.cur]) /\ pc' = "cpEntry" /\ op'.i = 0 /\ mem' = mem
      /\ flags' = flags /\ vec' = vec /\ dirty' = dirty
  BY DEF RestoreIncomplete, IncompleteRefs, NoOp
<1>2. si.cur # NULL
  BY <1>1 DEF IndInv
<1>3. fm.stSize \in Nat \ {0}
      /\ si \in [cur : Pages(fm.stSize) \ MetaPages, snap : Pages(fm.stSize) \ MetaPages]
  BY <1>1, <1>2, Created DEF FileInv
<1>4. /\ HandlerInv(fm', InUse(fm')) /\ InUse(fm') = Pages(fm.stSize) /\ ~Tracks(fm')
      /\ fm'.stSize = fm.stSize
  BY <1>1, <1>3, InitUsesAll
<1> QED
  BY <1>1, <1>3, <1>4, RestoredKeeps

(* A restore that takes the bucket of the last checkpoint *)
LEMMA CompleteKeeps ==
    ASSUME IndInv, RestoreComplete
    PROVE  IndInv'
<1>1. /\ pc \in Down /\ fm.stSize > 0 /\ si' = [si EXCEPT !.cur = si.snap]
      /\ fm' = slab_mprotect_datapgs(fixed_mapper_init(fm.stSize), mem[si.snap])
      /\ Mapped(mem[si.snap]) /\ pc' = "run" /\ mem' = mem
      /\ flags' = flags /\ vec' = vec /\ dirty' = dirty
  BY DEF RestoreComplete, SnapshotBucket
<1>2. si.cur # NULL
  BY <1>1 DEF IndInv
<1>3. fm.stSize \in Nat \ {0}
      /\ si \in [cur : Pages(fm.stSize) \ MetaPages, snap : Pages(fm.stSize) \ MetaPages]
  BY <1>1, <1>2, Created DEF FileInv
<1>4. /\ HandlerInv(fm', InUse(fm')) /\ InUse(fm') = Pages(fm.stSize) /\ ~Tracks(fm')
      /\ fm'.stSize = fm.stSize
  <2> DEFINE h == fixed_mapper_init(fm.stSize)
  <2>1. /\ HandlerInv(h, InUse(h)) /\ InUse(h) = Pages(fm.stSize) /\ ~Tracks(h)
        /\ h.stSize = fm.stSize
    BY <1>3, InitUsesAll
  <2>2. fm' = slab_mprotect_datapgs(h, mem[si.snap])
    BY <1>1
  <2> HIDE DEF h
  <2> QED
    BY <2>1, <2>2, MprotectDatapgs
<1>5. /\ si'.cur = si.snap /\ si'.snap = si.snap /\ DOMAIN si' = {"cur", "snap"}
      /\ si' = [cur |-> si'.cur, snap |-> si'.snap]
  BY <1>1, <1>3
<1> QED
  BY <1>1, <1>4, <1>5, RestoredKeeps

-----------------------------------------------------------------------------
(* The creation of the container *)

(* container_init takes the first five pages of the file, in order. *)
LEMMA FirstPages ==
    ASSUME container_init
    PROVE  /\ InOrder(fm', 5) /\ InitPages =< fm'.fileSize
           /\ si' = [cur |-> 4, snap |-> 4] /\ mem' = [mem EXCEPT ![4] = EmptyBucket]
<1> DEFINE h0 == fixed_mapper_init(0)
           cont == fixed_mapper_alloc_page(h0, "W")
           sd   == fixed_mapper_alloc_page(cont, "W")
           so   == fixed_mapper_alloc_page(sd, "W")
           inner == fixed_mapper_alloc_page(so, "W")
           sb   == AllocatedPage(inner)
           g == fixed_mapper_alloc_page(inner, "W")
           Long(h) == h.fileSize \in Nat /\ InitPages =< h.fileSize
<1>1. /\ CanAlloc(cont) /\ CanAlloc(sd) /\ CanAlloc(so) /\ CanAlloc(inner)
      /\ fm' = g /\ mem' = [mem EXCEPT ![sb] = EmptyBucket] /\ si' = [cur |-> sb, snap |-> sb]
  BY DEF container_init
<1>2. "W" \in Prot /\ InitPages \in Nat
  BY PagesAssumption DEF Prot
<1>3. ASSUME NEW h, NEW k \in Nat, InOrder(h, k), Long(h), CanAlloc(h)
      PROVE  /\ InOrder(fixed_mapper_alloc_page(h, "W"), k + 1) /\ AllocatedPage(h) = k
             /\ Long(fixed_mapper_alloc_page(h, "W"))
  <2>1. HandlerInv(h, InUse(h)) /\ ~AllocDies(h)
    BY <1>3 DEF InOrder, AllocDies
  <2>2. /\ h.fileSize \in Nat /\ fixed_mapper_alloc_page(h, "W").fileSize \in Nat
        /\ h.fileSize =< fixed_mapper_alloc_page(h, "W").fileSize
    BY <1>2, <2>1, AllocNeverShrinks
  <2> QED
    BY <1>2, <1>3, <2>2, AllocInOrder
<1>4. InOrder(h0, 0) /\ Long(h0) /\ CanAlloc(h0)
  <2>1. InOrder(h0, 0) /\ h0.fileSize = InitPages
    BY InitInOrder, InitNewFile
  <2>2. h0.size = InitPages
    BY <2>1, PagesAssumption DEF InOrder, HandlerInv, ListSound
  <2> QED
    BY <2>1, <2>2, PagesAssumption DEF CanAlloc
<1> HIDE DEF h0, Long
<1>5. InOrder(cont, 1) /\ Long(cont)
  <2>1. 0 \in Nat /\ 0 + 1 = 1
    OBVIOUS
  <2> QED
    BY <1>3, <1>4, <2>1
<1> HIDE DEF cont
<1>6. InOrder(sd, 2) /\ Long(sd)
  <2>1. 1 \in Nat /\ 1 + 1 = 2
    OBVIOUS
  <2> QED
    BY <1>1, <1>3, <1>5, <2>1
<1> HIDE DEF sd
<1>7. InOrder(so, 3) /\ Long(so)
  <2>1. 2 \in Nat /\ 2 + 1 = 3
    OBVIOUS
  <2> QED
    BY <1>1, <1>3, <1>6, <2>1
<1> HIDE DEF so
<1>8. InOrder(inner, 4) /\ Long(inner)
  <2>1. 3 \in Nat /\ 3 + 1 = 4
    OBVIOUS
  <2> QED
    BY <1>1, <1>3, <1>7, <2>1
<1> HIDE DEF inner
<1>9. InOrder(g, 5) /\ Long(g) /\ sb = 4
  <2>1. 4 \in Nat /\ 4 + 1 = 5
    OBVIOUS
  <2> QED
    BY <1>1, <1>3, <1>8, <2>1
<1> QED
  BY <1>1, <1>9 DEF Long

(* The container is created in a file that was empty. *)
LEMMA CreateKeeps ==
    ASSUME IndInv, container_init
    PROVE  IndInv'
<1> DEFINE g == fm'
           sb == 4
<1>1. /\ pc = "down" /\ fm.stSize = 0
      /\ fm' = g /\ mem' = [mem EXCEPT ![sb] = EmptyBucket]
      /\ si' = [cur |-> sb, snap |-> sb] /\ freeEntries' = BucketEntries /\ pc' = "run"
      /\ flags' = flags /\ vec' = vec /\ op' = op /\ es' = es /\ nextId' = nextId
      /\ buffer' = "own" /\ live' = live /\ handed' = handed /\ dirty' = dirty
  BY FirstPages DEF container_init
<1>2. /\ mem = [p \in Page |-> ZeroPage] /\ es = [s \in Sizes |-> NULL] /\ nextId = 0
      /\ live = {} /\ handed = 0 /\ ProcessType
  <2>1. si.cur = NULL
    <3>1. ASSUME si.cur # NULL PROVE FALSE
      <4>1. FileInv
        BY <3>1, Created
      <4>2. MetaPages \subseteq Pages(0)
        BY <1>1, <4>1 DEF FileInv
      <4> QED
        BY <4>2 DEF MetaPages, Pages
    <3> QED
      BY <3>1
  <2> QED
    BY <1>1, <2>1 DEF IndInv, Down
<1>3. InOrder(g, 5) /\ sb = 4
  BY FirstPages
<1> HIDE DEF g, sb
<1>4. /\ HandlerInv(g, InUse(g)) /\ g.stSize =< MaxPages /\ InUse(g) = Pages(5)
  BY <1>3 DEF InOrder
<1>5. InUse(g) \subseteq Page /\ InUse(g) \subseteq Pages(g.stSize)
  BY <1>4, UsedPages
<1>6. /\ MetaPages \subseteq InUse(g) /\ sb \in InUse(g) /\ sb \notin MetaPages /\ sb \in Page
  BY <1>3, <1>4, <1>5 DEF MetaPages, Pages
<1>7. /\ EmptyBucket \in BucketRec /\ InitEntries(EmptyBucket) = {} /\ EmptyBucket.has = FALSE
      /\ \A S : GoodBucket(EmptyBucket, S)
  <2>1. UninitEntry \in EntryType
    BY DEF UninitEntry, EntryType
  <2>2. EmptyBucket \in BucketRec /\ EmptyBucket.has = FALSE
        /\ \A e \in Entries : EmptyBucket.se[e] = UninitEntry
    BY <2>1 DEF EmptyBucket, BucketRec
  <2>3. ~SLAB_ENTRY_IS_INIT(UninitEntry) /\ \A e : EntryOK(UninitEntry, e)
    BY DEF SLAB_ENTRY_IS_INIT, UninitEntry, EntryOK
  <2>4. InitEntries(EmptyBucket) = {}
    BY <2>2, <2>3 DEF InitEntries
  <2>5. PagesOf(EmptyBucket) = {}
    BY <2>4 DEF PagesOf
  <2> QED
    BY <2>2, <2>3, <2>4, <2>5 DEF GoodBucket
<1>8. /\ mem' \in [Page -> DataPage \cup BucketRec] /\ mem'[sb] = EmptyBucket
  <2>1. ZeroPage \in DataPage
    BY DEF ZeroPage, DataPage
  <2>2. mem \in [Page -> DataPage \cup BucketRec]
    BY <1>2, <2>1
  <2> QED
    BY <1>1, <1>6, <1>7, <2>2
<1>9. /\ si' \in [cur : Page, snap : Page] /\ si'.cur = sb /\ si'.snap = sb
  BY <1>1, <1>6
<1>10. Sound(mem', si', fm', Busy')
  BY <1>1, <1>4, <1>6, <1>7, <1>8, <1>9 DEF Sound
<1>11. Bucket' = EmptyBucket
  BY <1>8, <1>9 DEF Bucket
<1>12. BucketEntries \in Seq(Entries) /\ Len(BucketEntries) = NEntries
       /\ \A i \in 1 .. NEntries : BucketEntries[i] = i - 1
  <2>1. BucketEntries \in [1 .. NEntries -> Entries] /\ NEntries \in Nat
    BY EntriesAssumption DEF BucketEntries, Entries
  <2>2. BucketEntries \in Seq(Entries)
    BY <2>1, SeqDef
  <2>3. Len(BucketEntries) = NEntries
    BY <2>1, <2>2, LenProperties
  <2>4. \A i \in 1 .. NEntries : BucketEntries[i] = i - 1
    BY DEF BucketEntries
  <2> QED
    BY <2>2, <2>3, <2>4
<1>13. EntriesInOrder'
  <2>1. \A e \in Entries : e \in InitEntries(Bucket') <=> e < 0
    BY <1>7, <1>11, EntriesAssumption DEF Entries
  <2>2. nextId' = 0 /\ 0 \in 0 .. NEntries /\ 0 =< NEntries /\ pc' # "pallocInit"
    BY <1>1, <1>2, EntriesAssumption
  <2>3. /\ Len(freeEntries') = NEntries - nextId'
        /\ \A i \in 1 .. NEntries - nextId' : freeEntries'[i] = nextId' + i - 1
    BY <1>1, <1>12, <2>2, EntriesAssumption
  <2> QED
    BY <2>1, <2>2, <2>3 DEF EntriesInOrder
<1>14. CallInv'
  BY <1>1, <1>2 DEF CallInv, InCpoint
<1>15. LiveInv'
  BY <1>1, <1>2, FS_EmptySet DEF LiveInv
<1>16. ProcessType'
  BY <1>1, <1>2, <1>12 DEF ProcessType
<1>17. pc' \notin Down /\ Bucket'.has = FALSE
  BY <1>1, <1>7, <1>11 DEF Down
<1> QED
  BY <1>10, <1>13, <1>14, <1>15, <1>16, <1>17, StillRunning

(* There is no container at first. *)
LEMMA InitEstablishes == Init => IndInv
<1> SUFFICES ASSUME Init PROVE IndInv
  OBVIOUS
<1>1. ProcessType
  BY EmptySeq DEF Init, ProcessType, Down
<1>2. fm = EmptyHandler(fm.stSize) /\ fm.stSize = 0 /\ si.cur = NULL
  BY DEF Init, EmptyHandler
<1> QED
  BY <1>1, <1>2 DEF Init, IndInv, Page

-----------------------------------------------------------------------------
(* The theorems that IndInv is enough for *)

(* The invariant of container_init, slab_palloc, the fault handler, the    *)
(* checkpoint, the deaths of the process and container_restore: a bucket   *)
(* and its copy name pages of the file that are in use, each entry its     *)
(* own, and the process agrees with the bucket it has mapped.              *)
THEOREM Invariance == Spec => []IndInv
<1>1. IndInv /\ [Next]_vars => IndInv'
  <2> SUFFICES ASSUME IndInv, [Next]_vars PROVE IndInv'
    OBVIOUS
  <2>1. CASE container_init
    BY <2>1, CreateKeeps
  <2>2. CASE Palloc
    BY <2>2, PallocKeeps DEF Palloc
  <2>3. CASE slab_entry_init
    BY <2>3, EntryInitKeeps
  <2>4. CASE slab_entry_alloc_mem
    BY <2>4, AllocMemKeeps
  <2>5. CASE Write
    BY <2>5, WriteKeeps DEF Write
  <2>6. CASE Cpoint
    BY <2>6, CpointKeeps, BucketKeeps, InnerKeeps, ClearKeeps, SkipKeeps, FlushKeeps,
       ReturnKeeps DEF Cpoint
  <2>7. CASE Crash \/ Dies
    BY <2>7, CrashKeeps
  <2>8. CASE Restore
    BY <2>8, RestoreDiesKeeps, IncompleteKeeps, CompleteKeeps DEF Restore
  <2>9. CASE UNCHANGED vars
    <3>1. /\ mem' = mem /\ si' = si /\ flags' = flags /\ vec' = vec /\ fm' = fm /\ pc' = pc
          /\ op' = op /\ es' = es /\ freeEntries' = freeEntries /\ nextId' = nextId
          /\ buffer' = buffer /\ live' = live /\ handed' = handed /\ dirty' = dirty
      BY <2>9 DEF vars, file, process, known
    <3>2. Bucket' = Bucket /\ SnapshotBucket' = SnapshotBucket /\ DataPages' = DataPages
      BY <3>1 DEF Bucket, SnapshotBucket, DataPages
    <3>3. ProcessType' = ProcessType
      BY <3>1 DEF ProcessType
    <3>4. FileInv' = FileInv
      BY <3>1, <3>2 DEF FileInv
    <3>5. PagesInv' = PagesInv
      BY <3>1, <3>2 DEF PagesInv, Held
    <3>6. CallInv' = CallInv
      BY <3>1, <3>2 DEF CallInv
    <3>7. LiveInv' = LiveInv
      BY <3>1, <3>2 DEF LiveInv, Bitmap, SE
    <3>8. EntriesInOrder' = EntriesInOrder
      BY <3>1, <3>2 DEF EntriesInOrder
    <3> QED
      BY <3>1, <3>3, <3>4, <3>5, <3>6, <3>7, <3>8 DEF IndInv
  <2> QED
    BY <2>1, <2>2, <2>3, <2>4, <2>5, <2>6, <2>7, <2>8, <2>9 DEF Next
<1> QED
  BY <1>1, InitEstablishes, PTL DEF Spec

(* The two bucket references of slab_inner always name pages that hold     *)
(* buckets, and an initialised slab entry names data pages.                *)
THEOREM TypeCorrect == Spec => []TypeOK
<1>1. IndInv => TypeOK
  <2> SUFFICES ASSUME IndInv PROVE TypeOK
    OBVIOUS
  <2>1. ProcessType
    BY DEF IndInv
  <2>2. /\ \A i \in DOMAIN vec : vec[i] \in Entries
        /\ \A i \in DOMAIN freeEntries : freeEntries[i] \in Entries
    <3>1. ASSUME NEW q \in Seq(Entries) PROVE \A i \in DOMAIN q : q[i] \in Entries
      BY <3>1, ElementOfSeq, LenProperties
    <3> QED
      BY <2>1, <3>1 DEF ProcessType
  <2>3. ASSUME si.cur # NULL
        PROVE  /\ BucketType(mem[si.cur]) /\ BucketType(mem[si.snap])
               /\ \A e \in Entries : SLAB_ENTRY_IS_INIT(SE(e)) =>
                    /\ AsData(mem[SE(e).cur]) \in DataPage
                    /\ AsData(mem[SE(e).snap]) \in DataPage
    <3>1. /\ mem \in [Page -> DataPage \cup BucketRec] /\ DataPages \subseteq Page
          /\ GoodBucket(mem[si.cur], DataPages) /\ GoodBucket(mem[si.snap], DataPages)
      BY <2>3, Created, MorePages, PagesAssumption
      DEF FileInv, Bucket, SnapshotBucket, DataPages, Page
    <3>2. BucketType(mem[si.cur]) /\ BucketType(mem[si.snap])
      BY <3>1, GoodEntries DEF BucketType
    <3>3. ASSUME NEW e \in Entries, SLAB_ENTRY_IS_INIT(SE(e))
          PROVE  AsData(mem[SE(e).cur]) \in DataPage /\ AsData(mem[SE(e).snap]) \in DataPage
      <4>1. SE(e).cur \in Page /\ SE(e).snap \in Page
        BY <3>1, <3>3, GoodEntries DEF SE, Bucket, InitEntries
      <4> QED
        BY <3>1, <4>1, AsDataType
    <3> QED
      BY <3>2, <3>3
  <2> QED
    BY <2>1, <2>2, <2>3 DEF TypeOK, ProcessType
<1> QED
  BY <1>1, Invariance, PTL

(* No page that the container refers to is ever available to an            *)
(* allocation: what a checkpoint gives to page_allocator_freepages is      *)
(* named by nothing that is still used, with growth and restores included. *)
THEOREM NoLivePageCorrect == Spec => []NoLivePageAvailable
<1>1. IndInv => NoLivePageAvailable
  <2> SUFFICES ASSUME IndInv, pc \notin Down
               PROVE  PagesIn(fm.freeList) \cap Referenced = {}
    BY DEF NoLivePageAvailable
  <2>1. Held \subseteq InUse(fm)
    BY DEF IndInv, PagesInv, Down
  <2>2. Referenced \subseteq Held
    BY DEF Referenced, Held, InCpoint, Bucket, SnapshotBucket
  <2> QED
    BY <2>1, <2>2 DEF InUse
<1> QED
  BY <1>1, Invariance, PTL

(* The current and the snapshot pages of two entries, the two buckets and  *)
(* the metadata are different pages, whether the process is up or not.     *)
THEOREM NoPageSharedCorrect == Spec => []NoPageShared
<1>1. IndInv => NoPageShared
  <2> SUFFICES ASSUME IndInv, si.cur # NULL PROVE NoPageShared
    BY DEF NoPageShared
  <2>1. GoodBucket(Bucket, DataPages)
    BY Created DEF FileInv
  <2>2. PagesOf(Bucket) \cap (MetaPages \cup {si.cur, si.snap}) = {}
    BY <2>1 DEF GoodBucket, DataPages
  <2> QED
    BY <2>1, <2>2 DEF NoPageShared, GoodBucket, SE
<1> QED
  BY <1>1, Invariance, PTL

(* The identifier that slab_entry_init takes from the counter is the       *)
(* position of the entry, where get_slab_entry_by_id looks for it.         *)
THEOREM IdCorrect == Spec => []IdIsPosition
<1>1. IndInv => IdIsPosition
  <2> SUFFICES ASSUME IndInv, si.cur # NULL PROVE IdIsPosition
    BY DEF IdIsPosition
  <2>1. GoodBucket(Bucket, DataPages)
    BY Created DEF FileInv
  <2> QED
    BY <2>1, GoodEntries DEF IdIsPosition, SE
<1> QED
  BY <1>1, Invariance, PTL

(* slab_palloc never returns an object that the application already has:   *)
(* every object handed out is one more in the set of those it has.         *)
THEOREM NoObjectTwiceCorrect == Spec => []NoObjectTwice
<1>1. IndInv => NoObjectTwice
  <2> SUFFICES ASSUME IndInv PROVE Cardinality(live) = handed
    BY DEF NoObjectTwice
  <2>1. CASE pc \in Down
    BY <2>1, FS_EmptySet DEF IndInv
  <2>2. CASE pc \notin Down
    BY <2>2, Running DEF LiveInv
  <2> QED
    BY <2>1, <2>2
<1> QED
  BY <1>1, Invariance, PTL

-----------------------------------------------------------------------------
(* What the invariant says of the pages that the bucket and its copy name *)
LEMMA Shape ==
    ASSUME IndInv, si.cur # NULL
    PROVE  /\ mem \in [Page -> DataPage \cup BucketRec] /\ si \in [cur : Page, snap : Page]
           /\ Bucket \in BucketRec /\ SnapshotBucket \in BucketRec
           /\ \A e \in InitEntries(Bucket) :
                /\ e \in Entries /\ SE(e).size \in Sizes /\ SE(e) \in EntryType
                /\ SE(e).cur \in Page \ {si.cur, si.snap}
                /\ SE(e).snap \in Page \ {si.cur, si.snap}
           /\ \A e \in InitEntries(SnapshotBucket) :
                /\ e \in Entries /\ SnapshotBucket.se[e].size \in Sizes
                /\ SnapshotBucket.se[e].cur \in Page \ {si.cur, si.snap}
                /\ SnapshotBucket.se[e].snap \in Page \ {si.cur, si.snap}
           /\ \A e, f \in InitEntries(Bucket) : e # f =>
                /\ SE(f).cur # SE(e).cur /\ SE(f).snap # SE(e).cur /\ SE(f).snap # SE(e).snap
           /\ pc \notin Down =>
                /\ InUse(fm) \subseteq Page /\ si.cur \in InUse(fm) /\ si.snap \in InUse(fm)
                /\ HandlerInv(fm, InUse(fm)) /\ fm.stSize =< MaxPages
                /\ \A e \in InitEntries(Bucket) : SE(e).cur \in InUse(fm) /\ SE(e).snap \in InUse(fm)
                /\ ~Busy => \A e \in InitEntries(SnapshotBucket) :
                              SnapshotBucket.se[e].cur \in InUse(fm)
<1>1. /\ mem \in [Page -> DataPage \cup BucketRec]
      /\ fm.stSize \in Nat /\ fm.stSize =< MaxPages
      /\ si \in [cur : Pages(fm.stSize) \ MetaPages, snap : Pages(fm.stSize) \ MetaPages]
      /\ GoodBucket(Bucket, DataPages) /\ GoodBucket(SnapshotBucket, DataPages)
  BY Created DEF FileInv
<1>2. Pages(fm.stSize) \subseteq Page
  BY <1>1, MorePages, PagesAssumption DEF Page
<1>3. DataPages \subseteq Page \ {si.cur, si.snap} /\ si \in [cur : Page, snap : Page]
  BY <1>1, <1>2 DEF DataPages
<1>4. Bucket \in BucketRec /\ SnapshotBucket \in BucketRec
  BY <1>1, GoodEntries
<1>5. ASSUME NEW e \in InitEntries(Bucket)
      PROVE  /\ e \in Entries /\ SE(e).size \in Sizes /\ SE(e) \in EntryType
             /\ SE(e).cur \in DataPages /\ SE(e).snap \in DataPages
  BY <1>1, GoodEntries DEF SE
<1>6. ASSUME NEW e \in InitEntries(SnapshotBucket)
      PROVE  /\ e \in Entries /\ SnapshotBucket.se[e].size \in Sizes
             /\ SnapshotBucket.se[e].cur \in DataPages /\ SnapshotBucket.se[e].snap \in DataPages
  BY <1>1, GoodEntries
<1>7. ASSUME NEW e \in InitEntries(Bucket), NEW f \in InitEntries(Bucket), e # f
      PROVE  SE(f).cur # SE(e).cur /\ SE(f).snap # SE(e).cur /\ SE(f).snap # SE(e).snap
  BY <1>1, <1>7, Apart DEF SE
<1>8. ASSUME pc \notin Down
      PROVE  /\ InUse(fm) \subseteq Page /\ si.cur \in InUse(fm) /\ si.snap \in InUse(fm)
             /\ HandlerInv(fm, InUse(fm)) /\ fm.stSize =< MaxPages
             /\ \A e \in InitEntries(Bucket) : SE(e).cur \in InUse(fm) /\ SE(e).snap \in InUse(fm)
             /\ ~Busy => \A e \in InitEntries(SnapshotBucket) :
                           SnapshotBucket.se[e].cur \in InUse(fm)
  <2>1. Sound(mem, si, fm, Busy)
    BY <1>8, Running
  <2>2. /\ HandlerInv(fm, InUse(fm)) /\ si.cur \in InUse(fm) /\ si.snap \in InUse(fm)
        /\ GoodBucket(Bucket, DataInUse(si, fm))
        /\ ~Busy => GoodBucket(SnapshotBucket, DataInUse(si, fm))
    BY <2>1 DEF Sound, Bucket, SnapshotBucket
  <2>3. \A e \in InitEntries(Bucket) : SE(e).cur \in InUse(fm) /\ SE(e).snap \in InUse(fm)
    BY <2>2, GoodEntries DEF DataInUse, SE
  <2>4. ~Busy => \A e \in InitEntries(SnapshotBucket) : SnapshotBucket.se[e].cur \in InUse(fm)
    BY <2>2, GoodEntries DEF DataInUse
  <2> QED
    BY <1>1, <2>2, <2>3, <2>4, UsedPages
<1> QED
  BY <1>1, <1>3, <1>4, <1>5, <1>6, <1>7, <1>8

(* Only the snapshot page of e differs. *)
LEMMA SnapshotOnly ==
    ASSUME NEW b \in BucketRec, NEW e \in InitEntries(b), NEW q,
           b.se[e].size # NULL
    PROVE  /\ SameEntries(b, WithSnapshot(b, e, q))
           /\ WithSnapshot(b, e, q).se[e].snap = q
           /\ \A f \in Entries : f # e => WithSnapshot(b, e, q).se[f] = b.se[f]
<1> DEFINE c == WithSnapshot(b, e, q)
<1>1. e \in Entries /\ b.se[e] \in EntryType
  BY DEF InitEntries, BucketRec
<1>2. /\ c.has = b.has /\ c.se[e] = [b.se[e] EXCEPT !.snap = q]
      /\ \A f \in Entries : f # e => c.se[f] = b.se[f]
  BY <1>1 DEF WithSnapshot, BucketRec
<1>3. /\ c.se[e].size = b.se[e].size /\ c.se[e].bm = b.se[e].bm /\ c.se[e].cur = b.se[e].cur
      /\ c.se[e].snap = q
  BY <1>1, <1>2 DEF EntryType
<1> HIDE DEF c
<1>4. InitEntries(c) = InitEntries(b)
  BY <1>2, <1>3 DEF InitEntries, SLAB_ENTRY_IS_INIT
<1> QED
  BY <1>2, <1>3, <1>4 DEF SameEntries, c

-----------------------------------------------------------------------------
(* What the steps do to the pages of the file *)

(* content is stored in the data page of e, after a fault if need be. *)
Store(e, content) ==
    IF Faults(e)
    THEN /\ handle_memory_update(e)
         /\ mem' = StoreData(slab_entry_snapshot(e), e, content)
    ELSE /\ mem' = StoreData(mem, e, content)
         /\ UNCHANGED fm

(* A store to a page that is writable changes that page and nothing else. *)
LEMMA StoreInPlace ==
    ASSUME IndInv, pc \notin Down, NEW e \in InitEntries(Bucket), NEW content \in DataPage,
           si' = si, Store(e, content), ~Faults(e)
    PROVE  /\ Bucket' = Bucket /\ SnapshotBucket' = SnapshotBucket /\ fm' = fm
           /\ mem'[SE(e).cur] = content
           /\ \A p \in Page : p # SE(e).cur => mem'[p] = mem[p]
<1>1. mem' = [mem EXCEPT ![SE(e).cur] = content] /\ fm' = fm
  BY DEF Store, StoreData
<1>2. si.cur # NULL
  BY Running
<1>3. /\ mem \in [Page -> DataPage \cup BucketRec] /\ si.cur \in Page /\ si.snap \in Page
      /\ SE(e).cur \in Page \ {si.cur, si.snap}
  BY <1>2, Shape
<1> QED
  BY <1>1, <1>3 DEF Bucket, SnapshotBucket

(* A store to a protected page gives its entry a copy with what the page   *)
(* held, makes the page writable, and leaves other pages in use alone.     *)
LEMMA StoreAfterFault ==
    ASSUME IndInv, pc \notin Down, NEW e \in InitEntries(Bucket), NEW content \in DataPage,
           si' = si, Store(e, content), Faults(e)
    PROVE  /\ SameEntries(Bucket, Bucket')
           /\ \A f \in Entries : f # e => Bucket'.se[f] = SE(f)
           /\ mem'[SE(e).cur] = content /\ mem'[Bucket'.se[e].snap] = AsData(mem[SE(e).cur])
           /\ \A p \in InUse(fm) : p \notin {SE(e).cur, si.cur} => mem'[p] = mem[p]
           /\ Bucket'.se[e].snap \notin InUse(fm)
           /\ InUse(fm') = InUse(fm) \cup {Bucket'.se[e].snap}
           /\ Tracks(fm) /\ Tracks(fm')
           /\ fm.fileSize \in Nat /\ fm'.fileSize \in Nat /\ fm.fileSize =< fm'.fileSize
           /\ fm'.fileSize = fm.fileSize =>
                /\ fm'.prot[SE(e).cur] = "W"
                /\ \A p \in InUse(fm) : p # SE(e).cur => fm'.prot[p] = fm.prot[p]
<1> DEFINE q == AllocatedPage(fm)
           d == SE(e).cur
           k == fixed_mapper_alloc_page(fm, "W")
           m1 == [mem EXCEPT ![q] = AsData(mem[d]), ![si.cur].se[e].snap = q]
<1>0. si.cur # NULL /\ "W" \in Prot
  BY Running DEF Prot
<1>1. /\ CanAlloc(fm) /\ ~AllocDies(fm)
      /\ fm' = page_allocator_mprotect_generic(k, d, "W")
      /\ mem' = [m1 EXCEPT ![d] = content]
  BY DEF Store, handle_memory_update, StoreData, slab_entry_snapshot, SnapshotPage
<1>2. /\ mem \in [Page -> DataPage \cup BucketRec] /\ si.cur \in Page /\ si.snap \in Page
      /\ d \in Page \ {si.cur, si.snap} /\ d \in InUse(fm) /\ e \in Entries /\ SE(e).size \in Sizes
      /\ Bucket \in BucketRec
      /\ HandlerInv(fm, InUse(fm)) /\ fm.stSize =< MaxPages /\ InUse(fm) \subseteq Page
      /\ si.cur \in InUse(fm)
  BY <1>0, Shape
<1>3. /\ HandlerInv(k, InUse(k)) /\ Tracks(fm) /\ Tracks(k) /\ q \notin InUse(fm)
      /\ q \in Pages(k.stSize) /\ InUse(k) = InUse(fm) \cup {q} /\ k.stSize =< MaxPages
  BY <1>0, <1>1, <1>2, AllocTakes
<1>4. ASSUME k.fileSize = fm.fileSize
      PROVE  \A p \in InUse(fm) : k.prot[p] = fm.prot[p]
  BY <1>0, <1>1, <1>2, <1>4, AllocWithoutGrowth
<1>5. fm.fileSize \in Nat /\ k.fileSize \in Nat /\ fm.fileSize =< k.fileSize
  BY <1>0, <1>1, <1>2, AllocNeverShrinks
<1> HIDE DEF k, q
<1>6. /\ InUse(fm') = InUse(k) /\ Tracks(fm')
  BY <1>0, <1>1, <1>3, MprotectIsProt
<1>7. /\ fm'.fileSize = k.fileSize
      /\ \A p \in Pages(k.fileSize) \ {d} : fm'.prot[p] = k.prot[p]
  BY <1>0, <1>1, <1>3, MprotectKeeps
<1>8. fm'.prot[d] = "W"
  <2>1. d \in Pages(k.fileSize) /\ k.prot \in [Pages(k.fileSize) -> Prot] /\ DOMAIN k = HandlerFields
    BY <1>2, <1>3 DEF HandlerInv, InUse
  <2> QED
    BY <1>1, <2>1 DEF page_allocator_mprotect_generic, HandlerFields
<1>9. q \in Page /\ q # si.cur /\ q # d
  <2>1. q \in Page
    BY <1>3, UsedPages
  <2> QED
    BY <1>2, <1>3, <2>1
<1>10. /\ m1[si.cur] = WithSnapshot(Bucket, e, q) /\ m1[q] = AsData(mem[d]) /\ DOMAIN m1 = Page
      /\ \A p \in Page : p \notin {q, si.cur} => m1[p] = mem[p]
  <2> DEFINE x == AsData(mem[d])
             r == si.cur
  <2>1. mem[r] \in BucketRec /\ r \in Page /\ q # r /\ mem[r] = Bucket
    BY <1>2, <1>9 DEF Bucket
  <2>2. m1 = [mem EXCEPT ![q] = x, ![r].se[e].snap = q]
    OBVIOUS
  <2> HIDE DEF x, r, m1, d
  <2>3. /\ m1[r] = WithSnapshot(mem[r], e, q) /\ m1[q] = x /\ DOMAIN m1 = Page
        /\ \A p \in Page : p \notin {q, r} => m1[p] = mem[p]
    <3>1. mem \in [Page -> DataPage \cup BucketRec] /\ e \in Entries /\ q \in Page
      BY <1>2, <1>9
    <3> QED
      BY <2>1, <2>2, <3>1 DEF WithSnapshot
  <2> QED
    BY <2>1, <2>3 DEF x, r
<1> HIDE DEF m1
<1>11. /\ Bucket' = WithSnapshot(Bucket, e, q) /\ mem'[d] = content /\ mem'[q] = AsData(mem[d])
       /\ \A p \in Page : p \notin {q, d, si.cur} => mem'[p] = mem[p]
  BY <1>1, <1>2, <1>9, <1>10 DEF Bucket
<1>12. /\ SameEntries(Bucket, Bucket') /\ Bucket'.se[e].snap = q
       /\ \A f \in Entries : f # e => Bucket'.se[f] = SE(f)
  BY <1>2, <1>11, SnapshotOnly, NoSizeAssumption DEF SE
<1>13. \A p \in InUse(fm) : p \notin {d, si.cur} => mem'[p] = mem[p]
  BY <1>2, <1>3, <1>11
<1>14. fm'.fileSize = fm.fileSize =>
                \A p \in InUse(fm) : p # d => fm'.prot[p] = fm.prot[p]
  <2>1. \A p \in InUse(fm) : p \in Pages(k.fileSize)
    BY <1>3 DEF InUse
  <2> QED
    BY <1>4, <1>7, <2>1
<1> QED
  BY <1>3, <1>6, <1>7, <1>8, <1>11, <1>12, <1>13, <1>14, <1>5

(* The bucket after one of its fields changed: has, or entry e *)
LEMMA HasOnly ==
    ASSUME NEW b \in BucketRec, NEW v \in BOOLEAN
    PROVE  [b EXCEPT !.has = v].se = b.se /\ [b EXCEPT !.has = v].has = v
BY DEF BucketRec

(* An assignment to one entry of a bucket leaves the others alone. *)
LEMMA EntryOnly ==
    ASSUME NEW b \in BucketRec, NEW e \in Entries, NEW x
    PROVE  /\ [b EXCEPT !.se[e] = x].has = b.has /\ [b EXCEPT !.se[e] = x].se[e] = x
           /\ \A f \in Entries : f # e => [b EXCEPT !.se[e] = x].se[f] = b.se[f]
BY DEF BucketRec

(* slab_bucket_snapshot: the bucket is copied, or it was copied before. *)
LEMMA PallocEffect ==
    ASSUME IndInv, pc \notin Down, slab_bucket_snapshot
    PROVE  /\ Bucket'.se = Bucket.se /\ si'.cur = si.cur
           /\ \A p \in InUse(fm) : p # si.cur => mem'[p] = mem[p]
           /\ si.cur # si.snap => si' = si /\ SnapshotBucket' = SnapshotBucket /\ fm' = fm
           /\ si.cur = si.snap =>
                /\ SnapshotBucket' = Bucket
                /\ InUse(fm') = InUse(fm) \cup {si'.snap}
                /\ Tracks(fm) /\ Tracks(fm')
                /\ fm.fileSize \in Nat /\ fm'.fileSize \in Nat /\ fm.fileSize =< fm'.fileSize
                /\ fm'.fileSize = fm.fileSize =>
                        \A p \in InUse(fm) : fm'.prot[p] = fm.prot[p]
<1>0. si.cur # NULL /\ "W" \in Prot
  BY Running DEF Prot
<1>1. /\ mem \in [Page -> DataPage \cup BucketRec] /\ si \in [cur : Page, snap : Page]
      /\ Bucket \in BucketRec /\ HandlerInv(fm, InUse(fm)) /\ fm.stSize =< MaxPages
      /\ InUse(fm) \subseteq Page /\ si.cur \in InUse(fm)
  BY <1>0, Shape
<1>2. CASE si.cur # si.snap
  <2>1. mem' = [mem EXCEPT ![si.cur].has = FALSE] /\ fm' = fm /\ si' = si
    BY <1>2 DEF slab_bucket_snapshot
  <2> DEFINE c == [Bucket EXCEPT !.has = FALSE]
  <2>2. mem' = [mem EXCEPT ![si.cur] = c]
    BY <2>1 DEF Bucket
  <2>3. c.se = Bucket.se
    BY <1>1, HasOnly
  <2> HIDE DEF c
  <2> QED
    BY <1>1, <1>2, <2>1, <2>2, <2>3 DEF Bucket, SnapshotBucket
<1>3. CASE si.cur = si.snap
  <2> DEFINE q == AllocatedPage(fm)
             g == fixed_mapper_alloc_page(fm, "W")
             c == [Bucket EXCEPT !.has = TRUE]
  <2>1. /\ mem' = [mem EXCEPT ![q] = Bucket, ![si.cur].has = TRUE] /\ fm' = g
        /\ si' = [si EXCEPT !.snap = q] /\ CanAlloc(fm) /\ ~AllocDies(fm)
    BY <1>3 DEF slab_bucket_snapshot
  <2>2. /\ Tracks(fm) /\ Tracks(g) /\ q \notin InUse(fm) /\ HandlerInv(g, InUse(g))
        /\ q \in Pages(g.stSize) /\ InUse(g) = InUse(fm) \cup {q} /\ g.stSize =< MaxPages
    BY <1>0, <1>1, <2>1, AllocTakes
  <2>3. /\ g.fileSize = fm.fileSize => \A p \in InUse(fm) : g.prot[p] = fm.prot[p]
        /\ fm.fileSize \in Nat /\ g.fileSize \in Nat /\ fm.fileSize =< g.fileSize
    BY <1>0, <1>1, <2>1, AllocWithoutGrowth, AllocNeverShrinks
  <2> HIDE DEF q, g
  <2>4. q \in Page /\ q # si.cur
    BY <1>1, <2>2, UsedPages
  <2>5. /\ mem'[si.cur] = c /\ mem'[q] = Bucket
        /\ \A p \in Page : p # si.cur /\ p # q => mem'[p] = mem[p]
    BY <1>1, <2>1, <2>4 DEF Bucket
  <2>6. c.se = Bucket.se
    BY <1>1, HasOnly
  <2> HIDE DEF c
  <2>7. si'.cur = si.cur /\ si'.snap = q
    BY <1>1, <2>1
  <2>8. Bucket'.se = Bucket.se /\ SnapshotBucket' = Bucket
    BY <2>5, <2>6, <2>7 DEF Bucket, SnapshotBucket
  <2>9. \A p \in InUse(fm) : p # si.cur => mem'[p] = mem[p]
    BY <1>1, <2>2, <2>5
  <2> QED
    BY <1>3, <2>1, <2>2, <2>3, <2>7, <2>8, <2>9
<1> QED
  BY <1>2, <1>3

(* slab_entry_init of an entry that has no page *)
LEMMA InitEffect ==
    ASSUME IndInv, slab_entry_init, op.e \notin InitEntries(Bucket)
    PROVE  /\ op.e \in Entries /\ op.size \in Sizes /\ si.cur # si.snap
           /\ InitEntries(Bucket') = InitEntries(Bucket) \cup {op.e}
           /\ \A f \in Entries : f # op.e => Bucket'.se[f] = SE(f)
           /\ Bucket'.se[op.e].size = op.size
           /\ Bucket'.se[op.e].snap = Bucket'.se[op.e].cur
           /\ \A p \in Page : p # si.cur => mem'[p] = mem[p]
           /\ Bucket'.se[op.e].cur \notin InUse(fm)
           /\ InUse(fm') = InUse(fm) \cup {Bucket'.se[op.e].cur}
           /\ Tracks(fm) /\ Tracks(fm')
           /\ fm.fileSize \in Nat /\ fm'.fileSize \in Nat /\ fm.fileSize =< fm'.fileSize
           /\ fm'.fileSize = fm.fileSize => \A p \in InUse(fm) : fm'.prot[p] = fm.prot[p]
<1> DEFINE e == op.e
           q == AllocatedPage(fm)
           g == fixed_mapper_alloc_page(fm, "R")
           x == [SE(e) EXCEPT !.cur = q, !.snap = q, !.size = op.size, !.id = nextId]
           c == [Bucket EXCEPT !.se[e] = x]
<1>1. pc = "pallocInit" /\ pc \notin Down /\ "R" \in Prot /\ si' = si
  BY DEF slab_entry_init, Down, Prot
<1>2. si.cur # NULL /\ CallInv
  BY <1>1, Running
<1>3. e \in Entries /\ op.size \in Sizes /\ si.cur # si.snap
  BY <1>1, <1>2 DEF CallInv
<1>4. /\ CanAlloc(fm) /\ ~AllocDies(fm) /\ fm' = g
      /\ mem' = [mem EXCEPT ![si.cur].se[op.e] =
                      [@ EXCEPT !.cur = AllocatedPage(fm), !.snap = AllocatedPage(fm),
                                !.size = op.size, !.id = nextId]]
  BY <1>3 DEF slab_entry_init, InitEntries, SE
<1>5. /\ mem \in [Page -> DataPage \cup BucketRec] /\ si.cur \in Page
      /\ Bucket \in BucketRec /\ HandlerInv(fm, InUse(fm)) /\ fm.stSize =< MaxPages
  BY <1>1, <1>2, Shape
<1>6. /\ Tracks(fm) /\ Tracks(g) /\ q \notin InUse(fm) /\ InUse(g) = InUse(fm) \cup {q}
  BY <1>1, <1>4, <1>5, AllocTakes
<1>7. /\ g.fileSize = fm.fileSize => \A p \in InUse(fm) : g.prot[p] = fm.prot[p]
      /\ fm.fileSize \in Nat /\ g.fileSize \in Nat /\ fm.fileSize =< g.fileSize
  BY <1>1, <1>4, <1>5, AllocWithoutGrowth, AllocNeverShrinks
<1>8. mem' = [mem EXCEPT ![si.cur] = c]
  BY <1>4, <1>5 DEF Bucket, SE
<1> HIDE DEF q, g
<1>9. x.cur = q /\ x.snap = q /\ x.size = op.size
  <2>1. SE(e) \in EntryType
    BY <1>3, <1>5 DEF SE, BucketRec
  <2> QED
    BY <2>1 DEF EntryType
<1> HIDE DEF x
<1>10. c.se[e] = x /\ \A f \in Entries : f # e => c.se[f] = SE(f)
  BY <1>3, <1>5, EntryOnly DEF SE
<1> HIDE DEF c
<1>11. Bucket' = c /\ \A p \in Page : p # si.cur => mem'[p] = mem[p]
  BY <1>1, <1>5, <1>8 DEF Bucket
<1>12. SLAB_ENTRY_IS_INIT(c.se[e])
  BY <1>3, <1>9, <1>10, NoSizeAssumption DEF SLAB_ENTRY_IS_INIT
<1>13. InitEntries(c) = InitEntries(Bucket) \cup {e}
  BY <1>3, <1>10, <1>12 DEF InitEntries, SE
<1> QED
  BY <1>3, <1>4, <1>6, <1>7, <1>9, <1>10, <1>11, <1>13

(* The bit of an L object is set in its entry. *)
SetBit(e, idx) == mem' = [mem EXCEPT ![si.cur].se[e].bm = @ \cup {idx}]

(* what that leaves alone *)
LEMMA BitEffect ==
    ASSUME IndInv, pc \notin Down, NEW e \in InitEntries(Bucket), NEW idx, si' = si,
           SetBit(e, idx)
    PROVE  /\ InitEntries(Bucket') = InitEntries(Bucket)
           /\ \A f \in Entries : /\ Bucket'.se[f].size = SE(f).size /\ Bucket'.se[f].cur = SE(f).cur
                                 /\ Bucket'.se[f].snap = SE(f).snap
                                 /\ f # e => Bucket'.se[f] = SE(f)
           /\ Bucket'.se[e].bm = SE(e).bm \cup {idx}
           /\ \A p \in Page : p # si.cur => mem'[p] = mem[p]
<1> DEFINE x == [SE(e) EXCEPT !.bm = @ \cup {idx}]
           c == [Bucket EXCEPT !.se[e] = x]
<1>1. si.cur # NULL
  BY Running
<1>2. /\ mem \in [Page -> DataPage \cup BucketRec] /\ si.cur \in Page
      /\ Bucket \in BucketRec /\ e \in Entries /\ SE(e) \in EntryType
  BY <1>1, Shape
<1>3. mem' = [mem EXCEPT ![si.cur] = c]
  BY <1>2 DEF Bucket, SE, SetBit
<1>4. x.size = SE(e).size /\ x.cur = SE(e).cur /\ x.snap = SE(e).snap /\ x.bm = SE(e).bm \cup {idx}
  BY <1>2 DEF EntryType
<1> HIDE DEF x
<1>5. c.se[e] = x /\ \A f \in Entries : f # e => c.se[f] = SE(f)
  BY <1>2, EntryOnly DEF SE
<1> HIDE DEF c
<1>6. Bucket' = c /\ \A p \in Page : p # si.cur => mem'[p] = mem[p]
  BY <1>2, <1>3 DEF Bucket
<1>7. InitEntries(c) = InitEntries(Bucket)
  BY <1>2, <1>4, <1>5 DEF InitEntries, SE, SLAB_ENTRY_IS_INIT
<1> QED
  BY <1>2, <1>4, <1>5, <1>6, <1>7

(* One turn of the loop of slab_bucket_cpoint *)
LEMMA CommitEffect ==
    ASSUME IndInv, slab_bucket_cpoint, op.i \in InitEntries(Bucket)
    PROVE  /\ SameEntries(Bucket, Bucket')
           /\ Bucket'.se[op.i].snap = SE(op.i).cur
           /\ \A f \in Entries : f # op.i => Bucket'.se[f] = SE(f)
           /\ \A p \in Page : p # si.cur => mem'[p] = mem[p]
           /\ kept' = [kept EXCEPT ![op.i] = AsData(mem[SE(op.i).cur])]
           /\ fm'.fileSize = fm.fileSize /\ (Tracks(fm') <=> Tracks(fm))
           /\ \A p \in Pages(fm.fileSize) : p # SE(op.i).cur => fm'.prot[p] = fm.prot[p]
           /\ IF op.type = "REGULAR" THEN fm'.prot[SE(op.i).cur] = "R" ELSE fm'.prot = fm.prot
           /\ InUse(fm') = IF SE(op.i).cur = SE(op.i).snap THEN InUse(fm)
                           ELSE InUse(fm) \ {SE(op.i).snap}
           /\ SE(op.i).cur # SE(op.i).snap => Tracks(fm)
<1> DEFINE e == op.i
           d == SE(e).cur
           z == SE(e).snap
           f == IF d # z THEN fixed_mapper_freepages(fm, z) ELSE fm
<1>1. /\ pc = "cpEntry" /\ pc \notin Down /\ si' = si /\ (d # z => ~FreeDies(fm, z))
      /\ mem' = [mem EXCEPT ![si.cur].se[e].snap = d] /\ fm' = ProtectData(f, d)
      /\ kept' = [kept EXCEPT ![e] = AsData(mem[d])]
  BY DEF slab_bucket_cpoint, InitEntries, FreeSnapshot, SE, Down
<1>2. si.cur # NULL /\ "R" \in Prot
  BY <1>1, Running DEF Prot
<1>3. /\ mem \in [Page -> DataPage \cup BucketRec] /\ si.cur \in Page
      /\ Bucket \in BucketRec /\ e \in Entries /\ SE(e).size \in Sizes
      /\ HandlerInv(fm, InUse(fm)) /\ z \in InUse(fm) /\ d \in InUse(fm)
  BY <1>1, <1>2, Shape
<1>4. /\ Bucket' = WithSnapshot(Bucket, e, d)
      /\ \A p \in Page : p # si.cur => mem'[p] = mem[p]
  BY <1>1, <1>3 DEF Bucket, WithSnapshot
<1>5. /\ SameEntries(Bucket, Bucket') /\ Bucket'.se[e].snap = d
      /\ \A g \in Entries : g # e => Bucket'.se[g] = SE(g)
  BY <1>3, <1>4, SnapshotOnly, NoSizeAssumption DEF SE
<1>6. /\ HandlerInv(f, InUse(f)) /\ f.fileSize = fm.fileSize /\ (Tracks(f) <=> Tracks(fm))
      /\ f.prot = fm.prot
      /\ InUse(f) = IF d = z THEN InUse(fm) ELSE InUse(fm) \ {z}
      /\ d # z => Tracks(fm)
  <2> HIDE DEF d, z
  <2>1. CASE d # z
    <3>1. f = fixed_mapper_freepages(fm, z) /\ ~FreeDies(fm, z)
      BY <1>1, <2>1
    <3> HIDE DEF f
    <3> QED
      BY <1>3, <2>1, <3>1, FreeGivesBack, FreepagesKeeps
  <2>2. CASE d = z
    BY <1>3, <2>2
  <2> QED
    BY <2>1, <2>2
<1> HIDE DEF f
<1>7. d \in Pages(f.fileSize) /\ f.prot \in [Pages(f.fileSize) -> Prot] /\ DOMAIN f = HandlerFields
  <2>1. d \in Pages(fm.fileSize)
    BY <1>3 DEF InUse
  <2> QED
    BY <1>6, <2>1 DEF HandlerInv
<1>8. CASE op.type = "REGULAR"
  <2>1. fm' = page_allocator_mprotect_generic(f, d, "R")
    BY <1>1, <1>8 DEF ProtectData
  <2> HIDE DEF d, e
  <2>2. InUse(fm') = InUse(f) /\ (Tracks(fm') <=> Tracks(f))
    BY <1>2, <1>6, <2>1, MprotectIsProt
  <2>3. /\ fm'.fileSize = f.fileSize /\ fm'.prot[d] = "R"
        /\ \A p \in Pages(f.fileSize) : p # d => fm'.prot[p] = f.prot[p]
    BY <1>7, <2>1 DEF page_allocator_mprotect_generic, HandlerFields
  <2> QED
    BY <1>1, <1>4, <1>5, <1>6, <1>8, <2>2, <2>3 DEF d, e
<1>9. CASE op.type # "REGULAR"
  <2>1. fm' = f
    BY <1>1, <1>9 DEF ProtectData
  <2> QED
    BY <1>1, <1>4, <1>5, <1>6, <1>9, <2>1
<1> QED
  BY <1>8, <1>9

(* The end of a checkpoint stores sb_has_snapshot. *)
LEMMA ClearEffect ==
    ASSUME IndInv, ClearHasSnapshot
    PROVE  /\ Bucket'.se = Bucket.se /\ Bucket'.has = FALSE
           /\ \A p \in Page : p # si.cur => mem'[p] = mem[p]
<1>1. pc \notin Down /\ si' = si /\ mem' = [mem EXCEPT ![si.cur].has = FALSE]
  BY DEF ClearHasSnapshot, Down
<1>2. /\ mem \in [Page -> DataPage \cup BucketRec] /\ si.cur \in Page /\ Bucket \in BucketRec
  BY <1>1, Running, Shape
<1> DEFINE c == [Bucket EXCEPT !.has = FALSE]
<1>3. mem' = [mem EXCEPT ![si.cur] = c]
  BY <1>1 DEF Bucket
<1>4. c.se = Bucket.se /\ c.has = FALSE
  BY <1>2, HasOnly
<1> HIDE DEF c
<1> QED
  BY <1>1, <1>2, <1>3, <1>4 DEF Bucket

-----------------------------------------------------------------------------
(* Checkpoints and restores *)

(* An application finds the same in c, with pages m2, as in b, with m. *)
Agree(m, b, m2, c) ==
    /\ InitEntries(c) = InitEntries(b)
    /\ \A f \in InitEntries(b) :
            /\ c.se[f].size = b.se[f].size /\ c.se[f].bm = b.se[f].bm
            /\ c.se[f].cur = b.se[f].cur /\ AsData(m2[b.se[f].cur]) = AsData(m[b.se[f].cur])

(* What an application can find in a container is the same in the two. *)
LEMMA AgreeingViews ==
    ASSUME NEW m, NEW b, NEW m2, NEW c, Agree(m, b, m2, c)
    PROVE  View(m2, c) = View(m, b)
<1>1. ASSUME NEW e \in Entries
      PROVE  View(m2, c)[e] = View(m, b)[e]
  <2>1. CASE e \in InitEntries(b)
    <3>1. SLAB_ENTRY_IS_INIT(b.se[e]) /\ SLAB_ENTRY_IS_INIT(c.se[e])
      BY <2>1 DEF Agree, InitEntries
    <3> QED
      BY <2>1, <3>1 DEF Agree, View
  <2>2. CASE e \notin InitEntries(b)
    <3>1. ~SLAB_ENTRY_IS_INIT(b.se[e]) /\ ~SLAB_ENTRY_IS_INIT(c.se[e])
      BY <2>2 DEF Agree, InitEntries
    <3> QED
      BY <3>1 DEF View
  <2> QED
    BY <2>1, <2>2
<1> QED
  BY <1>1 DEF View

(* A step that stores to no data page, and changes of the entries at most  *)
(* their snapshot pages, leaves what the application finds.                *)
LEMMA SameView ==
    ASSUME IndInv, si.cur # NULL, si'.cur = si.cur,
           \A p \in Page : p # si.cur => mem'[p] = mem[p],
           InitEntries(Bucket') = InitEntries(Bucket),
           \A f \in InitEntries(Bucket) :
               /\ Bucket'.se[f].size = SE(f).size /\ Bucket'.se[f].bm = SE(f).bm
               /\ Bucket'.se[f].cur = SE(f).cur
    PROVE  View(mem', Bucket') = View(mem, Bucket)
<1>1. \A f \in InitEntries(Bucket) : SE(f).cur \in Page /\ SE(f).cur # si.cur
  BY Shape
<1>2. Agree(mem, Bucket, mem', Bucket')
  BY <1>1 DEF Agree, SE
<1> QED
  BY <1>2, AgreeingViews

(* The calls of the application that change the container leave it dirty,  *)
(* and no checkpoint is in progress.                                       *)
LEMMA CallsKeepRestore ==
    ASSUME IndInv, CpointInv, CleanInv, Palloc \/ slab_entry_init \/ slab_entry_alloc_mem \/ Write
    PROVE  CpointInv' /\ CleanInv'
<1>1. /\ pc \in {"run", "pallocInit", "pallocMem"} /\ pc' \in {"run", "pallocInit", "pallocMem"}
      /\ pc \notin Down /\ flags' = flags
      /\ dirty' = TRUE \/ (pc \in {"pallocInit", "pallocMem"} /\ dirty' = dirty)
      /\ pc' = "run" => since' = "op"
  BY DEF Palloc, slab_palloc, slab_entry_init, slab_entry_alloc_mem, Write, AppWrite, Down, known
<1>2. si.cur # NULL
  BY <1>1, Running
<1>3. ~flags
  BY <1>1 DEF CpointInv, InCpoint
<1>4. dirty'
  BY <1>1, <1>2 DEF CleanInv
<1> QED
  BY <1>1, <1>3, <1>4 DEF CpointInv, CleanInv, InCpoint

(* container_cpoint, and the two steps that leave the bucket alone *)
LEMMA CpointKeepsRestore ==
    ASSUME IndInv, CpointInv, CleanInv, container_cpoint \/ SkipBucket \/ slab_cpoint
    PROVE  CpointInv' /\ CleanInv'
<1>1. /\ pc \in {"run", "cpEntry", "cpFlush"} /\ pc \notin Down /\ mem' = mem /\ si' = si
      /\ dirty' = dirty /\ saved' = saved
      /\ \/ pc = "run" /\ pc' = "cpEntry" /\ flags' = TRUE /\ saving' = View(mem, Bucket)
             /\ op' = [NoOp EXCEPT !.type = "REGULAR"]
         \/ pc \in InCpoint /\ pc' \in {"cpFlush", "cpClear"} /\ flags' = flags /\ saving' = saving
  BY DEF container_cpoint, SkipBucket, slab_cpoint, Down, known, file, InCpoint
<1>2. si.cur # NULL /\ Bucket' = Bucket
  BY <1>1, Running DEF Bucket
<1>3. flags' /\ View(mem', Bucket') = saving'
  BY <1>1, <1>2 DEF CpointInv
<1>4. CpointInv'
  <2>1. pc' \in {"cpEntry", "cpFlush", "cpClear"} /\ si'.cur # NULL
    BY <1>1, <1>2
  <2>2. ASSUME pc' = "cpEntry", NEW e \in InitEntries(Bucket') PROVE ~(e < op'.i)
    <3>1. op'.i = 0
      BY <1>1, <2>2 DEF NoOp
    <3>2. e \in Nat
      BY <2>2, EntriesAssumption DEF InitEntries, Entries
    <3> QED
      BY <3>1, <3>2
  <2> QED
    BY <1>3, <2>1, <2>2 DEF CpointInv, InCpoint
<1>5. CleanInv'
  BY <1>1, <1>2, <1>3 DEF CleanInv, AllCommitted
<1> QED
  BY <1>4, <1>5

(* One turn of the loop: the entry is committed, and what it holds is the  *)
(* same.  A clean container has no snapshot and is not handled.            *)
LEMMA CommitKeepsRestore ==
    ASSUME IndInv, CpointInv, CleanInv, slab_bucket_cpoint
    PROVE  CpointInv' /\ CleanInv'
<1>1. /\ pc = "cpEntry" /\ pc' = "cpEntry" /\ pc \notin Down /\ Bucket.has /\ op.i < NEntries
      /\ si' = si /\ op' = [op EXCEPT !.i = @ + 1] /\ flags' = flags /\ saving' = saving
      /\ saved' = saved /\ dirty' = dirty
  BY DEF slab_bucket_cpoint, Down
<1>2. si.cur # NULL /\ op.i \in 0 .. NEntries
  BY <1>1, Running DEF CallInv, InCpoint
<1>3. dirty'
  BY <1>1, <1>2 DEF CleanInv
<1>4. /\ flags /\ View(mem, Bucket) = saving
      /\ \A e \in InitEntries(Bucket) : e < op.i => SE(e).cur = SE(e).snap
  BY <1>1 DEF CpointInv, InCpoint
<1>5. /\ View(mem', Bucket') = View(mem, Bucket)
      /\ \A e \in InitEntries(Bucket') : e < op.i + 1 => Bucket'.se[e].cur = Bucket'.se[e].snap
  <2>1. CASE op.i \notin InitEntries(Bucket)
    <3>1. mem' = mem
      BY <1>2, <2>1, <1>1, EntriesAssumption DEF slab_bucket_cpoint, InitEntries, SE, Entries
    <3>2. Bucket' = Bucket
      BY <1>1, <3>1 DEF Bucket
    <3>3. \A e \in InitEntries(Bucket) : e \in Nat /\ e # op.i
      BY <2>1, EntriesAssumption DEF InitEntries, Entries
    <3>4. \A e \in InitEntries(Bucket) : e < op.i + 1 => SE(e).cur = SE(e).snap
      BY <1>2, <1>4, <3>3
    <3> QED
      BY <3>1, <3>2, <3>4 DEF SE
  <2>2. CASE op.i \in InitEntries(Bucket)
    <3>1. /\ SameEntries(Bucket, Bucket') /\ Bucket'.se[op.i].snap = SE(op.i).cur
          /\ \A f \in Entries : f # op.i => Bucket'.se[f] = SE(f)
          /\ \A p \in Page : p # si.cur => mem'[p] = mem[p]
      BY <2>2, CommitEffect
    <3>2. InitEntries(Bucket') = InitEntries(Bucket)
          /\ \A f \in InitEntries(Bucket) :
                /\ Bucket'.se[f].size = SE(f).size /\ Bucket'.se[f].bm = SE(f).bm
                /\ Bucket'.se[f].cur = SE(f).cur /\ f \in Entries
      BY <3>1 DEF SameEntries, SE, InitEntries
    <3>3. View(mem', Bucket') = View(mem, Bucket)
      BY <1>1, <1>2, <3>1, <3>2, SameView
    <3>4. ASSUME NEW e \in InitEntries(Bucket), e < op.i + 1
          PROVE  Bucket'.se[e].cur = Bucket'.se[e].snap
      <4>1. CASE e = op.i
        BY <2>2, <3>1, <3>2, <4>1
      <4>2. CASE e # op.i
        <5>1. e \in Nat /\ e < op.i
          BY <1>2, <3>2, <3>4, <4>2, EntriesAssumption DEF Entries
        <5> QED
          BY <1>4, <3>1, <3>2, <4>2, <5>1
      <4> QED
        BY <4>1, <4>2
    <3> QED
      BY <3>2, <3>3, <3>4
  <2> QED
    BY <2>1, <2>2
<1>6. op'.i = op.i + 1 \/ op'.i = op.i
  BY <1>1
<1>7. \A e \in InitEntries(Bucket') : e < op'.i => Bucket'.se[e].cur = Bucket'.se[e].snap
  <2>1. \A e \in InitEntries(Bucket') : e \in Nat
    BY EntriesAssumption DEF InitEntries, Entries
  <2> QED
    BY <1>2, <1>5, <1>6, <2>1
<1> QED
  BY <1>1, <1>2, <1>3, <1>4, <1>5, <1>7 DEF CpointInv, CleanInv, SE

(* si_snapshot is set, and then sb_has_snapshot is cleared: after that the *)
(* container is clean.                                                     *)
LEMMA EndKeepsRestore ==
    ASSUME IndInv, CpointInv, CleanInv, slab_inner_cpoint \/ ClearHasSnapshot
    PROVE  CpointInv' /\ CleanInv'
<1>1. CASE slab_inner_cpoint
  <2>1. /\ pc = "cpEntry" /\ pc' = "cpHas" /\ pc \notin Down /\ Bucket.has /\ op.i = NEntries
        /\ mem' = mem /\ si' = [si EXCEPT !.snap = si.cur] /\ flags' = flags /\ saving' = saving
        /\ dirty' = dirty
    BY <1>1 DEF slab_inner_cpoint, CommittedBucket, Down, known
  <2>2. si.cur # NULL
    BY <2>1, Running
  <2>3. si'.cur = si.cur /\ si'.snap = si.cur
    BY <2>1, <2>2, Shape
  <2>4. Bucket' = Bucket
    BY <2>1, <2>3 DEF Bucket
  <2>5. AllCommitted(Bucket)
    <3>1. \A e \in InitEntries(Bucket) : e < NEntries
      BY EntriesAssumption DEF InitEntries, Entries
    <3> QED
      BY <2>1, <3>1 DEF CpointInv, AllCommitted, SE
  <2>6. flags /\ View(mem, Bucket) = saving
    BY <2>1 DEF CpointInv, InCpoint
  <2>7. dirty
    BY <2>1, <2>2 DEF CleanInv
  <2> QED
    BY <2>1, <2>2, <2>3, <2>4, <2>5, <2>6, <2>7 DEF CpointInv, CleanInv, InCpoint
<1>2. CASE ClearHasSnapshot
  <2>1. /\ pc = "cpHas" /\ pc' = "cpFlush" /\ pc \notin Down /\ si' = si /\ flags' = flags
        /\ saving' = saving
    BY <1>2 DEF ClearHasSnapshot, Down
  <2>2. si.cur # NULL
    BY <2>1, Running
  <2>3. /\ Bucket'.se = Bucket.se /\ Bucket'.has = FALSE
        /\ \A p \in Page : p # si.cur => mem'[p] = mem[p]
    BY <1>2, ClearEffect
  <2>4. InitEntries(Bucket') = InitEntries(Bucket)
    BY <2>3 DEF InitEntries
  <2>5. View(mem', Bucket') = View(mem, Bucket)
    BY <2>1, <2>2, <2>3, <2>4, SameView DEF SE
  <2>6. si.cur = si.snap /\ AllCommitted(Bucket') /\ flags /\ View(mem, Bucket) = saving
    BY <2>1, <2>3, <2>4 DEF CpointInv, InCpoint, AllCommitted
  <2>7. CpointInv'
    BY <2>1, <2>2, <2>5, <2>6 DEF CpointInv, InCpoint
  <2>8. CleanInv'
    BY <2>1, <2>2, <2>3, <2>6 DEF CleanInv
  <2> QED
    BY <2>7, <2>8
<1> QED
  BY <1>1, <1>2

(* The flag is cleared and the call returns. *)
LEMMA ReturnKeepsRestore ==
    ASSUME IndInv, CpointInv, CleanInv, CpointReturns
    PROVE  CpointInv' /\ CleanInv'
<1>1. /\ pc = "cpClear" /\ pc' = "run" /\ pc \notin Down /\ mem' = mem /\ si' = si
      /\ flags' = FALSE /\ saving' = saving /\ dirty' = dirty
      /\ saved' = IF dirty THEN saved ELSE saving
  BY DEF CpointReturns, Down
<1>2. si.cur # NULL /\ Bucket' = Bucket
  BY <1>1, Running DEF Bucket
<1>3. View(mem, Bucket) = saving
  BY <1>1 DEF CpointInv, InCpoint
<1> QED
  BY <1>1, <1>2, <1>3 DEF CpointInv, CleanInv, InCpoint, AllCommitted

(* A process dies, or a restore begins another. *)
LEMMA DeathKeepsRestore ==
    ASSUME IndInv, CpointInv, CleanInv, Crash \/ Dies \/ Restore
    PROVE  CpointInv' /\ CleanInv'
<1>1. CASE Crash \/ DiesAllocating \/ DiesFlushing \/ RestoreFaults \/ RestoreAsserts
  <2>1. /\ pc' \in Down /\ mem' = mem /\ si' = si /\ flags' = flags /\ saving' = saving
        /\ saved' = saved /\ dirty' = dirty
    BY <1>1 DEF Crash, DiesAllocating, DiesFlushing, RestoreFaults, RestoreAsserts, Dead, Down
  <2>2. Bucket' = Bucket
    BY <2>1 DEF Bucket
  <2>3. pc' \notin InCpoint \cup {"run", "pallocInit", "pallocMem"}
    BY <2>1 DEF Down, InCpoint
  <2>4. CpointInv'
    BY <2>1, <2>2, <2>3 DEF CpointInv, InCpoint
  <2> QED
    BY <2>1, <2>2, <2>3, <2>4 DEF CleanInv, AllCommitted
<1>2. CASE RestoreIncomplete
  <2>1. /\ pc \in Down /\ fm.stSize > 0 /\ pc' = "cpEntry" /\ op' = [NoOp EXCEPT !.type = "RESTORE"]
        /\ mem' = mem /\ si' = si
        /\ flags /\ flags' = flags /\ saving' = saving /\ saved' = saved /\ dirty' = dirty
    BY <1>2 DEF RestoreIncomplete, IncompleteRefs
  <2>2. si.cur # NULL /\ Bucket' = Bucket
    BY <2>1 DEF IndInv, Bucket
  <2>3. ASSUME NEW e \in InitEntries(Bucket') PROVE ~(e < op'.i)
    <3>1. op'.i = 0
      BY <2>1 DEF NoOp
    <3>2. e \in Nat
      BY <2>3, EntriesAssumption DEF InitEntries, Entries
    <3> QED
      BY <3>1, <3>2
  <2>4. CpointInv'
    BY <2>1, <2>2, <2>3 DEF CpointInv, InCpoint
  <2> QED
    BY <2>1, <2>2, <2>4 DEF CleanInv, AllCommitted
<1>3. CASE RestoreComplete
  <2>1. /\ pc \in Down /\ fm.stSize > 0 /\ pc' = "run" /\ since' = "restore" /\ mem' = mem
        /\ si' = [si EXCEPT !.cur = si.snap] /\ ~flags /\ flags' = flags
        /\ saved' = saved /\ dirty' = dirty
    BY <1>3 DEF RestoreComplete
  <2>2. si.cur # NULL
    BY <2>1 DEF IndInv
  <2>3. si'.cur = si.snap /\ si'.snap = si.snap
    BY <2>1, <2>2, Shape
  <2>4. CpointInv'
    BY <2>1, <2>3 DEF CpointInv, InCpoint
  <2>5. CleanInv'
    <3>1. CASE dirty
      BY <2>1, <3>1 DEF CleanInv
    <3>2. CASE ~dirty
      <4>1. si.cur = si.snap
        BY <2>2, <3>2 DEF CleanInv
      <4>2. Bucket' = Bucket
        BY <2>1, <2>3, <4>1 DEF Bucket
      <4> QED
        BY <2>1, <2>2, <2>3, <3>2, <4>1, <4>2 DEF CleanInv, AllCommitted
    <3> QED
      BY <3>1, <3>2
  <2> QED
    BY <2>4, <2>5
<1>4. CASE DiesFreeing
  <2>1. /\ pc \notin Down /\ pc = "cpEntry" /\ Bucket.has /\ si.cur # NULL
        /\ si'.cur = si.cur /\ SameEntries(Bucket, Bucket')
        /\ \A p \in Page : p # si.cur => mem'[p] = mem[p]
    BY <1>4, FreeingEffect
  <2>2. /\ pc' \in Down /\ flags' = flags /\ saving' = saving /\ dirty' = dirty
    BY <1>4 DEF DiesFreeing, Dead, Down
  <2>3. pc' \notin InCpoint \cup {"run", "pallocInit", "pallocMem"}
    BY <2>2 DEF Down, InCpoint
  <2>4. View(mem', Bucket') = View(mem, Bucket)
    BY <2>1, SameView DEF SameEntries, InitEntries, SE
  <2>5. flags /\ View(mem, Bucket) = saving /\ dirty
    BY <2>1 DEF CpointInv, CleanInv, InCpoint
  <2>6. CpointInv'
    <3>1. pc' \notin {"cpEntry", "cpHas", "run"} /\ pc' \in InCpoint \cup Down
      BY <2>2, <2>3 DEF InCpoint
    <3>2. View(mem', Bucket') = saving' /\ si'.cur # NULL
      BY <2>1, <2>2, <2>4, <2>5
    <3> QED
      BY <2>3, <2>2, <2>5, <3>1, <3>2 DEF CpointInv
  <2>7. CleanInv'
    BY <2>2, <2>5 DEF CleanInv
  <2> QED
    BY <2>6, <2>7
<1> QED
  BY <1>1, <1>2, <1>3, <1>4 DEF Restore, Dies

(* There is nothing in a container that has just been created. *)
LEMMA CreateKeepsRestore ==
    ASSUME IndInv, IndInv', CpointInv, CleanInv, container_init
    PROVE  CpointInv' /\ CleanInv'
<1>1. /\ pc = "down" /\ fm.stSize = 0 /\ pc' = "run" /\ since' = "init" /\ flags' = flags
      /\ saved' = saved /\ dirty' = dirty /\ pc' \notin Down
      /\ si'.cur = si'.snap /\ mem' = [mem EXCEPT ![si'.cur] = EmptyBucket]
  BY DEF container_init, Down
<1>2. si.cur = NULL /\ mem = [p \in Page |-> ZeroPage]
  <2>1. ASSUME si.cur # NULL PROVE FALSE
    <3>1. MetaPages \subseteq Pages(0)
      BY <1>1, <2>1, Created DEF FileInv
    <3> QED
      BY <3>1 DEF MetaPages, Pages
  <2> QED
    BY <2>1 DEF IndInv
<1>3. si'.cur # NULL /\ si'.cur \in Page
  <2>1. FileInv'
    BY <1>1 DEF IndInv, Down
  <2>2. si'.cur \in Pages(fm'.stSize) /\ Pages(fm'.stSize) \subseteq Page
    BY <2>1, MorePages, PagesAssumption DEF FileInv, Page
  <2> QED
    BY <2>2, NullAssumption DEF Page, Pages
<1>4. Bucket' = EmptyBucket
  BY <1>1, <1>2, <1>3 DEF Bucket
<1>5. /\ EmptyBucket.has = FALSE /\ InitEntries(EmptyBucket) = {}
      /\ \A m : View(m, EmptyBucket) = [e \in Entries |-> NULL]
  <2>1. EmptyBucket.has = FALSE /\ \A e \in Entries : ~SLAB_ENTRY_IS_INIT(EmptyBucket.se[e])
    BY DEF EmptyBucket, SLAB_ENTRY_IS_INIT, UninitEntry
  <2> QED
    BY <2>1 DEF InitEntries, View
<1>6. ~flags
  BY <1>2 DEF CpointInv
<1>7. CpointInv'
  BY <1>1, <1>6 DEF CpointInv, InCpoint
<1>8. CleanInv'
  BY <1>1, <1>2, <1>3, <1>4, <1>5 DEF CleanInv, AllCommitted
<1> QED
  BY <1>7, <1>8

(* Every step of the application, of a checkpoint, of a death and of a     *)
(* restore keeps what the restores need to know.                           *)
THEOREM RestoreInvariance == Spec => [](CpointInv /\ CleanInv)
<1> DEFINE I == CpointInv /\ CleanInv
<1>1. Init => I
  <2> SUFFICES ASSUME Init PROVE I
    OBVIOUS
  <2> QED
    BY DEF Init, CpointInv, CleanInv, InCpoint
<1>2. IndInv /\ IndInv' /\ I /\ [Next]_vars => I'
  <2> SUFFICES ASSUME IndInv, IndInv', CpointInv, CleanInv, [Next]_vars
               PROVE  CpointInv' /\ CleanInv'
    OBVIOUS
  <2>1. CASE container_init
    BY <2>1, CreateKeepsRestore
  <2>2. CASE Palloc \/ slab_entry_init \/ slab_entry_alloc_mem \/ Write
    BY <2>2, CallsKeepRestore
  <2>3. CASE Cpoint
    BY <2>3, CpointKeepsRestore, CommitKeepsRestore, EndKeepsRestore, ReturnKeepsRestore
    DEF Cpoint
  <2>4. CASE Crash \/ Dies \/ Restore
    BY <2>4, DeathKeepsRestore
  <2>5. CASE UNCHANGED vars
    BY <2>5 DEF vars, file, process, known, CpointInv, CleanInv, Bucket, SE, AllCommitted
  <2> QED
    BY <2>1, <2>2, <2>3, <2>4, <2>5 DEF Next
<1> QED
  BY <1>1, <1>2, Invariance, PTL DEF Spec

(* While nothing has changed since a checkpoint committed the bucket, a    *)
(* restore passes the assertion of slab_bucket_map and finds what the      *)
(* application saw at that checkpoint, whatever deaths come between.       *)
THEOREM CleanRestorableCorrect == Spec => []CleanContainerRestorable
<1>1. CleanInv => CleanContainerRestorable
  <2> SUFFICES ASSUME CleanInv, si.cur # NULL, ~dirty, ~flags
               PROVE  slab_bucket_map_asserts /\ View(mem, SnapshotBucket) = saved
    BY DEF CleanContainerRestorable
  <2>1. si.cur = si.snap /\ AllCommitted(Bucket) /\ View(mem, Bucket) = saved
    BY DEF CleanInv
  <2>2. SnapshotBucket = Bucket
    BY <2>1 DEF SnapshotBucket, Bucket
  <2> QED
    BY <2>1, <2>2 DEF slab_bucket_map_asserts, AllCommitted, InitEntries
<1> QED
  BY <1>1, RestoreInvariance, PTL

(* From the store of the flag until it is cleared, and after the restore   *)
(* that clears it, the container holds what the application saw when it    *)
(* called container_cpoint: at every step of the checkpoint, wherever in   *)
(* it the process died, and however often.                                 *)
THEOREM RollForwardCorrect == Spec => []RollForwardIntact
<1>1. CpointInv => RollForwardIntact
  BY DEF CpointInv, RollForwardIntact
<1> QED
  BY <1>1, RestoreInvariance, PTL

-----------------------------------------------------------------------------
(* The lists of entries *)

(* The entries of b are the same in c, and no bit of theirs is cleared. *)
Fuller(m, b, m2, c) ==
    /\ InitEntries(c) = InitEntries(b)
    /\ \A f \in InitEntries(b) :
            /\ c.se[f].size = b.se[f].size /\ c.se[f].cur = b.se[f].cur
            /\ BitmapOf(m, b, f) \subseteq BitmapOf(m2, c, f)

(* An entry that has room in the fuller bucket has room in the other. *)
LEMMA FullerHasLessRoom ==
    ASSUME NEW m, NEW b, NEW m2, NEW c, Fuller(m, b, m2, c), NEW e, HasRoom(m2, c, e)
    PROVE  HasRoom(m, b, e)
BY DEF Fuller, HasRoom

(* Filling pages keeps it at one entry with room to a size. *)
LEMMA FullerHasOneRoom ==
    ASSUME NEW m, NEW b, NEW m2, NEW c, Fuller(m, b, m2, c), OneRoom(m, b)
    PROVE  OneRoom(m2, c)
<1> SUFFICES ASSUME NEW e \in Entries, NEW f \in Entries, HasRoom(m2, c, e), HasRoom(m2, c, f),
                    c.se[e].size = c.se[f].size
             PROVE  e = f
  BY DEF OneRoom
<1>1. HasRoom(m, b, e) /\ HasRoom(m, b, f)
  BY FullerHasLessRoom
<1>2. b.se[e].size = b.se[f].size
  BY <1>1 DEF Fuller, HasRoom
<1> QED
  BY <1>1, <1>2 DEF OneRoom

(* A copy shares the data pages of the bucket, so that it is fuller too. *)
LEMMA CopyFuller ==
    ASSUME NEW m, NEW b, NEW m2, NEW c, Fuller(m, b, m2, c), NEW t, NEW t2, t2.se = t.se,
           \A e \in InitEntries(t) :
               e \in InitEntries(b) /\ b.se[e].size = t.se[e].size /\ b.se[e].cur = t.se[e].cur
    PROVE  Fuller(m, t, m2, t2)
<1>1. InitEntries(t2) = InitEntries(t)
  BY DEF InitEntries
<1>2. ASSUME NEW e \in InitEntries(t)
      PROVE  BitmapOf(m, t, e) \subseteq BitmapOf(m2, t2, e)
  <2>1. CASE t.se[e].size = "L"
    BY <2>1 DEF BitmapOf
  <2>2. CASE t.se[e].size # "L"
    <3>1. BitmapOf(m, t, e) = BitmapOf(m, b, e) /\ BitmapOf(m2, t2, e) = BitmapOf(m2, c, e)
      BY <1>2, <2>2 DEF BitmapOf, Fuller
    <3> QED
      BY <3>1 DEF Fuller
  <2> QED
    BY <2>1, <2>2
<1> QED
  BY <1>1, <1>2 DEF Fuller

(* What a step that clears no bit of the bucket keeps of the file: the     *)
(* copy is left alone, taken of the bucket before, or the bucket itself.   *)
LEMMA FileRoomKept ==
    ASSUME FileRoom, Fuller(mem, Bucket, mem', Bucket'),
           \/ SnapshotBucket'.se = SnapshotBucket.se
           \/ SnapshotBucket'.se = Bucket.se
           \/ SnapshotBucket' = Bucket'
    PROVE  FileRoom'
<1> DEFINE b == Bucket
           c == Bucket'
           t == SnapshotBucket
           t2 == SnapshotBucket'
<1>1. /\ OneRoom(mem, b) /\ OneRoom(mem, t) /\ Fuller(mem, b, mem', c)
      /\ \A e \in InitEntries(t) :
             e \in InitEntries(b) /\ b.se[e].size = t.se[e].size /\ b.se[e].cur = t.se[e].cur
  BY DEF FileRoom, SE
<1>2. OneRoom(mem', c)
  BY <1>1, FullerHasOneRoom
<1>3. CASE t2 = c
  BY <1>2, <1>3 DEF FileRoom, SE
<1>4. ASSUME NEW r, r = t \/ r = b, t2.se = r.se
      PROVE  FileRoom'
  <2>1. \A e \in InitEntries(r) :
           e \in InitEntries(b) /\ b.se[e].size = r.se[e].size /\ b.se[e].cur = r.se[e].cur
    BY <1>1, <1>4
  <2>2. OneRoom(mem, r)
    BY <1>1, <1>4
  <2> HIDE DEF b, c, t, t2
  <2>3. Fuller(mem, r, mem', t2)
    BY <1>1, <1>4, <2>1, CopyFuller
  <2>4. OneRoom(mem', t2)
    BY <2>2, <2>3, FullerHasOneRoom
  <2>5. \A e \in InitEntries(t2) :
           e \in InitEntries(c) /\ c.se[e].size = t2.se[e].size /\ c.se[e].cur = t2.se[e].cur
    BY <1>1, <1>4, <2>1, <2>3 DEF Fuller
  <2> QED
    BY <1>2, <2>4, <2>5 DEF FileRoom, SE, c, t2
<1> QED
  BY <1>3, <1>4

(* the same of the process, when its lists are left alone *)
LEMMA ListRoomKept ==
    ASSUME ListRoom, Fuller(mem, Bucket, mem', Bucket'), es' = es, pc' # "pallocInit"
    PROVE  ListRoom'
<1> SUFFICES ASSUME NEW e \in Entries, HasRoom(mem', Bucket', e)
             PROVE  e = es[Bucket'.se[e].size]
  BY DEF ListRoom, SE
<1>1. HasRoom(mem, Bucket, e)
  BY FullerHasLessRoom
<1>2. Bucket'.se[e].size = SE(e).size
  BY <1>1 DEF Fuller, HasRoom, SE
<1> QED
  BY <1>1, <1>2 DEF ListRoom

(* A step that stores to no data page, and changes of the entries at most  *)
(* their snapshot pages                                                    *)
LEMMA SameRoom ==
    ASSUME IndInv, si.cur # NULL, si'.cur = si.cur,
           \A p \in Page : p # si.cur => mem'[p] = mem[p],
           InitEntries(Bucket') = InitEntries(Bucket),
           \A f \in InitEntries(Bucket) :
               /\ Bucket'.se[f].size = SE(f).size /\ SE(f).bm \subseteq Bucket'.se[f].bm
               /\ Bucket'.se[f].cur = SE(f).cur
    PROVE  Fuller(mem, Bucket, mem', Bucket')
<1>1. \A f \in InitEntries(Bucket) : SE(f).cur \in Page /\ SE(f).cur # si.cur
  BY Shape
<1> QED
  BY <1>1 DEF Fuller, BitmapOf, SE

(* A store to a data page that keeps the bits of a bitmap it holds *)
LEMMA StoreRoom ==
    ASSUME IndInv, RoomInv, pc \in {"run", "pallocMem"}, NEW e \in InitEntries(Bucket),
           NEW content \in DataPage, si' = si, Store(e, content),
           SE(e).size # "L" => BitmapOf(mem, Bucket, e) \subseteq content.hdr,
           es' = es, pc' = "run"
    PROVE  RoomInv'
<1>1. pc \notin Down /\ si.cur # NULL /\ FileRoom /\ ListRoom
  BY Running DEF RoomInv, Down
<1>2. AsData(content) = content
  BY AsDataType
<1>3. /\ si.snap \in InUse(fm) /\ InUse(fm) \subseteq Page
      /\ SE(e).cur \in InUse(fm) /\ SE(e).cur # si.snap
      /\ \A f \in InitEntries(Bucket) :
            /\ SE(f).cur \in InUse(fm) /\ SE(f).cur # si.cur
            /\ f # e => SE(f).cur # SE(e).cur
  BY <1>1, Shape
<1>4. /\ InitEntries(Bucket') = InitEntries(Bucket)
      /\ \A f \in InitEntries(Bucket) : /\ Bucket'.se[f].size = SE(f).size
                                        /\ Bucket'.se[f].bm = SE(f).bm
                                        /\ Bucket'.se[f].cur = SE(f).cur
      /\ mem'[SE(e).cur] = content
      /\ \A p \in InUse(fm) : p \notin {SE(e).cur, si.cur} => mem'[p] = mem[p]
      /\ SnapshotBucket'.se = SnapshotBucket.se \/ SnapshotBucket' = Bucket'
  <2>1. CASE ~Faults(e)
    <3>1. /\ Bucket' = Bucket /\ SnapshotBucket' = SnapshotBucket /\ mem'[SE(e).cur] = content
          /\ \A p \in Page : p # SE(e).cur => mem'[p] = mem[p]
      BY <1>1, <2>1, StoreInPlace
    <3>2. /\ InitEntries(Bucket') = InitEntries(Bucket)
          /\ \A f \in InitEntries(Bucket) : Bucket'.se[f] = SE(f)
      BY <3>1 DEF SE
    <3>3. \A p \in InUse(fm) : p \notin {SE(e).cur, si.cur} => mem'[p] = mem[p]
      BY <1>3, <3>1
    <3> QED
      BY <3>1, <3>2, <3>3
  <2>2. CASE Faults(e)
    <3>1. /\ SameEntries(Bucket, Bucket') /\ mem'[SE(e).cur] = content
          /\ \A p \in InUse(fm) : p \notin {SE(e).cur, si.cur} => mem'[p] = mem[p]
      BY <1>1, <2>2, StoreAfterFault
    <3>2. /\ InitEntries(Bucket') = InitEntries(Bucket)
          /\ \A f \in InitEntries(Bucket) : /\ Bucket'.se[f].size = SE(f).size
                                            /\ Bucket'.se[f].bm = SE(f).bm
                                            /\ Bucket'.se[f].cur = SE(f).cur
      BY <3>1 DEF SameEntries, InitEntries, SE
    <3>3. CASE si.snap = si.cur
      <4>1. SnapshotBucket' = Bucket'
        BY <3>3 DEF SnapshotBucket, Bucket
      <4> QED
        BY <3>1, <3>2, <4>1
    <3>4. CASE si.snap # si.cur
      <4>1. si.snap \in InUse(fm) /\ si.snap # SE(e).cur
        BY <1>3
      <4>2. mem'[si.snap] = mem[si.snap]
        BY <3>1, <3>4, <4>1
      <4>3. SnapshotBucket' = SnapshotBucket
        BY <4>2 DEF SnapshotBucket
      <4> QED
        BY <3>1, <3>2, <4>3
    <3> QED
      BY <3>3, <3>4
  <2> QED
    BY <2>1, <2>2
<1>5. ASSUME NEW f \in InitEntries(Bucket)
      PROVE  BitmapOf(mem, Bucket, f) \subseteq BitmapOf(mem', Bucket', f)
  <2>1. CASE SE(f).size = "L"
    BY <1>4, <2>1 DEF BitmapOf, SE
  <2>2. CASE SE(f).size # "L" /\ f # e
    <3>1. SE(f).cur \in InUse(fm) /\ SE(f).cur # si.cur /\ SE(f).cur # SE(e).cur
      BY <1>3, <1>5, <2>2
    <3>2. mem'[SE(f).cur] = mem[SE(f).cur]
      BY <1>4, <3>1
    <3> QED
      BY <1>4, <2>2, <3>2 DEF BitmapOf, SE
  <2>3. CASE SE(f).size # "L" /\ f = e
    <3>1. BitmapOf(mem', Bucket', f) = content.hdr
      BY <1>2, <1>4, <2>3 DEF BitmapOf
    <3> QED
      BY <2>3, <3>1
  <2> QED
    BY <2>1, <2>2, <2>3
<1>6. Fuller(mem, Bucket, mem', Bucket')
  BY <1>4, <1>5 DEF Fuller, SE
<1>7. FileRoom'
  BY <1>1, <1>4, <1>6, FileRoomKept
<1>8. ListRoom'
  BY <1>1, <1>6, ListRoomKept
<1> QED
  BY <1>7, <1>8 DEF RoomInv

(* What the application stores keeps the bits of a bitmap in the page. *)
LEMMA WriteStores ==
    ASSUME IndInv, NEW e \in Entries, AppWrite(e)
    PROVE  /\ pc = "run" /\ pc' = "run" /\ si' = si /\ es' = es /\ op' = op /\ kept' = kept
           /\ e \in InitEntries(Bucket)
           /\ \E content \in DataPage :
                /\ Store(e, content)
                /\ SE(e).size # "L" => BitmapOf(mem, Bucket, e) \subseteq content.hdr
<1>1. pc = "run" /\ pc' = "run" /\ pc \notin Down /\ si' = si /\ es' = es /\ op' = op /\ kept' = kept
  BY DEF AppWrite, Down
<1>2. si.cur # NULL /\ LiveInv
  BY <1>1, Running
<1>3. e \in InitEntries(Bucket)
  <2>1. PICK slot : <<e, slot>> \in live
    BY DEF AppWrite
  <2> QED
    BY <1>2, <2>1 DEF LiveInv
<1>4. PICK content \in AppContent(e) : Store(e, content)
  BY DEF AppWrite, Store
<1>5. AsData(mem[SE(e).cur]) \in DataPage
  <2>1. mem \in [Page -> DataPage \cup BucketRec] /\ SE(e).cur \in Page
    BY <1>2, <1>3, Shape
  <2> QED
    BY <2>1, AsDataType
<1>6. content \in DataPage /\ (SE(e).size # "L" => BitmapOf(mem, Bucket, e) \subseteq content.hdr)
  <2>1. CASE SE(e).size = "L"
    BY <2>1 DEF AppContent, DataPage
  <2>2. CASE SE(e).size # "L"
    <3>1. Bitmap(e) = AsData(mem[SE(e).cur]).hdr /\ Bitmap(e) = BitmapOf(mem, Bucket, e)
      BY <2>2 DEF Bitmap, BitmapOf, SE
    <3>2. Bitmap(e) \in SUBSET Slots("S")
      BY <1>5, <3>1 DEF DataPage
    <3> QED
      BY <2>2, <3>1, <3>2 DEF AppContent, DataPage
  <2> QED
    BY <2>1, <2>2
<1> QED
  BY <1>1, <1>3, <1>4, <1>6

(* slab_entry_alloc_mem finds no clear bit, sets one in the entry, or      *)
(* stores to the data page.                                                *)
LEMMA AllocMemStores ==
    ASSUME IndInv, slab_entry_alloc_mem
    PROVE  /\ pc = "pallocMem" /\ pc' = "run" /\ si' = si /\ es' = es /\ kept' = kept
           /\ op.e \in InitEntries(Bucket)
           /\ \/ mem' = mem /\ fm' = fm
              \/ fm' = fm /\ \E idx : SetBit(op.e, idx)
              \/ \E content \in DataPage :
                    /\ Store(op.e, content)
                    /\ SE(op.e).size # "L" => BitmapOf(mem, Bucket, op.e) \subseteq content.hdr
<1> DEFINE e == op.e
           idx == bit_ffc(e)
           data == AsData(mem[SE(e).cur])
           marked == [data EXCEPT !.hdr = @ \cup {idx}]
<1>1. /\ pc = "pallocMem" /\ pc' = "run" /\ pc \notin Down /\ si' = si /\ es' = es
      /\ kept' = kept
  BY DEF slab_entry_alloc_mem, Down
<1>2. si.cur # NULL /\ e \in InitEntries(Bucket)
  BY <1>1, Running DEF CallInv
<1>3. e \in Entries /\ SE(e).size \in Sizes /\ data \in DataPage
  <2>1. /\ mem \in [Page -> DataPage \cup BucketRec] /\ SE(e).cur \in Page
        /\ e \in Entries /\ SE(e).size \in Sizes
    BY <1>2, Shape
  <2> QED
    BY <2>1, AsDataType
<1>4. CASE idx = NULL
  BY <1>1, <1>2, <1>4 DEF slab_entry_alloc_mem
<1>5. CASE idx # NULL /\ SE(e).size = "L"
  <2>1. fm' = fm /\ SetBit(e, idx)
    BY <1>5 DEF slab_entry_alloc_mem, SetBit
  <2> QED
    BY <1>1, <1>2, <2>1
<1>6. CASE idx # NULL /\ SE(e).size # "L"
  <2>1. SE(e).size = "S"
    BY <1>3, <1>6 DEF Sizes
  <2>2. idx \in Slots("S")
    BY <1>3, <1>6, <2>1, FirstClearBit
  <2>3. marked.hdr = data.hdr \cup {idx} /\ marked \in DataPage
    BY <1>3, <2>2 DEF DataPage
  <2>4. BitmapOf(mem, Bucket, e) = data.hdr
    BY <2>1 DEF BitmapOf, SE
  <2>5. Store(e, marked)
    BY <1>6, <2>1 DEF slab_entry_alloc_mem, Store
  <2> HIDE DEF marked, data, e
  <2> QED
    BY <1>1, <1>2, <2>3, <2>4, <2>5 DEF e
<1> QED
  BY <1>4, <1>5, <1>6

(* The application stores to an object, and slab_palloc marks one. *)
LEMMA StoresKeepRoom ==
    ASSUME IndInv, RoomInv, Write \/ slab_entry_alloc_mem
    PROVE  RoomInv'
<1>1. CASE Write
  <2>1. PICK e \in Entries : AppWrite(e)
    BY <1>1 DEF Write
  <2> QED
    BY <2>1, WriteStores, StoreRoom
<1>2. CASE slab_entry_alloc_mem
  <2>1. /\ pc = "pallocMem" /\ pc' = "run" /\ si' = si /\ es' = es /\ pc \notin Down
        /\ op.e \in InitEntries(Bucket)
    BY <1>2, AllocMemStores DEF Down
  <2>2. si.cur # NULL /\ FileRoom /\ ListRoom
    BY <2>1, Running DEF RoomInv
  <2>3. CASE mem' = mem
    <3>1. Bucket' = Bucket /\ SnapshotBucket' = SnapshotBucket
      BY <2>1, <2>3 DEF Bucket, SnapshotBucket
    <3> QED
      BY <2>1, <2>2, <2>3, <3>1 DEF RoomInv, FileRoom, ListRoom, SE
  <2>4. ASSUME NEW x \in InitEntries(Bucket), NEW idx, SetBit(x, idx)
        PROVE  RoomInv'
    <3>1. /\ InitEntries(Bucket') = InitEntries(Bucket)
          /\ \A f \in Entries : /\ Bucket'.se[f].size = SE(f).size /\ Bucket'.se[f].cur = SE(f).cur
                                /\ f # x => Bucket'.se[f] = SE(f)
          /\ Bucket'.se[x].bm = SE(x).bm \cup {idx}
          /\ \A p \in Page : p # si.cur => mem'[p] = mem[p]
      BY <2>1, <2>4, BitEffect
    <3>2. \A f \in InitEntries(Bucket) :
              /\ f \in Entries /\ SE(f).bm \subseteq Bucket'.se[f].bm
              /\ Bucket'.se[f].size = SE(f).size /\ Bucket'.se[f].cur = SE(f).cur
      BY <3>1 DEF InitEntries
    <3>3. Fuller(mem, Bucket, mem', Bucket')
      BY <2>1, <2>2, <3>1, <3>2, SameRoom
    <3>4. SnapshotBucket' = SnapshotBucket \/ SnapshotBucket' = Bucket'
      <4>1. si.snap \in Page
        BY <2>2, Shape
      <4> QED
        BY <2>1, <3>1, <4>1 DEF SnapshotBucket, Bucket
    <3>5. FileRoom'
      BY <2>2, <3>3, <3>4, FileRoomKept
    <3>6. ListRoom'
      BY <2>1, <2>2, <3>3, ListRoomKept
    <3> QED
      BY <3>5, <3>6 DEF RoomInv
  <2>5. ASSUME NEW content \in DataPage, Store(op.e, content),
               SE(op.e).size # "L" => BitmapOf(mem, Bucket, op.e) \subseteq content.hdr
        PROVE  RoomInv'
    BY <2>1, <2>5, StoreRoom
  <2> QED
    BY <1>2, <2>3, <2>4, <2>5, AllocMemStores
<1> QED
  BY <1>1, <1>2

(* slab_palloc takes the first entry of the list, or puts one in front     *)
(* when that is full, and the bucket is copied.                            *)
LEMMA PallocKeepsRoom ==
    ASSUME IndInv, RoomInv, Palloc
    PROVE  RoomInv'
<1>1. PICK size \in Sizes : slab_palloc(size)
  BY DEF Palloc
<1>2. pc = "run" /\ pc \notin Down /\ slab_bucket_snapshot
  BY <1>1 DEF slab_palloc, Down
<1>3. si.cur # NULL /\ FileRoom /\ ListRoom /\ es \in [Sizes -> Entries \cup {NULL}]
  BY <1>2, Running DEF RoomInv, ProcessType
<1>4. /\ Bucket'.se = Bucket.se /\ si'.cur = si.cur
      /\ \A p \in InUse(fm) : p # si.cur => mem'[p] = mem[p]
      /\ SnapshotBucket' = SnapshotBucket \/ SnapshotBucket' = Bucket
  BY <1>2, PallocEffect
<1>5. Fuller(mem, Bucket, mem', Bucket')
  <2>1. \A f \in InitEntries(Bucket) : SE(f).cur \in InUse(fm) /\ SE(f).cur # si.cur
    BY <1>2, <1>3, Shape
  <2>2. InitEntries(Bucket') = InitEntries(Bucket)
    BY <1>4 DEF InitEntries
  <2> QED
    BY <1>4, <2>1, <2>2 DEF Fuller, BitmapOf, SE
<1>6. FileRoom'
  BY <1>3, <1>4, <1>5, FileRoomKept
<1>7. ASSUME NEW e \in Entries, HasRoom(mem', Bucket', e)
      PROVE  e = es'[Bucket'.se[e].size]
  <2>1. HasRoom(mem, Bucket, e) /\ Bucket'.se[e] = SE(e) /\ SE(e).size \in Sizes
    <3>1. HasRoom(mem, Bucket, e)
      BY <1>5, <1>7, FullerHasLessRoom
    <3> QED
      BY <1>3, <1>4, <3>1, Shape DEF HasRoom, SE
  <2>2. e = es[SE(e).size]
    BY <1>3, <2>1 DEF ListRoom
  <2>3. CASE HeadHasRoom(size) \/ SE(e).size # size
    BY <1>1, <1>3, <2>1, <2>2, <2>3 DEF slab_palloc, InsertHead
  <2>4. CASE ~HeadHasRoom(size) /\ SE(e).size = size
    <3>1. ~slab_entry_full(e) /\ e # NULL
      BY <2>1, NullAssumption, EntriesAssumption
      DEF slab_entry_full, HasRoom, Bitmap, BitmapOf, SE, Entries
    <3> QED
      BY <2>2, <2>4, <3>1 DEF HeadHasRoom
  <2> QED
    BY <2>3, <2>4
<1>8. es'[op'.size] = op'.e
  BY <1>1, <1>3 DEF slab_palloc, InsertHead, NoOp
<1>9. ListRoom'
  BY <1>7, <1>8 DEF ListRoom, SE
<1> QED
  BY <1>6, <1>9 DEF RoomInv

(* An entry is given its page when no other of its size has room. *)
LEMMA EntryInitKeepsRoom ==
    ASSUME IndInv, RoomInv, slab_entry_init
    PROVE  RoomInv'
<1>1. /\ pc = "pallocInit" /\ pc' = "pallocMem" /\ pc \notin Down /\ si' = si /\ es' = es
  BY DEF slab_entry_init, Down
<1>2. si.cur # NULL /\ FileRoom /\ ListRoom
  BY <1>1, Running DEF RoomInv
<1>3. CASE op.e \in InitEntries(Bucket)
  <2>1. mem' = mem
    BY <1>3 DEF slab_entry_init, InitEntries, SE
  <2>2. Bucket' = Bucket /\ SnapshotBucket' = SnapshotBucket
    BY <1>1, <2>1 DEF Bucket, SnapshotBucket
  <2> QED
    BY <1>1, <1>2, <2>1, <2>2 DEF RoomInv, FileRoom, ListRoom, SE
<1>4. CASE op.e \notin InitEntries(Bucket)
  <2>1. /\ op.e \in Entries /\ si.cur # si.snap
        /\ InitEntries(Bucket') = InitEntries(Bucket) \cup {op.e}
        /\ \A f \in Entries : f # op.e => Bucket'.se[f] = SE(f)
        /\ Bucket'.se[op.e].size = op.size
        /\ \A p \in Page : p # si.cur => mem'[p] = mem[p]
    BY <1>4, InitEffect
  <2>2. SnapshotBucket' = SnapshotBucket
    <3>1. si.snap \in Page
      BY <1>2, Shape
    <3> QED
      BY <1>1, <2>1, <3>1 DEF SnapshotBucket
  <2>3. ASSUME NEW e \in Entries, HasRoom(mem', Bucket', e), e # op.e
        PROVE  HasRoom(mem, Bucket, e) /\ Bucket'.se[e] = SE(e)
    <3>1. e \in InitEntries(Bucket) /\ Bucket'.se[e] = SE(e)
      BY <2>1, <2>3 DEF HasRoom
    <3>2. mem'[SE(e).cur] = mem[SE(e).cur]
      BY <1>2, <2>1, <3>1, Shape
    <3> QED
      BY <2>3, <3>1, <3>2 DEF HasRoom, BitmapOf, SE
  <2>4. ASSUME NEW e \in Entries, HasRoom(mem', Bucket', e), e # op.e
        PROVE  Bucket'.se[e].size # op.size
    <3>1. e = es[SE(e).size] /\ Bucket'.se[e] = SE(e)
      BY <1>2, <2>3, <2>4 DEF ListRoom
    <3>2. es[op.size] = op.e
      BY <1>1, <1>2 DEF ListRoom
    <3> QED
      BY <2>4, <3>1, <3>2
  <2>5. OneRoom(mem', Bucket')
    <3> SUFFICES ASSUME NEW e \in Entries, NEW f \in Entries, HasRoom(mem', Bucket', e),
                        HasRoom(mem', Bucket', f), Bucket'.se[e].size = Bucket'.se[f].size
                 PROVE  e = f
      BY DEF OneRoom
    <3>1. CASE e # op.e /\ f # op.e
      <4>1. /\ HasRoom(mem, Bucket, e) /\ Bucket'.se[e] = SE(e)
            /\ HasRoom(mem, Bucket, f) /\ Bucket'.se[f] = SE(f)
        BY <2>3, <3>1
      <4> QED
        BY <1>2, <4>1 DEF FileRoom, OneRoom, SE
    <3>2. CASE e = op.e \/ f = op.e
      BY <2>1, <2>4, <3>2
    <3> QED
      BY <3>1, <3>2
  <2>6. OneRoom(mem', SnapshotBucket)
    <3>1. Fuller(mem, SnapshotBucket, mem', SnapshotBucket)
      <4>1. \A f \in InitEntries(SnapshotBucket) :
                SnapshotBucket.se[f].cur \in Page /\ SnapshotBucket.se[f].cur # si.cur
        BY <1>2, Shape
      <4> QED
        BY <2>1, <4>1 DEF Fuller, BitmapOf
    <3> QED
      BY <1>2, <3>1, FullerHasOneRoom DEF FileRoom
  <2>7. FileRoom'
    <3>1. ASSUME NEW e \in InitEntries(SnapshotBucket)
          PROVE  /\ e \in InitEntries(Bucket')
                 /\ Bucket'.se[e].size = SnapshotBucket.se[e].size
                 /\ Bucket'.se[e].cur = SnapshotBucket.se[e].cur
      <4>1. /\ e \in InitEntries(Bucket) /\ SE(e).size = SnapshotBucket.se[e].size
            /\ SE(e).cur = SnapshotBucket.se[e].cur
        BY <1>2 DEF FileRoom
      <4>2. e # op.e /\ e \in Entries
        BY <1>4, <4>1 DEF InitEntries
      <4> QED
        BY <2>1, <4>1, <4>2
    <3> QED
      BY <2>2, <2>5, <2>6, <3>1 DEF FileRoom, SE
  <2>8. ListRoom'
    <3>1. ASSUME NEW e \in Entries, HasRoom(mem', Bucket', e)
          PROVE  e = es[Bucket'.se[e].size]
      <4>1. CASE e = op.e
        BY <1>1, <1>2, <2>1, <4>1 DEF ListRoom
      <4>2. CASE e # op.e
        BY <1>2, <2>3, <3>1, <4>2 DEF ListRoom
      <4> QED
        BY <4>1, <4>2
    <3> QED
      BY <1>1, <3>1 DEF ListRoom, SE
  <2> QED
    BY <2>7, <2>8 DEF RoomInv
<1> QED
  BY <1>3, <1>4

(* A checkpoint stores to no data page and sets no bit. *)
LEMMA CpointKeepsRoom ==
    ASSUME IndInv, RoomInv, Cpoint
    PROVE  RoomInv'
<1>1. /\ pc \in InCpoint \cup {"run"} /\ pc' \in InCpoint \cup {"run"} /\ es' = es
      /\ pc \notin Down /\ pc' # "pallocInit"
  BY DEF Cpoint, container_cpoint, slab_bucket_cpoint, slab_inner_cpoint, ClearHasSnapshot,
     SkipBucket, slab_cpoint, CpointReturns, InCpoint, Down
<1>2. si.cur # NULL /\ FileRoom /\ ListRoom /\ si \in [cur : Page, snap : Page]
  BY <1>1, Running, Shape DEF RoomInv
<1>3. ASSUME mem' = mem, si'.cur = si.cur, si'.snap = si.snap \/ si'.snap = si.cur
      PROVE  RoomInv'
  <2>1. /\ Bucket' = Bucket /\ mem' = mem
        /\ SnapshotBucket' = SnapshotBucket \/ SnapshotBucket' = Bucket'
    BY <1>3 DEF Bucket, SnapshotBucket
  <2>2. Fuller(mem, Bucket, mem', Bucket')
    BY <2>1 DEF Fuller, BitmapOf
  <2> QED
    BY <1>1, <1>2, <2>1, <2>2, FileRoomKept, ListRoomKept DEF RoomInv
<1>4. ASSUME si' = si, \A p \in Page : p # si.cur => mem'[p] = mem[p],
             Bucket'.se = Bucket.se \/ SameEntries(Bucket, Bucket')
      PROVE  RoomInv'
  <2>1. /\ InitEntries(Bucket') = InitEntries(Bucket)
        /\ \A f \in InitEntries(Bucket) :
              /\ Bucket'.se[f].size = SE(f).size /\ SE(f).bm = Bucket'.se[f].bm
              /\ Bucket'.se[f].cur = SE(f).cur
    <3>1. CASE Bucket'.se = Bucket.se
      BY <3>1 DEF InitEntries, SE
    <3>2. CASE SameEntries(Bucket, Bucket')
      BY <3>2 DEF SameEntries, InitEntries, SE
    <3> QED
      BY <1>4, <3>1, <3>2
  <2>2. Fuller(mem, Bucket, mem', Bucket')
    BY <1>2, <1>4, <2>1, SameRoom
  <2>3. SnapshotBucket' = SnapshotBucket \/ SnapshotBucket' = Bucket'
    BY <1>2, <1>4 DEF Bucket, SnapshotBucket
  <2> QED
    BY <1>1, <1>2, <2>2, <2>3, FileRoomKept, ListRoomKept DEF RoomInv
<1>5. CASE container_cpoint \/ SkipBucket \/ slab_cpoint \/ CpointReturns
  BY <1>3, <1>5 DEF container_cpoint, SkipBucket, slab_cpoint, CpointReturns, file
<1>6. CASE slab_inner_cpoint
  <2>1. mem' = mem /\ si' = [si EXCEPT !.snap = si.cur]
    BY <1>6 DEF slab_inner_cpoint, CommittedBucket
  <2> QED
    BY <1>2, <1>3, <2>1
<1>7. CASE slab_bucket_cpoint
  <2>1. CASE op.i \in InitEntries(Bucket)
    <3>1. si' = si
      BY <1>7 DEF slab_bucket_cpoint
    <3> QED
      BY <1>4, <1>7, <2>1, <3>1, CommitEffect
  <2>2. CASE op.i \notin InitEntries(Bucket)
    <3>1. op.i \in Entries
      BY <1>1, <1>7, Running, EntriesAssumption DEF slab_bucket_cpoint, CallInv, InCpoint, Entries
    <3>2. mem' = mem /\ si' = si
      BY <1>7, <2>2, <3>1 DEF slab_bucket_cpoint, InitEntries, SE
    <3> QED
      BY <1>3, <3>2
  <2> QED
    BY <2>1, <2>2
<1>8. CASE ClearHasSnapshot
  <2>1. si' = si
    BY <1>8 DEF ClearHasSnapshot
  <2> QED
    BY <1>4, <1>8, <2>1, ClearEffect
<1> QED
  BY <1>5, <1>6, <1>7, <1>8 DEF Cpoint

(* index_slab_entry puts the entry with room, when there is only one of    *)
(* its size, at the head of the list.                                      *)
LEMMA IndexedRoom ==
    ASSUME NEW m, NEW b, NEW S, GoodBucket(b, S), OneRoom(m, b), NEW e \in Entries, HasRoom(m, b, e)
    PROVE  index_slab_entry(m, b)[b.se[e].size] = e
<1> DEFINE Full(f) == IF b.se[f].size = "L"
                      THEN Slots("L") \subseteq b.se[f].bm
                      ELSE Slots("S") \subseteq AsData(m[b.se[f].cur]).hdr
           Of(s) == {f \in Entries : b.se[f].size = s}
           Room(s) == {f \in Of(s) : ~Full(f)}
           First(s) == IF Of(s) = {} THEN NULL
                       ELSE IF Room(s) # {} THEN CHOOSE i \in Room(s) : \A f \in Room(s) : f =< i
                       ELSE CHOOSE i \in Of(s) : \A f \in Of(s) : i =< f
           z == b.se[e].size
           R == Room(z)
<1>1. index_slab_entry(m, b) = [s \in Sizes |-> First(s)]
  BY DEF index_slab_entry
<1>2. e \in InitEntries(b) /\ z \in Sizes
  <2>1. e \in InitEntries(b)
    BY DEF HasRoom
  <2> QED
    BY <2>1, GoodEntries
<1>3. ASSUME NEW f \in Entries, b.se[f].size = z
      PROVE  HasRoom(m, b, f) <=> ~Full(f)
  <2>1. f \in InitEntries(b)
    BY <1>2, <1>3, NoSizeAssumption DEF InitEntries, SLAB_ENTRY_IS_INIT
  <2>2. CASE z = "L"
    BY <1>3, <2>1, <2>2 DEF HasRoom, BitmapOf
  <2>3. CASE z # "L"
    <3>1. z = "S"
      BY <1>2, <2>3 DEF Sizes
    <3> QED
      BY <1>3, <2>1, <3>1 DEF HasRoom, BitmapOf
  <2> QED
    BY <2>2, <2>3
<1> HIDE DEF Full
<1>4. R = {e}
  <2>1. e \in R
    BY <1>3
  <2>2. ASSUME NEW f \in R PROVE f = e
    BY <1>3, <2>2 DEF OneRoom
  <2> QED
    BY <2>1, <2>2
<1>5. Of(z) # {} /\ e \in Nat
  BY <1>2, EntriesAssumption DEF Entries
<1>6. First(z) = CHOOSE i \in R : \A f \in R : f =< i
  BY <1>4, <1>5
<1> HIDE DEF R, First, Of
<1>7. (CHOOSE i \in R : \A f \in R : f =< i) \in R
  <2>1. e \in R /\ \A f \in R : f =< e
    BY <1>4, <1>5
  <2> QED
    BY <2>1
<1>8. First(z) = e
  BY <1>4, <1>6, <1>7
<1> HIDE DEF z
<1>9. index_slab_entry(m, b)[z] = First(z)
  BY <1>1, <1>2
<1> QED
  BY <1>8, <1>9 DEF z

(* A process dies, or a restore begins another. *)
LEMMA DeathKeepsRoom ==
    ASSUME IndInv, RoomInv, Crash \/ Dies \/ Restore
    PROVE  RoomInv'
<1>1. CASE Crash \/ DiesAllocating \/ DiesFlushing \/ RestoreFaults \/ RestoreAsserts
  <2>1. pc' \in Down /\ mem' = mem /\ si' = si
    BY <1>1 DEF Crash, DiesAllocating, DiesFlushing, RestoreFaults, RestoreAsserts, Dead, Down
  <2>2. Bucket' = Bucket /\ SnapshotBucket' = SnapshotBucket
    BY <2>1 DEF Bucket, SnapshotBucket
  <2> QED
    BY <2>1, <2>2 DEF RoomInv, FileRoom, SE
<1>2. CASE RestoreIncomplete \/ RestoreComplete
  <2>1. /\ pc \in Down /\ fm.stSize > 0 /\ mem' = mem /\ pc' \in {"cpEntry", "run"}
        /\ si' = si \/ si' = [si EXCEPT !.cur = si.snap]
        /\ es' = index_slab_entry(mem, mem[si'.cur])
    <3>1. CASE RestoreIncomplete
      BY <3>1 DEF RestoreIncomplete, IncompleteRefs, Mapped
    <3>2. CASE RestoreComplete
      <4>1. /\ pc \in Down /\ fm.stSize > 0 /\ mem' = mem /\ pc' = "run"
            /\ si' = [si EXCEPT !.cur = si.snap]
            /\ es' = index_slab_entry(mem, mem[si.snap])
        BY <3>2 DEF RestoreComplete, Mapped, SnapshotBucket
      <4>2. si'.cur = si.snap
        <5>1. si.cur # NULL
          BY <4>1 DEF IndInv
        <5>2. si \in [cur : Page, snap : Page]
          BY <5>1, Shape
        <5> QED
          BY <4>1, <5>2
      <4> QED
        BY <4>1, <4>2
    <3> QED
      BY <1>2, <3>1, <3>2
  <2>2. si.cur # NULL
    BY <2>1 DEF IndInv
  <2>3. si \in [cur : Page, snap : Page] /\ FileRoom
    BY <2>2, Shape DEF RoomInv
  <2>4. /\ SnapshotBucket' = SnapshotBucket
        /\ Bucket' = Bucket \/ Bucket' = SnapshotBucket
    BY <2>1, <2>3 DEF Bucket, SnapshotBucket
  <2>5. FileRoom' /\ OneRoom(mem, Bucket')
    <3>1. CASE Bucket' = Bucket
      BY <2>1, <2>3, <2>4, <3>1 DEF FileRoom, SE
    <3>2. CASE Bucket' = SnapshotBucket
      BY <2>1, <2>3, <2>4, <3>2 DEF FileRoom, SE
    <3> QED
      BY <2>4, <3>1, <3>2
  <2>6. GoodBucket(Bucket', DataPages)
    <3>1. GoodBucket(Bucket, DataPages) /\ GoodBucket(SnapshotBucket, DataPages)
      BY <2>2, Created DEF FileInv
    <3> QED
      BY <2>4, <3>1
  <2>7. ListRoom'
    <3>1. es' = index_slab_entry(mem, Bucket')
      BY <2>1 DEF Bucket
    <3>2. \A e \in Entries : HasRoom(mem, Bucket', e) => e = es'[Bucket'.se[e].size]
      BY <2>5, <2>6, <3>1, IndexedRoom
    <3> QED
      BY <2>1, <3>2 DEF ListRoom, SE
  <2> QED
    BY <2>5, <2>7 DEF RoomInv
<1>3. CASE DiesFreeing
  <2>1. /\ si.cur # NULL /\ si'.cur = si.cur /\ SameEntries(Bucket, Bucket')
        /\ \A p \in Page : p # si.cur => mem'[p] = mem[p]
        /\ si' = si \/ (mem' = mem /\ si'.snap = si.cur)
    BY <1>3, FreeingEffect
  <2>2. FileRoom /\ si \in [cur : Page, snap : Page]
    BY <2>1, Shape DEF RoomInv
  <2>3. Fuller(mem, Bucket, mem', Bucket')
    BY <2>1, SameRoom DEF SameEntries, InitEntries, SE
  <2>4. SnapshotBucket'.se = SnapshotBucket.se \/ SnapshotBucket' = Bucket'
    BY <2>1, <2>2 DEF Bucket, SnapshotBucket
  <2>5. FileRoom'
    BY <2>2, <2>3, <2>4, FileRoomKept
  <2>6. pc' \in Down
    BY <1>3 DEF DiesFreeing, Dead, Down
  <2> QED
    BY <2>5, <2>6 DEF RoomInv
<1> QED
  BY <1>1, <1>2, <1>3 DEF Restore, Dies

(* Nothing is initialised in a container that has just been created. *)
LEMMA CreateKeepsRoom ==
    ASSUME IndInv, IndInv', container_init
    PROVE  RoomInv'
<1>1. /\ pc = "down" /\ fm.stSize = 0 /\ pc' = "run" /\ pc' \notin Down
      /\ si'.cur = si'.snap /\ mem' = [mem EXCEPT ![si'.cur] = EmptyBucket]
  BY DEF container_init, Down
<1>2. si.cur = NULL /\ mem = [p \in Page |-> ZeroPage]
  <2>1. ASSUME si.cur # NULL PROVE FALSE
    <3>1. MetaPages \subseteq Pages(0)
      BY <1>1, <2>1, Created DEF FileInv
    <3> QED
      BY <3>1 DEF MetaPages, Pages
  <2> QED
    BY <2>1 DEF IndInv
<1>3. si'.cur \in Page
  <2>1. FileInv'
    BY <1>1 DEF IndInv, Down
  <2> QED
    BY <2>1, MorePages, PagesAssumption DEF FileInv, Page
<1>4. Bucket' = EmptyBucket /\ SnapshotBucket' = EmptyBucket
  BY <1>1, <1>2, <1>3 DEF Bucket, SnapshotBucket
<1>5. InitEntries(EmptyBucket) = {}
  BY DEF EmptyBucket, SLAB_ENTRY_IS_INIT, UninitEntry, InitEntries
<1>6. \A e : ~HasRoom(mem', EmptyBucket, e)
  BY <1>5 DEF HasRoom
<1> QED
  BY <1>1, <1>4, <1>5, <1>6 DEF RoomInv, FileRoom, ListRoom, OneRoom, SE

(* Of each size at most one entry has room, in the bucket and in the copy  *)
(* that a restore may take, and it is the first of the list: whatever is   *)
(* allocated, committed, lost by a death and indexed again by a restore.   *)
THEOREM RoomInvariance == Spec => []RoomInv
<1>1. Init => RoomInv
  BY DEF Init, RoomInv, Down
<1>2. IndInv /\ IndInv' /\ RoomInv /\ [Next]_vars => RoomInv'
  <2> SUFFICES ASSUME IndInv, IndInv', RoomInv, [Next]_vars
               PROVE  RoomInv'
    OBVIOUS
  <2>1. CASE container_init
    BY <2>1, CreateKeepsRoom
  <2>2. CASE Palloc \/ slab_entry_init \/ slab_entry_alloc_mem \/ Write
    BY <2>2, PallocKeepsRoom, EntryInitKeepsRoom, StoresKeepRoom
  <2>3. CASE Cpoint
    BY <2>3, CpointKeepsRoom
  <2>4. CASE Crash \/ Dies \/ Restore
    BY <2>4, DeathKeepsRoom
  <2>5. CASE UNCHANGED vars
    <3>1. mem' = mem /\ si' = si /\ es' = es /\ pc' = pc /\ op' = op
      BY <2>5 DEF vars, file, process
    <3>2. Bucket' = Bucket /\ SnapshotBucket' = SnapshotBucket
      BY <3>1 DEF Bucket, SnapshotBucket
    <3> QED
      BY <3>1, <3>2 DEF RoomInv, FileRoom, ListRoom, SE
  <2> QED
    BY <2>1, <2>2, <2>3, <2>4, <2>5 DEF Next
<1> QED
  BY <1>1, <1>2, Invariance, PTL DEF Spec

(* "If the head is full, then all others slab_entry(s) are also full": the *)
(* look at the head of the list that slab_palloc takes misses no room.     *)
THEOREM HeadFullCorrect == Spec => []HeadFullMeansAllFull
<1>1. IndInv /\ RoomInv => HeadFullMeansAllFull
  <2> SUFFICES ASSUME IndInv, RoomInv, pc = "run", NEW s \in Sizes, es[s] # NULL,
                      slab_entry_full(es[s]), NEW e \in Entries, SE(e).size = s
               PROVE  slab_entry_full(e)
    BY DEF HeadFullMeansAllFull
  <2>1. pc \notin Down /\ ListRoom
    BY DEF RoomInv, Down
  <2>2. e \in InitEntries(Bucket)
    BY NoSizeAssumption DEF InitEntries, SLAB_ENTRY_IS_INIT, SE
  <2>3. ASSUME ~slab_entry_full(e) PROVE FALSE
    <3>1. HasRoom(mem, Bucket, e)
      BY <2>2, <2>3 DEF HasRoom, slab_entry_full, Bitmap, BitmapOf, SE
    <3>2. e = es[s]
      BY <2>1, <3>1 DEF ListRoom
    <3> QED
      BY <2>3, <3>2
  <2> QED
    BY <2>3
<1> QED
  BY <1>1, Invariance, RoomInvariance, PTL

-----------------------------------------------------------------------------
(* The copies of the data pages *)

(* The file is as long after a step of its creator, or longer. *)
LEMMA NeverShorter ==
    ASSUME KeptInv, pc \notin Down, Tracks(fm), Tracks(fm'), fm.fileSize \in Nat,
           fm'.fileSize \in Nat, fm.fileSize =< fm'.fileSize
    PROVE  /\ InitPages =< fm'.fileSize
           /\ NotGrown' => /\ fm'.fileSize = fm.fileSize
                           /\ KeptData /\ CreatorInv
<1>1. InitPages =< fm.fileSize /\ InitPages \in Nat
  BY PagesAssumption DEF KeptInv
<1>2. NotGrown' => fm'.fileSize = InitPages
  BY DEF NotGrown
<1>3. NotGrown' => fm.fileSize = fm'.fileSize
  BY <1>1, <1>2
<1>4. NotGrown' => NotGrown
  BY <1>2, <1>3 DEF NotGrown
<1> QED
  BY <1>1, <1>3, <1>4 DEF KeptInv

(* Stores of the application and of slab_entry_alloc_mem: the page that a  *)
(* checkpoint handled is read-only, and is copied before the store.        *)
LEMMA StoreKept ==
    ASSUME IndInv, KeptInv, pc \in {"run", "pallocMem"}, NEW e \in InitEntries(Bucket),
           NEW content \in DataPage, si' = si, Store(e, content),
           pc' = "run", kept' = kept, DOMAIN op' = DOMAIN NoOp
    PROVE  KeptInv'
<1>1. pc \notin Down /\ pc \notin InCpoint /\ pc' \notin Down /\ pc' \notin InCpoint
  BY DEF Down, InCpoint
<1>2. si.cur # NULL
  BY <1>1, Running
<1>3. /\ InUse(fm) \subseteq Page
      /\ \A f \in InitEntries(Bucket) :
            /\ f \in Entries /\ SE(f).cur \in InUse(fm) /\ SE(f).snap \in InUse(fm)
            /\ SE(f).cur # si.cur /\ SE(f).snap # si.cur
            /\ f # e => SE(f).cur # SE(e).cur /\ SE(f).snap # SE(e).cur
  BY <1>1, <1>2, Shape
<1>4. CASE ~Faults(e)
  <2>1. /\ Bucket' = Bucket /\ fm' = fm
        /\ \A p \in Page : p # SE(e).cur => mem'[p] = mem[p]
    BY <1>1, <1>4, StoreInPlace
  <2>2. /\ InitEntries(Bucket') = InitEntries(Bucket)
        /\ \A f \in Entries : Bucket'.se[f] = SE(f)
        /\ PagesOf(Bucket') = PagesOf(Bucket)
    BY <2>1 DEF SE
  <2>3. ASSUME NotGrown, KeptData, CreatorInv \/ RestorerInv,
               NEW f \in InitEntries(Bucket), kept[f] # NULL
        PROVE  AsData(mem'[SE(f).snap]) = kept[f]
    <3>1. fm.prot[SE(e).cur] # "R"
      BY <1>4 DEF Faults
    <3>2. CreatorInv
      BY <1>1, <2>3, <3>1 DEF RestorerInv
    <3>3. SE(f).snap # SE(e).cur
      <4>1. CASE f = e
        BY <2>3, <3>1, <3>2, <4>1 DEF CreatorInv
      <4>2. CASE f # e
        BY <1>3, <4>2
      <4> QED
        BY <4>1, <4>2
    <3>4. mem'[SE(f).snap] = mem[SE(f).snap]
      BY <1>3, <2>1, <3>3
    <3> QED
      BY <1>3, <2>3, <3>4 DEF KeptData
  <2>4. KeptData /\ NotGrown /\ (CreatorInv \/ RestorerInv) => KeptData'
    <3> SUFFICES ASSUME KeptData, NotGrown, CreatorInv \/ RestorerInv,
                        NEW f \in Entries, kept[f] # NULL
                 PROVE  f \in InitEntries(Bucket') /\ AsData(mem'[Bucket'.se[f].snap]) = kept[f]
      BY DEF KeptData, SE
    <3>1. f \in InitEntries(Bucket)
      BY DEF KeptData
    <3> QED
      BY <2>2, <2>3, <3>1
  <2>5. /\ CreatorInv => CreatorInv'
        /\ RestorerInv => RestorerInv'
        /\ NotGrown' <=> NotGrown
        /\ Tracks(fm') <=> Tracks(fm)
    BY <1>1, <1>3, <2>1, <2>2 DEF CreatorInv, RestorerInv, NotGrown, SE
  <2> QED
    BY <1>1, <1>2, <2>1, <2>4, <2>5 DEF KeptInv
<1>5. CASE Faults(e)
  <2>1. /\ SameEntries(Bucket, Bucket')
        /\ \A f \in Entries : f # e => Bucket'.se[f] = SE(f)
        /\ mem'[Bucket'.se[e].snap] = AsData(mem[SE(e).cur])
        /\ \A p \in InUse(fm) : p \notin {SE(e).cur, si.cur} => mem'[p] = mem[p]
        /\ Bucket'.se[e].snap \notin InUse(fm)
        /\ InUse(fm') = InUse(fm) \cup {Bucket'.se[e].snap}
        /\ Tracks(fm) /\ Tracks(fm')
        /\ fm.fileSize \in Nat /\ fm'.fileSize \in Nat /\ fm.fileSize =< fm'.fileSize
        /\ fm'.fileSize = fm.fileSize =>
                /\ fm'.prot[SE(e).cur] = "W"
                /\ \A p \in InUse(fm) : p # SE(e).cur => fm'.prot[p] = fm.prot[p]
    BY <1>1, <1>5, StoreAfterFault
  <2>2. /\ InitEntries(Bucket') = InitEntries(Bucket)
        /\ \A f \in InitEntries(Bucket) : Bucket'.se[f].cur = SE(f).cur
        /\ \A f \in InitEntries(Bucket) : f # e => Bucket'.se[f].snap = SE(f).snap
    <3>1. InitEntries(Bucket) \subseteq Entries
      BY DEF InitEntries
    <3> QED
      BY <2>1, <3>1 DEF SameEntries, SE
  <2>3. InitPages =< fm'.fileSize
    BY <1>1, <2>1, NeverShorter
  <2>4. ASSUME NotGrown' PROVE KeptData' /\ CreatorInv'
    <3>1. fm'.fileSize = fm.fileSize /\ KeptData /\ CreatorInv
      BY <1>1, <2>1, <2>4, NeverShorter
    <3>2. SE(e).cur = SE(e).snap
      BY <1>5, <3>1 DEF CreatorInv, Faults
    <3>3. /\ fm'.prot[SE(e).cur] # "R"
          /\ \A f \in InitEntries(Bucket) : f # e => fm'.prot[SE(f).cur] = fm.prot[SE(f).cur]
      BY <1>3, <2>1, <3>1
    <3>4. ASSUME NEW f \in Entries, kept[f] # NULL
          PROVE  f \in InitEntries(Bucket') /\ AsData(mem'[Bucket'.se[f].snap]) = kept[f]
      <4>1. f \in InitEntries(Bucket) /\ AsData(mem[SE(f).snap]) = kept[f]
        BY <3>1, <3>4 DEF KeptData
      <4>2. CASE f = e
        <5>1. AsData(mem[SE(e).cur]) \in DataPage
          <6>1. mem \in [Page -> DataPage \cup BucketRec]
            BY <1>2, Shape
          <6> QED
            BY <1>3, <6>1, AsDataType
        <5>2. AsData(AsData(mem[SE(e).cur])) = AsData(mem[SE(e).cur])
          BY <5>1, AsDataType
        <5> QED
          BY <2>1, <2>2, <3>2, <4>1, <4>2, <5>2
      <4>3. CASE f # e
        <5>1. mem'[SE(f).snap] = mem[SE(f).snap]
          BY <1>3, <2>1, <4>1, <4>3
        <5> QED
          BY <2>2, <4>1, <4>3, <5>1
      <4> QED
        BY <4>2, <4>3
    <3>5. KeptData'
      BY <3>4 DEF KeptData, SE
    <3>6. \A f \in InitEntries(Bucket') :
              fm'.prot[Bucket'.se[f].cur] = "R" => Bucket'.se[f].cur = Bucket'.se[f].snap
      BY <2>2, <3>1, <3>3 DEF CreatorInv
    <3>7. ASSUME NEW f \in InitEntries(Bucket'), kept[f] # NULL,
                 Bucket'.se[f].cur = Bucket'.se[f].snap
          PROVE  fm'.prot[Bucket'.se[f].cur] = "R"
      <4>1. f # e
        BY <1>3, <2>1, <2>2, <3>7
      <4> QED
        BY <2>2, <3>1, <3>3, <3>7, <4>1 DEF CreatorInv
    <3>8. InUse(fm') \subseteq MetaPages \cup {si.cur, si.snap} \cup PagesOf(Bucket')
      <4>1. PagesOf(Bucket) \subseteq PagesOf(Bucket')
        BY <2>2, <3>2 DEF PagesOf, SE
      <4>2. Bucket'.se[e].snap \in PagesOf(Bucket')
        BY <2>2 DEF PagesOf
      <4> QED
        BY <2>1, <3>1, <4>1, <4>2 DEF CreatorInv
    <3>9. CreatorInv'
      BY <1>1, <3>6, <3>7, <3>8 DEF CreatorInv, SE
    <3> QED
      BY <3>5, <3>9
  <2> QED
    BY <1>1, <1>2, <2>1, <2>3, <2>4 DEF KeptInv
<1> QED
  BY <1>4, <1>5

(* A step that stores to no data page, leaves the entries their pages and  *)
(* the pages in use their protections                                      *)
LEMMA QuietKept ==
    ASSUME IndInv, KeptInv, pc \notin Down, pc' \notin Down, DOMAIN op' = DOMAIN NoOp,
           kept' = kept, si'.cur # NULL,
           \A p \in InUse(fm) : p # si.cur => mem'[p] = mem[p],
           InitEntries(Bucket') = InitEntries(Bucket),
           \A f \in InitEntries(Bucket) :
               Bucket'.se[f].cur = SE(f).cur /\ Bucket'.se[f].snap = SE(f).snap,
           Tracks(fm') <=> Tracks(fm), fm'.fileSize = fm.fileSize \/ Tracks(fm),
           fm.fileSize \in Nat, fm'.fileSize \in Nat, fm.fileSize =< fm'.fileSize,
           fm'.fileSize = fm.fileSize => \A p \in InUse(fm) : fm'.prot[p] = fm.prot[p],
           InUse(fm') \ {si'.cur, si'.snap} \subseteq InUse(fm) \ {si.cur, si.snap},
           pc' \in InCpoint => \/ pc \in InCpoint /\ op'.type = op.type
                               \/ pc \notin InCpoint /\ op'.type = "REGULAR",
           pc \in InCpoint => pc' \in InCpoint
    PROVE  KeptInv'
<1>1. si.cur # NULL
  BY Running
<1>2. \A f \in InitEntries(Bucket) :
            /\ SE(f).cur \in InUse(fm) /\ SE(f).snap \in InUse(fm) /\ SE(f).snap # si.cur
  BY <1>1, Shape
<1>3. KeptData => KeptData'
  <2> SUFFICES ASSUME KeptData, NEW f \in Entries, kept[f] # NULL
               PROVE  f \in InitEntries(Bucket') /\ AsData(mem'[Bucket'.se[f].snap]) = kept[f]
    BY DEF KeptData, SE
  <2>1. f \in InitEntries(Bucket) /\ AsData(mem[SE(f).snap]) = kept[f]
    BY DEF KeptData
  <2>2. mem'[SE(f).snap] = mem[SE(f).snap]
    BY <1>2, <2>1
  <2> QED
    BY <2>1, <2>2
<1>4. ASSUME fm'.fileSize = fm.fileSize
      PROVE  \A f \in InitEntries(Bucket) : fm'.prot[Bucket'.se[f].cur] = fm.prot[SE(f).cur]
  BY <1>2, <1>4
<1>5. ASSUME fm'.fileSize = fm.fileSize, CreatorInv PROVE CreatorInv'
  <2>1. \A f \in InitEntries(Bucket') :
            /\ fm'.prot[Bucket'.se[f].cur] = "R" => Bucket'.se[f].cur = Bucket'.se[f].snap
            /\ kept'[f] # NULL /\ Bucket'.se[f].cur = Bucket'.se[f].snap =>
                    fm'.prot[Bucket'.se[f].cur] = "R"
    BY <1>4, <1>5 DEF CreatorInv
  <2>2. InUse(fm') \subseteq MetaPages \cup {si'.cur, si'.snap} \cup PagesOf(Bucket')
    <3>1. PagesOf(Bucket') = PagesOf(Bucket)
      BY DEF PagesOf, SE
    <3> QED
      BY <1>5, <3>1 DEF CreatorInv
  <2>3. pc' \in InCpoint => op'.type = "REGULAR"
    BY <1>5 DEF CreatorInv
  <2> QED
    BY <2>1, <2>2, <2>3 DEF CreatorInv, SE
<1>6. ASSUME fm'.fileSize = fm.fileSize, RestorerInv PROVE RestorerInv'
  <2>1. CASE pc \in InCpoint /\ op.type = "RESTORE"
    BY <2>1 DEF RestorerInv
  <2>2. CASE \A f \in InitEntries(Bucket) : fm.prot[SE(f).cur] = "R"
    BY <1>4, <1>6, <2>2 DEF RestorerInv, SE
  <2> QED
    BY <1>6, <2>1, <2>2 DEF RestorerInv
<1>7. CASE Tracks(fm)
  BY <1>3, <1>5, <1>7, NeverShorter DEF KeptInv
<1>8. CASE ~Tracks(fm)
  <2>1. NotGrown /\ fm'.fileSize = fm.fileSize
    BY <1>8 DEF NotGrown
  <2> QED
    BY <1>3, <1>6, <1>8, <2>1 DEF KeptInv
<1> QED
  BY <1>7, <1>8

(* The steps of slab_palloc and the stores of the application *)
LEMMA CallsKept ==
    ASSUME IndInv, KeptInv, Palloc \/ slab_entry_init \/ slab_entry_alloc_mem \/ Write
    PROVE  KeptInv'
<1>1. /\ pc \in {"run", "pallocInit", "pallocMem"} /\ pc' \in {"run", "pallocInit", "pallocMem"}
      /\ kept' = kept /\ si'.cur = si.cur
      /\ op' = op \/ op' = NoOp \/ \E e, s : op' = [NoOp EXCEPT !.e = e, !.size = s]
  <2>1. CASE Palloc
    <3>1. PICK size \in Sizes : slab_palloc(size)
      BY <2>1 DEF Palloc
    <3>2. pc = "run" /\ pc' = "pallocInit" /\ kept' = kept /\ slab_bucket_snapshot /\ pc \notin Down
      BY <3>1 DEF slab_palloc, Down
    <3>3. \E e, s : op' = [NoOp EXCEPT !.e = e, !.size = s]
      BY <3>1 DEF slab_palloc
    <3>4. si'.cur = si.cur
      BY <3>2, PallocEffect
    <3> QED
      BY <3>2, <3>3, <3>4
  <2>2. CASE slab_entry_init \/ slab_entry_alloc_mem \/ Write
    BY <2>2 DEF slab_entry_init, slab_entry_alloc_mem, Write, AppWrite, known
  <2> QED
    BY <2>1, <2>2
<1>2. /\ pc \notin Down /\ pc' \notin Down /\ pc \notin InCpoint /\ pc' \notin InCpoint
      /\ DOMAIN op' = DOMAIN NoOp
  BY <1>1 DEF Down, InCpoint, KeptInv, NoOp
<1>3. si.cur # NULL
  BY <1>2, Running
<1>4. fm.fileSize \in Nat /\ InUse(fm) \subseteq Page
  BY <1>2, <1>3, Shape DEF HandlerInv
<1>5. ASSUME fm' = fm, si' = si, \A p \in InUse(fm) : p # si.cur => mem'[p] = mem[p],
             InitEntries(Bucket') = InitEntries(Bucket),
             \A f \in InitEntries(Bucket) :
               Bucket'.se[f].cur = SE(f).cur /\ Bucket'.se[f].snap = SE(f).snap
      PROVE  KeptInv'
  <2>1. fm.fileSize =< fm.fileSize
    BY <1>4
  <2> QED
    BY <1>1, <1>2, <1>3, <1>4, <1>5, <2>1, QuietKept
<1>6. CASE Palloc
  <2>1. slab_bucket_snapshot
    BY <1>6 DEF Palloc, slab_palloc
  <2>2. /\ Bucket'.se = Bucket.se
        /\ \A p \in InUse(fm) : p # si.cur => mem'[p] = mem[p]
        /\ si.cur # si.snap => si' = si /\ fm' = fm
        /\ si.cur = si.snap =>
             /\ InUse(fm') = InUse(fm) \cup {si'.snap}
             /\ Tracks(fm) /\ Tracks(fm')
             /\ fm.fileSize \in Nat /\ fm'.fileSize \in Nat /\ fm.fileSize =< fm'.fileSize
             /\ fm'.fileSize = fm.fileSize => \A p \in InUse(fm) : fm'.prot[p] = fm.prot[p]
    BY <1>2, <2>1, PallocEffect
  <2>3. /\ InitEntries(Bucket') = InitEntries(Bucket)
        /\ \A f \in InitEntries(Bucket) :
               Bucket'.se[f].cur = SE(f).cur /\ Bucket'.se[f].snap = SE(f).snap
    BY <2>2 DEF InitEntries, SE
  <2>4. CASE si.cur # si.snap
    BY <1>5, <2>2, <2>3, <2>4
  <2>5. CASE si.cur = si.snap
    <3>1. InUse(fm') \ {si'.cur, si'.snap} \subseteq InUse(fm) \ {si.cur, si.snap}
      BY <1>1, <2>2, <2>5
    <3> QED
      BY <1>1, <1>2, <1>3, <2>2, <2>3, <2>5, <3>1, QuietKept
  <2> QED
    BY <2>4, <2>5
<1>7. CASE slab_entry_init
  <2>1. CASE op.e \in InitEntries(Bucket)
    <3>1. mem' = mem /\ fm' = fm /\ si' = si
      BY <1>7, <2>1 DEF slab_entry_init, InitEntries, SE
    <3>2. Bucket' = Bucket
      BY <3>1 DEF Bucket
    <3> QED
      BY <1>5, <3>1, <3>2 DEF SE
  <2>2. CASE op.e \notin InitEntries(Bucket)
    <3> DEFINE x == op.e
               q == Bucket'.se[x].cur
    <3>1. /\ x \in Entries
          /\ InitEntries(Bucket') = InitEntries(Bucket) \cup {x}
          /\ \A f \in Entries : f # x => Bucket'.se[f] = SE(f)
          /\ Bucket'.se[x].snap = q
          /\ \A p \in Page : p # si.cur => mem'[p] = mem[p]
          /\ InUse(fm') = InUse(fm) \cup {q}
          /\ Tracks(fm) /\ Tracks(fm')
          /\ fm.fileSize \in Nat /\ fm'.fileSize \in Nat /\ fm.fileSize =< fm'.fileSize
          /\ fm'.fileSize = fm.fileSize => \A p \in InUse(fm) : fm'.prot[p] = fm.prot[p]
      BY <1>7, <2>2, InitEffect
    <3>2. si' = si
      BY <1>7 DEF slab_entry_init
    <3>3. InitPages =< fm'.fileSize
      BY <1>2, <3>1, NeverShorter
    <3>4. ASSUME NotGrown' PROVE KeptData' /\ CreatorInv'
      <4>1. fm'.fileSize = fm.fileSize /\ KeptData /\ CreatorInv
        BY <1>2, <3>1, <3>4, NeverShorter
      <4>2. \A f \in InitEntries(Bucket) :
                /\ f \in Entries /\ f # x /\ Bucket'.se[f] = SE(f)
                /\ SE(f).cur \in InUse(fm)
                /\ SE(f).snap \in Page /\ SE(f).snap # si.cur
        BY <1>2, <1>3, <2>2, <3>1, Shape
      <4>3. kept[x] = NULL
        BY <2>2, <3>1, <4>1 DEF KeptData
      <4>4. ASSUME NEW f \in Entries, kept[f] # NULL
            PROVE  f \in InitEntries(Bucket') /\ AsData(mem'[Bucket'.se[f].snap]) = kept[f]
        <5>1. f \in InitEntries(Bucket) /\ AsData(mem[SE(f).snap]) = kept[f]
          BY <4>1, <4>4 DEF KeptData
        <5>2. mem'[SE(f).snap] = mem[SE(f).snap]
          BY <3>1, <4>2, <5>1
        <5> QED
          BY <3>1, <4>2, <5>1, <5>2
      <4>5. ASSUME NEW f \in InitEntries(Bucket')
            PROVE  /\ fm'.prot[Bucket'.se[f].cur] = "R" => Bucket'.se[f].cur = Bucket'.se[f].snap
                   /\ kept[f] # NULL /\ Bucket'.se[f].cur = Bucket'.se[f].snap =>
                            fm'.prot[Bucket'.se[f].cur] = "R"
        <5>1. CASE f = x
          BY <3>1, <4>3, <5>1
        <5>2. CASE f # x
          <6>1. f \in InitEntries(Bucket)
            BY <3>1, <4>5, <5>2
          <6>2. fm'.prot[SE(f).cur] = fm.prot[SE(f).cur] /\ Bucket'.se[f] = SE(f)
            BY <3>1, <4>1, <4>2, <6>1
          <6> QED
            BY <4>1, <6>1, <6>2 DEF CreatorInv
        <5> QED
          BY <5>1, <5>2
      <4>6. InUse(fm') \subseteq MetaPages \cup {si.cur, si.snap} \cup PagesOf(Bucket')
        <5>1. PagesOf(Bucket) \subseteq PagesOf(Bucket')
          BY <3>1, <4>2 DEF PagesOf, SE
        <5>2. q \in PagesOf(Bucket')
          BY <3>1 DEF PagesOf
        <5> QED
          BY <3>1, <4>1, <5>1, <5>2 DEF CreatorInv
      <4>7. CreatorInv'
        BY <1>1, <1>2, <3>2, <4>5, <4>6 DEF CreatorInv, SE
      <4> QED
        BY <1>1, <4>4, <4>7 DEF KeptData, SE
    <3> QED
      BY <1>1, <1>2, <1>3, <3>1, <3>2, <3>3, <3>4 DEF KeptInv
  <2> QED
    BY <2>1, <2>2
<1>8. CASE slab_entry_alloc_mem
  <2>1. /\ pc = "pallocMem" /\ pc' = "run" /\ si' = si /\ op.e \in InitEntries(Bucket)
    BY <1>8, AllocMemStores
  <2>2. CASE mem' = mem /\ fm' = fm
    <3>1. Bucket' = Bucket
      BY <2>1, <2>2 DEF Bucket
    <3> QED
      BY <1>5, <2>1, <2>2, <3>1 DEF SE
  <2>3. ASSUME NEW x \in InitEntries(Bucket), NEW idx, SetBit(x, idx), fm' = fm
        PROVE  KeptInv'
    <3>1. /\ InitEntries(Bucket') = InitEntries(Bucket)
          /\ \A f \in Entries : Bucket'.se[f].cur = SE(f).cur /\ Bucket'.se[f].snap = SE(f).snap
          /\ \A p \in Page : p # si.cur => mem'[p] = mem[p]
      BY <1>2, <2>1, <2>3, BitEffect
    <3>2. InitEntries(Bucket) \subseteq Entries
      BY DEF InitEntries
    <3> QED
      BY <1>4, <1>5, <2>1, <2>3, <3>1, <3>2
  <2>4. ASSUME NEW content \in DataPage, Store(op.e, content)
        PROVE  KeptInv'
    BY <1>1, <1>2, <2>1, <2>4, StoreKept
  <2> QED
    BY <1>8, <2>1, <2>2, <2>3, <2>4, AllocMemStores
<1>9. CASE Write
  <2>1. PICK e \in Entries : AppWrite(e)
    BY <1>9 DEF Write
  <2>2. /\ pc = "run" /\ pc' = "run" /\ si' = si /\ e \in InitEntries(Bucket)
        /\ \E content \in DataPage : Store(e, content)
    BY <2>1, WriteStores
  <2> QED
    BY <1>1, <1>2, <2>2, StoreKept
<1> QED
  BY <1>6, <1>7, <1>8, <1>9

(* One turn of the loop of slab_bucket_cpoint: the page of the entry is    *)
(* its own snapshot again and, in a regular checkpoint, read-only.         *)
LEMMA CommitKept ==
    ASSUME IndInv, KeptInv, slab_bucket_cpoint, op.i \in InitEntries(Bucket)
    PROVE  KeptInv'
<1> DEFINE x == op.i
<1>1. /\ pc = "cpEntry" /\ pc' = "cpEntry" /\ pc \notin Down /\ pc' \notin Down /\ pc \in InCpoint
      /\ pc' \in InCpoint /\ si' = si /\ op' = [op EXCEPT !.i = @ + 1]
  BY DEF slab_bucket_cpoint, Down, InCpoint
<1>2. si.cur # NULL
  BY <1>1, Running
<1>3. DOMAIN op' = DOMAIN NoOp /\ op'.type = op.type
  BY <1>1 DEF KeptInv, NoOp
<1>4. \A f \in InitEntries(Bucket) :
            /\ f \in Entries /\ SE(f).cur \in Pages(fm.fileSize)
            /\ SE(f).cur \in Page /\ SE(f).cur # si.cur
            /\ SE(f).snap \in Page /\ SE(f).snap # si.cur
            /\ f # x => SE(f).cur # SE(x).cur
  <2>1. \A f \in InitEntries(Bucket) :
            /\ f \in Entries /\ SE(f).cur \in InUse(fm)
            /\ SE(f).cur \in Page /\ SE(f).cur # si.cur
            /\ SE(f).snap \in Page /\ SE(f).snap # si.cur
            /\ f # x => SE(f).cur # SE(x).cur
    BY <1>1, <1>2, Shape
  <2> QED
    BY <2>1 DEF InUse
<1>5. /\ SameEntries(Bucket, Bucket') /\ Bucket'.se[x].snap = SE(x).cur
      /\ \A f \in Entries : f # x => Bucket'.se[f] = SE(f)
      /\ \A p \in Page : p # si.cur => mem'[p] = mem[p]
      /\ kept' = [kept EXCEPT ![x] = AsData(mem[SE(x).cur])]
      /\ fm'.fileSize = fm.fileSize /\ (Tracks(fm') <=> Tracks(fm))
      /\ \A p \in Pages(fm.fileSize) : p # SE(x).cur => fm'.prot[p] = fm.prot[p]
      /\ IF op.type = "REGULAR" THEN fm'.prot[SE(x).cur] = "R" ELSE fm'.prot = fm.prot
      /\ InUse(fm') = IF SE(x).cur = SE(x).snap THEN InUse(fm) ELSE InUse(fm) \ {SE(x).snap}
  BY CommitEffect
<1>6. /\ InitEntries(Bucket') = InitEntries(Bucket)
      /\ \A f \in InitEntries(Bucket) : Bucket'.se[f].cur = SE(f).cur
      /\ \A f \in InitEntries(Bucket) : f # x => Bucket'.se[f].snap = SE(f).snap
  BY <1>4, <1>5 DEF SameEntries, SE
<1>7. /\ DOMAIN kept' = Entries /\ kept'[x] = AsData(mem[SE(x).cur])
      /\ \A f \in Entries : f # x => kept'[f] = kept[f]
  BY <1>4, <1>5 DEF KeptInv
<1>8. \A f \in InitEntries(Bucket) :
            f # x \/ op.type # "REGULAR" => fm'.prot[SE(f).cur] = fm.prot[SE(f).cur]
  BY <1>4, <1>5
<1>9. KeptData => KeptData'
  <2> SUFFICES ASSUME KeptData, NEW f \in Entries, kept'[f] # NULL
               PROVE  f \in InitEntries(Bucket') /\ AsData(mem'[Bucket'.se[f].snap]) = kept'[f]
    BY DEF KeptData, SE
  <2>1. CASE f = x
    <3>1. mem'[SE(x).cur] = mem[SE(x).cur]
      BY <1>4, <1>5
    <3> QED
      BY <1>5, <1>6, <1>7, <2>1, <3>1
  <2>2. CASE f # x
    <3>1. f \in InitEntries(Bucket) /\ AsData(mem[SE(f).snap]) = kept[f]
      BY <1>7, <2>2 DEF KeptData
    <3>2. mem'[SE(f).snap] = mem[SE(f).snap]
      BY <1>4, <1>5, <3>1
    <3> QED
      BY <1>6, <1>7, <2>2, <3>1, <3>2
  <2> QED
    BY <2>1, <2>2
<1>10. ASSUME CreatorInv PROVE CreatorInv'
  <2>1. op.type = "REGULAR" /\ op'.type = "REGULAR" /\ fm'.prot[SE(x).cur] = "R"
    BY <1>1, <1>3, <1>5, <1>10 DEF CreatorInv
  <2>2. ASSUME NEW f \in InitEntries(Bucket')
        PROVE  /\ fm'.prot[Bucket'.se[f].cur] = "R" => Bucket'.se[f].cur = Bucket'.se[f].snap
               /\ kept'[f] # NULL /\ Bucket'.se[f].cur = Bucket'.se[f].snap =>
                        fm'.prot[Bucket'.se[f].cur] = "R"
    <3>1. CASE f = x
      BY <1>5, <1>6, <2>1, <3>1
    <3>2. CASE f # x
      <4>1. /\ f \in InitEntries(Bucket) /\ f \in Entries /\ Bucket'.se[f].cur = SE(f).cur
            /\ Bucket'.se[f].snap = SE(f).snap /\ kept'[f] = kept[f]
            /\ fm'.prot[SE(f).cur] = fm.prot[SE(f).cur]
        BY <1>4, <1>6, <1>7, <1>8, <2>2, <3>2
      <4> QED
        BY <1>10, <4>1 DEF CreatorInv
    <3> QED
      BY <3>1, <3>2
  <2>3. InUse(fm') \subseteq MetaPages \cup {si.cur, si.snap} \cup PagesOf(Bucket')
    <3>1. ASSUME NEW p \in PagesOf(Bucket), p # SE(x).snap \/ SE(x).cur = SE(x).snap
          PROVE  p \in PagesOf(Bucket')
      <4>1. PICK f \in InitEntries(Bucket) : p = SE(f).cur \/ p = SE(f).snap
        BY <3>1 DEF PagesOf, SE
      <4>2. CASE p = SE(f).cur
        BY <1>6, <4>1, <4>2 DEF PagesOf
      <4>3. CASE p = SE(f).snap /\ f # x
        BY <1>6, <4>1, <4>3 DEF PagesOf
      <4>4. CASE p = SE(f).snap /\ f = x
        <5>1. p = SE(x).cur
          BY <3>1, <4>4
        <5> QED
          BY <1>6, <5>1 DEF PagesOf
      <4> QED
        BY <4>1, <4>2, <4>3, <4>4
    <3>2. \A p \in InUse(fm') : p \in InUse(fm) /\ (p # SE(x).snap \/ SE(x).cur = SE(x).snap)
      BY <1>5
    <3> QED
      BY <1>10, <3>1, <3>2 DEF CreatorInv
  <2> QED
    BY <1>1, <2>1, <2>2, <2>3 DEF CreatorInv, SE
<1>11. ASSUME RestorerInv PROVE RestorerInv'
  <2>1. CASE op.type = "RESTORE"
    BY <1>1, <1>3, <2>1 DEF RestorerInv
  <2>2. CASE op.type # "RESTORE"
    <3>1. \A f \in InitEntries(Bucket) : fm.prot[SE(f).cur] = "R"
      BY <1>11, <2>2 DEF RestorerInv
    <3>2. \A f \in InitEntries(Bucket) : fm'.prot[SE(f).cur] = "R"
      BY <1>5, <1>8, <3>1
    <3> QED
      BY <1>6, <3>2 DEF RestorerInv, SE
  <2> QED
    BY <2>1, <2>2
<1>12. (NotGrown' <=> NotGrown) /\ InitPages' = InitPages
  BY <1>5 DEF NotGrown
<1> QED
  BY <1>1, <1>2, <1>3, <1>5, <1>7, <1>9, <1>10, <1>11, <1>12 DEF KeptInv

(* The steps of a checkpoint *)
LEMMA CpointKept ==
    ASSUME IndInv, KeptInv, Cpoint
    PROVE  KeptInv'
<1>1. /\ pc \in InCpoint \cup {"run"} /\ pc' \in InCpoint \cup {"run"}
      /\ pc \notin Down /\ pc' \notin Down
  BY DEF Cpoint, container_cpoint, slab_bucket_cpoint, slab_inner_cpoint, ClearHasSnapshot,
     SkipBucket, slab_cpoint, CpointReturns, InCpoint, Down
<1>2. si.cur # NULL
  BY <1>1, Running
<1>3. /\ HandlerInv(fm, InUse(fm)) /\ InUse(fm) \subseteq Page /\ si \in [cur : Page, snap : Page]
      /\ si.snap \in InUse(fm)
  BY <1>1, <1>2, Shape
<1>4. fm.fileSize \in Nat /\ fm.fileSize =< fm.fileSize
  BY <1>3 DEF HandlerInv
<1>5. CASE container_cpoint \/ SkipBucket \/ slab_cpoint
  <2>1. /\ mem' = mem /\ si' = si /\ fm' = fm /\ kept' = kept
        /\ \/ op' = op /\ pc \in InCpoint /\ pc' \in InCpoint
           \/ op' = [NoOp EXCEPT !.type = "REGULAR"] /\ pc \notin InCpoint
    BY <1>5 DEF container_cpoint, SkipBucket, slab_cpoint, file, known, InCpoint
  <2>2. Bucket' = Bucket
    BY <2>1 DEF Bucket
  <2>3. DOMAIN op' = DOMAIN NoOp /\ (pc \notin InCpoint => op'.type = "REGULAR")
    BY <2>1 DEF KeptInv, NoOp
  <2> QED
    BY <1>1, <1>2, <1>4, <2>1, <2>2, <2>3, QuietKept DEF SE
<1>6. CASE slab_bucket_cpoint
  <2>1. CASE op.i \in InitEntries(Bucket)
    BY <1>6, <2>1, CommitKept
  <2>2. CASE op.i \notin InitEntries(Bucket)
    <3>1. op.i \in Entries
      BY <1>1, <1>6, Running, EntriesAssumption DEF slab_bucket_cpoint, CallInv, InCpoint, Entries
    <3>2. /\ mem' = mem /\ si' = si /\ fm' = fm /\ kept' = kept /\ pc \in InCpoint /\ pc' \in InCpoint
          /\ op' = [op EXCEPT !.i = @ + 1]
      BY <1>6, <2>2, <3>1 DEF slab_bucket_cpoint, InitEntries, SE, InCpoint
    <3>3. Bucket' = Bucket
      BY <3>2 DEF Bucket
    <3>4. DOMAIN op' = DOMAIN NoOp /\ op'.type = op.type
      BY <3>2 DEF KeptInv, NoOp
    <3> QED
      BY <1>1, <1>2, <1>4, <3>2, <3>3, <3>4, QuietKept DEF SE
  <2> QED
    BY <2>1, <2>2
<1>7. CASE slab_inner_cpoint
  <2>1. /\ mem' = mem /\ si' = [si EXCEPT !.snap = si.cur] /\ kept' = kept /\ op' = op
        /\ pc \in InCpoint /\ pc' \in InCpoint /\ ~FreeDies(fm, si.snap)
        /\ fm' = fixed_mapper_freepages(fm, si.snap)
    BY <1>7 DEF slab_inner_cpoint, CommittedBucket, known, InCpoint
  <2>2. si'.cur = si.cur /\ si'.snap = si.cur /\ Bucket' = Bucket
    BY <1>3, <2>1 DEF Bucket
  <2>3. /\ Tracks(fm) /\ Tracks(fm') /\ fm'.fileSize = fm.fileSize /\ fm'.prot = fm.prot
        /\ InUse(fm') = InUse(fm) \ {si.snap}
    BY <1>3, <2>1, FreepagesKeeps, FreeGivesBack
  <2>4. InUse(fm') \ {si'.cur, si'.snap} \subseteq InUse(fm) \ {si.cur, si.snap}
    BY <2>2, <2>3
  <2>5. DOMAIN op' = DOMAIN NoOp
    BY <2>1 DEF KeptInv
  <2> QED
    BY <1>1, <1>2, <1>4, <2>1, <2>2, <2>3, <2>4, <2>5, QuietKept DEF SE
<1>8. CASE ClearHasSnapshot
  <2>1. /\ si' = si /\ fm' = fm /\ kept' = kept /\ op' = op /\ pc \in InCpoint /\ pc' \in InCpoint
    BY <1>8 DEF ClearHasSnapshot, InCpoint
  <2>2. Bucket'.se = Bucket.se /\ \A p \in Page : p # si.cur => mem'[p] = mem[p]
    BY <1>8, ClearEffect
  <2>3. InitEntries(Bucket') = InitEntries(Bucket)
    BY <2>2 DEF InitEntries
  <2>4. \A p \in InUse(fm) : p # si.cur => mem'[p] = mem[p]
    BY <1>3, <2>2
  <2>5. DOMAIN op' = DOMAIN NoOp
    BY <2>1 DEF KeptInv
  <2> QED
    BY <1>1, <1>2, <1>4, <2>1, <2>2, <2>3, <2>4, <2>5, QuietKept DEF SE
<1>9. CASE CpointReturns
  <2>1. /\ mem' = mem /\ si' = si /\ kept' = kept /\ op' = NoOp /\ pc \in InCpoint /\ pc' \notin InCpoint
        /\ fm' = IF op.type = "RESTORE" THEN slab_mprotect_datapgs(fm, Bucket) ELSE fm
    BY <1>9 DEF CpointReturns, InCpoint
  <2>2. Bucket' = Bucket /\ KeptData' = KeptData
    BY <2>1 DEF Bucket, KeptData, SE
  <2>3. ASSUME op.type # "RESTORE" PROVE KeptInv'
    <3>1. fm' = fm
      BY <2>1, <2>3
    <3>2. CreatorInv => CreatorInv'
      BY <2>1, <2>2, <3>1 DEF CreatorInv, SE
    <3>3. RestorerInv => RestorerInv'
      BY <2>1, <2>2, <2>3, <3>1 DEF RestorerInv, SE
    <3> QED
      BY <1>1, <1>2, <2>1, <2>2, <3>1, <3>2, <3>3 DEF KeptInv, NotGrown
  <2>4. ASSUME op.type = "RESTORE" PROVE KeptInv'
    <3>1. /\ fm' = slab_mprotect_datapgs(fm, Bucket)
      BY <2>1, <2>4
    <3>2. (Tracks(fm') <=> Tracks(fm)) /\ fm'.fileSize = fm.fileSize
      <4>1. DOMAIN fm = HandlerFields
        BY <1>3 DEF HandlerInv
      <4>2. fm'.fileSize = fm.fileSize /\ fm'.index = fm.index
        BY <3>1, <4>1 DEF slab_mprotect_datapgs, HandlerFields
      <4> QED
        BY <4>2 DEF Tracks
    <3>3. ASSUME NEW f \in InitEntries(Bucket) PROVE fm'.prot[SE(f).cur] = "R"
      <4>1. SE(f).cur \in DOMAIN fm.prot /\ f \in Entries /\ SLAB_ENTRY_IS_INIT(Bucket.se[f])
        <5>1. SE(f).cur \in InUse(fm)
          BY <1>1, <1>2, Shape
        <5> QED
          BY <1>3, <5>1 DEF HandlerInv, InUse, InitEntries
      <4>2. DOMAIN fm = HandlerFields
        BY <1>3 DEF HandlerInv
      <4> QED
        BY <3>1, <4>1, <4>2 DEF slab_mprotect_datapgs, HandlerFields, SE
    <3>4. RestorerInv'
      BY <2>2, <3>3 DEF RestorerInv, SE
    <3>5. CreatorInv => FALSE
      BY <2>1, <2>4 DEF CreatorInv
    <3> QED
      BY <1>1, <1>2, <2>1, <2>2, <3>2, <3>4, <3>5 DEF KeptInv, NotGrown
  <2> QED
    BY <2>3, <2>4
<1> QED
  BY <1>5, <1>6, <1>7, <1>8, <1>9 DEF Cpoint

(* A process dies, or a restore begins another and takes what its mapping  *)
(* finds in the snapshot pages for what a checkpoint left there.           *)
LEMMA DeathKept ==
    ASSUME IndInv, IndInv', KeptInv, Crash \/ Dies \/ Restore
    PROVE  KeptInv'
<1>1. CASE Crash \/ Dies \/ RestoreFaults \/ RestoreAsserts
  <2>1. pc' \in Down /\ kept' = kept /\ op' = NoOp
    BY <1>1 DEF Crash, Dies, DiesAllocating, DiesFreeing, DiesFlushing, RestoreFaults,
       RestoreAsserts, Dead, Down
  <2>2. si'.cur = si.cur
    <3>1. CASE DiesFreeing
      BY <3>1, FreeingEffect
    <3>2. CASE ~DiesFreeing
      BY <1>1, <3>2 DEF Crash, Dies, DiesAllocating, DiesFlushing, RestoreFaults, RestoreAsserts
    <3> QED
      BY <3>1, <3>2
  <2> QED
    BY <2>1, <2>2 DEF KeptInv
<1>2. CASE RestoreIncomplete \/ RestoreComplete
  <2> DEFINE b == mem[si'.cur]
             h == fixed_mapper_init(fm.stSize)
  <2>1. /\ pc \in Down /\ fm.stSize > 0 /\ mem' = mem /\ pc' \in {"cpEntry", "run"}
        /\ pc' \notin Down
    BY <1>2 DEF RestoreIncomplete, RestoreComplete, Down
  <2>2. si.cur # NULL
    BY <2>1 DEF IndInv
  <2>3. si \in [cur : Page, snap : Page] /\ fm.stSize \in Nat \ {0}
    <3>1. fm.stSize \in Nat
      BY <2>2, Created DEF FileInv
    <3> QED
      BY <2>1, <2>2, <3>1, Shape
  <2>4. /\ HandlerInv(h, InUse(h)) /\ ~Tracks(h) /\ DOMAIN h.prot = Pages(h.fileSize)
    BY <2>3, InitUsesAll
  <2>5. /\ si'.cur # NULL /\ DOMAIN op' = DOMAIN NoOp
        /\ kept' = [e \in Entries |-> IF SLAB_ENTRY_IS_INIT(b.se[e])
                                      THEN AsData(mem[b.se[e].snap]) ELSE NULL]
        /\ \/ fm' = h /\ op'.type = "RESTORE" /\ pc' = "cpEntry"
           \/ fm' = slab_mprotect_datapgs(h, b)
    <3>1. CASE RestoreIncomplete
      <4>1. si' = si /\ fm' = h /\ op' = [NoOp EXCEPT !.type = "RESTORE"] /\ pc' = "cpEntry"
            /\ kept' = [e \in Entries |-> IF SLAB_ENTRY_IS_INIT(b.se[e])
                                          THEN AsData(mem[b.se[e].snap]) ELSE NULL]
        BY <3>1 DEF RestoreIncomplete, IncompleteRefs, Mapped
      <4>2. DOMAIN op' = DOMAIN NoOp /\ op'.type = "RESTORE"
        BY <4>1 DEF NoOp
      <4> QED
        BY <2>2, <4>1, <4>2
    <3>2. CASE RestoreComplete
      <4>1. /\ si' = [si EXCEPT !.cur = si.snap] /\ op' = op
            /\ fm' = slab_mprotect_datapgs(h, mem[si.snap])
            /\ kept' = [e \in Entries |-> IF SLAB_ENTRY_IS_INIT(mem[si.snap].se[e])
                                          THEN AsData(mem[mem[si.snap].se[e].snap]) ELSE NULL]
        BY <3>2 DEF RestoreComplete, Mapped, SnapshotBucket
      <4>2. si'.cur = si.snap
        BY <2>3, <4>1
      <4>3. si'.cur # NULL
        BY <2>3, <4>2, NullAssumption DEF Page, Pages
      <4>4. DOMAIN op' = DOMAIN NoOp
        BY <4>1 DEF KeptInv
      <4> QED
        BY <4>1, <4>2, <4>3, <4>4
    <3> QED
      BY <1>2, <3>1, <3>2
  <2>6. Bucket' = b
    BY <2>1 DEF Bucket
  <2>7. KeptData'
    BY <2>1, <2>5, <2>6 DEF KeptData, SE, InitEntries
  <2>8. ~Tracks(fm')
    <3>1. CASE fm' = h
      BY <2>4, <3>1
    <3>2. CASE fm' = slab_mprotect_datapgs(h, b)
      <4> HIDE DEF h, b
      <4> QED
        BY <2>4, <3>2, MprotectDatapgs
    <3> QED
      BY <2>5, <3>1, <3>2
  <2>9. RestorerInv'
    <3>1. CASE op'.type = "RESTORE" /\ pc' = "cpEntry"
      BY <3>1 DEF RestorerInv, InCpoint
    <3>2. CASE fm' = slab_mprotect_datapgs(h, b)
      <4>1. ASSUME NEW f \in InitEntries(b) PROVE fm'.prot[b.se[f].cur] = "R"
        <5>1. DOMAIN h = HandlerFields /\ f \in Entries /\ SLAB_ENTRY_IS_INIT(b.se[f])
          BY <2>4 DEF HandlerInv, InitEntries
        <5>2. fm'.prot = [p \in DOMAIN h.prot |->
                 IF \E e \in Entries : SLAB_ENTRY_IS_INIT(b.se[e]) /\ b.se[e].cur = p
                 THEN "R" ELSE h.prot[p]]
          <6> HIDE DEF h, b
          <6> QED
            BY <3>2, <5>1 DEF slab_mprotect_datapgs, HandlerFields
        <5>3. b.se[f].cur \in DOMAIN h.prot
          <6>1. DOMAIN fm'.prot = DOMAIN h.prot
            BY <5>2
          <6>2. b.se[f].cur \in Pages(fm'.fileSize) /\ DOMAIN fm'.prot = Pages(fm'.fileSize)
            <7>1. PagesInv'
              BY <2>1, <2>5 DEF IndInv
            <7>2. HandlerInv(fm', InUse(fm')) /\ PagesOf(Bucket') \subseteq InUse(fm')
              BY <7>1 DEF PagesInv, Held
            <7>3. b.se[f].cur \in PagesOf(Bucket')
              BY <2>6, <4>1 DEF PagesOf
            <7> QED
              BY <7>2, <7>3 DEF InUse, HandlerInv
          <6> QED
            BY <6>1, <6>2
        <5> QED
          BY <5>1, <5>2, <5>3
      <4> QED
        BY <2>6, <4>1 DEF RestorerInv, SE
    <3> QED
      BY <2>5, <3>1, <3>2
  <2>10. DOMAIN kept' = Entries
    BY <2>5
  <2> QED
    BY <2>5, <2>7, <2>8, <2>9, <2>10 DEF KeptInv
<1> QED
  BY <1>1, <1>2 DEF Restore

(* A container that has just been created has no entry, and five pages. *)
LEMMA CreateKept ==
    ASSUME IndInv, IndInv', KeptInv, container_init
    PROVE  KeptInv'
<1>1. /\ pc = "down" /\ fm.stSize = 0 /\ pc' = "run" /\ pc' \notin InCpoint
      /\ kept' = kept /\ op' = op
  BY DEF container_init, InCpoint
<1>2. si.cur = NULL /\ mem = [p \in Page |-> ZeroPage]
  <2>1. ASSUME si.cur # NULL PROVE FALSE
    <3>1. MetaPages \subseteq Pages(0)
      BY <1>1, <2>1, Created DEF FileInv
    <3> QED
      BY <3>1 DEF MetaPages, Pages
  <2> QED
    BY <2>1 DEF IndInv
<1>3. /\ InOrder(fm', 5) /\ InitPages =< fm'.fileSize
      /\ si' = [cur |-> 4, snap |-> 4] /\ mem' = [mem EXCEPT ![4] = EmptyBucket]
  BY FirstPages
<1>4. Tracks(fm') /\ InUse(fm') = Pages(5)
  BY <1>3 DEF InOrder
<1>5. Bucket' = EmptyBucket
  <2>1. 4 \in Page
    <3>1. HandlerInv(fm', InUse(fm')) /\ fm'.stSize =< MaxPages /\ 4 \in InUse(fm')
      BY <1>3, <1>4 DEF InOrder, Pages
    <3> QED
      BY <3>1, UsedPages
  <2> QED
    BY <1>2, <1>3, <2>1 DEF Bucket
<1>6. InitEntries(Bucket') = {}
  BY <1>5 DEF EmptyBucket, SLAB_ENTRY_IS_INIT, UninitEntry, InitEntries
<1>7. InUse(fm') \subseteq MetaPages \cup {si'.cur, si'.snap} \cup PagesOf(Bucket')
  <2>1. \A p \in Pages(5) : p \in 0 .. 3 \/ p = 4
    BY DEF Pages
  <2>2. si'.cur = 4
    BY <1>3
  <2> QED
    BY <1>4, <2>1, <2>2 DEF MetaPages
<1>8. CreatorInv'
  BY <1>1, <1>6, <1>7 DEF CreatorInv
<1>9. KeptData'
  BY <1>1, <1>2 DEF KeptData, KeptInv
<1>10. si'.cur # NULL
  BY <1>3, NullAssumption
<1> QED
  BY <1>1, <1>3, <1>4, <1>8, <1>9, <1>10 DEF KeptInv

(* What SnapshotIntact and PagesAccounted need holds in every state that   *)
(* the program reaches.                                                    *)
THEOREM KeptInvariance == Spec => []KeptInv
<1>1. Init => KeptInv
  BY DEF Init, KeptInv, Down
<1>2. IndInv /\ IndInv' /\ KeptInv /\ [Next]_vars => KeptInv'
  <2> SUFFICES ASSUME IndInv, IndInv', KeptInv, [Next]_vars
               PROVE  KeptInv'
    OBVIOUS
  <2>1. CASE container_init
    BY <2>1, CreateKept
  <2>2. CASE Palloc \/ slab_entry_init \/ slab_entry_alloc_mem \/ Write
    BY <2>2, CallsKept
  <2>3. CASE Cpoint
    BY <2>3, CpointKept
  <2>4. CASE Crash \/ Dies \/ Restore
    BY <2>4, DeathKept
  <2>5. CASE UNCHANGED vars
    <3>1. mem' = mem /\ si' = si /\ fm' = fm /\ pc' = pc /\ op' = op /\ kept' = kept
      BY <2>5 DEF vars, file, process, known
    <3>2. Bucket' = Bucket
      BY <3>1 DEF Bucket
    <3> QED
      BY <3>1, <3>2 DEF KeptInv, KeptData, CreatorInv, RestorerInv, NotGrown, SE
  <2> QED
    BY <2>1, <2>2, <2>3, <2>4, <2>5 DEF Next
<1> QED
  BY <1>1, <1>2, Invariance, PTL DEF Spec

(* Copy-on-write: until the file grows, the snapshot page of an entry      *)
(* keeps what the last checkpoint of the entry left in it, whatever the    *)
(* application stores, allocates and checkpoints.  The condition always    *)
(* holds of a process that restored the container: it never grows the file.*)
THEOREM SnapshotIntactCorrect == Spec => [](NotGrown => SnapshotIntact)
<1>1. KeptInv => (NotGrown => SnapshotIntact)
  BY DEF KeptInv, KeptData, SnapshotIntact
<1> QED
  BY <1>1, KeptInvariance, PTL

(* Until the file grows, every page of it is named by the container or     *)
(* available: slab_palloc, the fault handler and the checkpoint lose none. *)
THEOREM PagesAccountedCorrect == Spec => [](NotGrown => PagesAccounted)
<1>1. IndInv /\ KeptInv => (NotGrown => PagesAccounted)
  <2> SUFFICES ASSUME IndInv, KeptInv, NotGrown, pc \notin Down, Tracks(fm)
               PROVE  PagesIn(fm.freeList) = Pages(fm.fileSize) \ Referenced
    BY DEF PagesAccounted
  <2>1. PagesInv
    BY Running DEF IndInv
  <2>2. CreatorInv
    BY DEF KeptInv
  <2>3. InUse(fm) \subseteq Referenced
    BY <2>2 DEF CreatorInv, Referenced, Bucket
  <2>4. Referenced \subseteq InUse(fm)
    BY <2>1 DEF PagesInv, Held, Referenced, Bucket, SnapshotBucket, InCpoint
  <2>5. PagesIn(fm.freeList) \subseteq Pages(fm.fileSize)
    BY <2>1, TracksOrEmpty DEF PagesInv
  <2> QED
    BY <2>3, <2>4, <2>5 DEF InUse
<1> QED
  BY <1>1, Invariance, KeptInvariance, PTL
=============================================================================
