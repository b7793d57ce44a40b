----------------------------- MODULE NLSnapshot -----------------------------
(***************************************************************************)
(* Copy-on-write on the non-linear mapper (PMLIB_USE_NLMAPPER=1): instead  *)
(* of redirecting its references, slab_entry_copynswap (data pages) and    *)
(* slab_bucket_copynswap (the bucket) copy a page and exchange what two    *)
(* addresses show, so that the application keeps its addresses.            *)
(*                                                                         *)
(* A reference is a pair of an address (m, a slot of the region) and the   *)
(* offset in the file (l) that a restore would use for it.  One bucket,    *)
(* and allocations of at least SLAB_LARGE_ALLOC bytes, whose bitmap is in  *)
(* the entry: palloc stores to no data page.                               *)
(***************************************************************************)
EXTENDS NLMapperOps

CONSTANT
    NEntries,           \* SLAB_BUCKET_ENTRIES
    MaxCpoints          \* bound on the number of checkpoints

ASSUME EntriesAssumption == NEntries \in Nat \ {0}

Entries == 0 .. NEntries - 1

VARIABLES
    nlm,                \* page allocator and kernel mapping
    sb,                 \* si_current[0], si_snapshot[0] and sb_has_snapshot
    se,                 \* se_data of every entry, NULL until it is initialised
    writable,           \* slots that may be stored to without a fault
    cpoints

vars == <<nlm, sb, se, writable, cpoints>>

Ref(m, l) == [m |-> m, l |-> l]

(* the reference that a call of page_allocator_getpage in h returns *)
NewRef(h) == Ref(AllocatedSlot(h), AllocatedOffset(h))

(* container_init: the pages of the container, the directory, the outer,   *)
(* the inner and the bucket *)
MetaSlots == 0 .. 3

Init ==
    LET four == nlm_alloc_page(nlm_alloc_page(nlm_alloc_page(nlm_alloc_page(nlm_init(0)))))
    IN
    /\ nlm = nlm_alloc_page(four)
    /\ sb = [cur |-> NewRef(four), snap |-> NewRef(four), has |-> FALSE]
    /\ se = [e \in Entries |-> NULL]
    /\ writable = MetaSlots \cup {sb.cur.m}
    /\ cpoints = 0

-----------------------------------------------------------------------------

MutSetBeforeSwap(h, n) ==
    [nlm |-> nlm_swap_pages(h, sb.cur.m, n.l, n.m, n.l),
     sb  |-> [cur |-> Ref(sb.cur.m, n.l), snap |-> Ref(n.m, sb.snap.l), has |-> TRUE]]

(* slab_bucket_copynswap once it has the page n: swap, then the new offset *)
(* of the current bucket and the address of the snapshot                   *)
CopyAndSwapBucket(h, n) ==
    [nlm |-> nlm_swap_pages(h, sb.cur.m, n.l, n.m, sb.cur.l),
     sb  |-> [cur |-> Ref(sb.cur.m, n.l), snap |-> Ref(n.m, sb.snap.l), has |-> TRUE]]

(* sb_has_snapshot is assigned the result. *)
slab_bucket_copynswap ==
    IF sb.cur.m = sb.snap.m
    THEN CopyAndSwapBucket(nlm_alloc_page(nlm), NewRef(nlm))
    ELSE [nlm |-> nlm, sb |-> [sb EXCEPT !.has = FALSE]]

(* slab_palloc of an object in entry e: a new one, or one with room.  The  *)
(* data page of a new entry is asked for read-only, which leaves a page    *)
(* that was writable before writable.                                      *)
slab_palloc(e) ==
    LET s == slab_bucket_copynswap IN
    /\ sb.cur.m = sb.snap.m => CanAlloc(nlm)
    /\ sb' = s.sb
    /\ IF se[e] = NULL
       THEN /\ CanAlloc(s.nlm)
            /\ nlm' = nlm_alloc_page(s.nlm)
            /\ se' = [se EXCEPT ![e] = [cur |-> NewRef(s.nlm), snap |-> NewRef(s.nlm)]]
       ELSE /\ nlm' = s.nlm
            /\ UNCHANGED se
    /\ writable' = writable \cup {s.sb.snap.m}
    /\ UNCHANGED cpoints

(* The store that faults: slab_entry_copynswap assigns the new page to     *)
(* snapshot.maddr and current.laddr before it calls swap_mappings, with    *)
(* the new address as the current and as the snapshot address.             *)
slab_entry_copynswap(e) ==
    LET n == NewRef(nlm) IN
    /\ se[e] # NULL /\ se[e].cur.m \notin writable
    /\ CanAlloc(nlm)
    /\ nlm' = nlm_swap_pages(nlm_alloc_page(nlm), n.m, se[e].snap.l, n.m, n.l)
    /\ se' = [se EXCEPT ![e] = [cur  |-> Ref(se[e].cur.m, n.l),
                                snap |-> Ref(n.m, se[e].snap.l)]]
    /\ writable' = writable \cup {n.m, se[e].cur.m}
    /\ UNCHANGED <<sb, cpoints>>

-----------------------------------------------------------------------------
(* container_cpoint of a bucket that has a snapshot *)

Changed == {e \in Entries : se[e] # NULL /\ se[e].cur.m # se[e].snap.m}

MutFreeCurrent(h) ==
    LET after[i \in 0 .. NEntries] ==
            IF i = 0 THEN h
            ELSE IF i - 1 \in Changed THEN nlm_free_pages(after[i - 1], se[i - 1].cur.m)
            ELSE after[i - 1]
    IN  after[NEntries]

(* slab_bucket_cpoint: the snapshot pages of changed entries are freed, in *)
(* the order of the entries *)
FreeSnapshots(h) ==
    LET after[i \in 0 .. NEntries] ==
            IF i = 0 THEN h
            ELSE IF i - 1 \in Changed THEN nlm_free_pages(after[i - 1], se[i - 1].snap.m)
            ELSE after[i - 1]
    IN  after[NEntries]

MutFreeCurrentBucket(h) == nlm_free_pages(h, sb.cur.m)

(* slab_inner_cpoint: page_allocator_freepages(cid, si_snapshot.maddr) *)
FreeBucketSnapshot(h) == nlm_free_pages(h, sb.snap.m)

slab_cpoint ==
    /\ cpoints < MaxCpoints
    /\ cpoints' = cpoints + 1
    /\ IF sb.has
       THEN /\ nlm' = FreeBucketSnapshot(FreeSnapshots(nlm))
            /\ se' = [e \in Entries |-> IF se[e] = NULL THEN NULL
                                        ELSE IF e \in Changed
                                        THEN [cur |-> se[e].cur, snap |-> se[e].cur]
                                        ELSE se[e]]
            /\ sb' = [cur |-> sb.cur, snap |-> sb.cur, has |-> FALSE]
            /\ writable' = writable \ {se[e].cur.m : e \in {f \in Entries : se[f] # NULL}}
       ELSE UNCHANGED <<nlm, se, sb, writable>>

Next ==
    \/ \E e \in Entries : slab_palloc(e)
    \/ \E e \in Entries : slab_entry_copynswap(e)
    \/ slab_cpoint

Spec == Init /\ [][Next]_vars

-----------------------------------------------------------------------------
(* Properties *)

(* The offset recorded for each version of the bucket is the page that its *)
(* address shows, through copies, swaps, checkpoints and growths: what the *)
(* library writes at the address is what a restore reads at the offset.    *)
BucketMapped ==
    /\ nlm.kmap[sb.cur.m] = sb.cur.l
    /\ nlm.kmap[sb.snap.m] = sb.snap.l
    /\ \A a \in MetaSlots : nlm.kmap[a] = a

(* No page of the file that the tree of the slab occupies is available to  *)
(* an allocation: a checkpoint frees the version it replaces and no other. *)
NoMetaAvailable ==
    {nlm.pgoff[a] : a \in SlotsIn(nlm.freeList)} \cap (MetaSlots \cup {sb.cur.l, sb.snap.l})
        = {}

(* Every address that an entry or the bucket refers to is in the tree of   *)
(* pages in use, so that no checkpoint ends in nlm_free_pages' "page not   *)
(* found!" or frees a page twice.                                          *)
AddressesInUse ==
    MetaSlots \cup {sb.cur.m, sb.snap.m}
        \cup UNION {{se[e].cur.m, se[e].snap.m} : e \in {f \in Entries : se[f] # NULL}}
            \subseteq nlm.tree

(* the addresses that entry e refers to *)
EntrySlots(e) == {se[e].cur.m, se[e].snap.m}

(* The inductive invariant of the proofs in NLSnapshotProofs: the bucket,  *)
(* the pages of the tree above it and the entries refer to slots in use,   *)
(* no two of them to the same one.                                         *)
IndInv ==
    /\ HandlerInv(nlm)
    /\ DOMAIN sb = {"cur", "snap", "has"} /\ DOMAIN se = Entries
    /\ MetaSlots \subseteq nlm.tree /\ \A a \in MetaSlots : nlm.pgoff[a] = a
    /\ {sb.cur.m, sb.snap.m} \subseteq nlm.tree \ MetaSlots
    /\ nlm.pgoff[sb.cur.m] = sb.cur.l /\ nlm.pgoff[sb.snap.m] = sb.snap.l
    /\ sb.has \in BOOLEAN /\ (sb.has => sb.cur.m # sb.snap.m)
    /\ \A e \in Entries : se[e] # NULL =>
            EntrySlots(e) \subseteq nlm.tree \ (MetaSlots \cup {sb.cur.m, sb.snap.m})
    /\ \A e, f \in Entries : se[e] # NULL /\ se[f] # NULL /\ e # f =>
            EntrySlots(e) \cap EntrySlots(f) = {}

-----------------------------------------------------------------------------
(* A statement of the repository that the code does not keep *)

(* slab_entry_copynswap: "now we swap the mappings for current and         *)
(* snapshot pages": the page shown at the current address of an entry is   *)
(* the one its offset names.                                               *)
EntryMapped ==
    \A e \in Entries : se[e] # NULL => nlm.kmap[se[e].cur.m] = se[e].cur.l
=============================================================================
