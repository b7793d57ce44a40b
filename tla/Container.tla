----------------------------- MODULE Container -----------------------------
(***************************************************************************)
(* A container while its slab has one bucket: allocation (alloc.c, slab.c),*)
(* copy-on-write of data pages by the SIGSEGV handler (snapshot.c), the    *)
(* checkpoint (cont.c, checkpoint.c), the death of the process between any *)
(* two stores that matter to a restore, and the restore (restore.c).       *)
(*                                                                         *)
(* The configuration is PMLIB_CLOSURE=0 and PMLIB_FIX_PTRS=0 on the fixed  *)
(* mapper: no volatile allocation is moved and no pointer page exists.     *)
(*                                                                         *)
(* Pages of the file are numbered and mem gives their content.  An address *)
(* and its offset in the file (maddr, laddr) are the same page number: a   *)
(* process maps the whole file at one address and a restore computes every *)
(* maddr again from the laddr.  One object size of at least                *)
(* SLAB_LARGE_ALLOC bytes, "L", keeps its bitmap in the slab entry, and    *)
(* one smaller size, "S", keeps it in the first bytes of the data page.    *)
(***************************************************************************)
EXTENDS FixedMapperOps

CONSTANTS
    NEntries,           \* SLAB_BUCKET_ENTRIES
    LargeCap,           \* SLAB_ENTRY_CAPACITY of a page of L objects
    SmallCap,           \* SLAB_ENTRY_CAPACITY of a page of S objects
    Vals,               \* what an application stores in an object
    MaxCpoints,         \* bound on the number of checkpoints
    MaxCrashes          \* bound on the number of deaths of the process

Entries == 0 .. NEntries - 1
Sizes == {"L", "S"}
Slots(size) == IF size = "L" THEN 0 .. LargeCap - 1 ELSE 0 .. SmallCap - 1

ASSUME EntriesAssumption == NEntries \in Nat \ {0}
ASSUME CapacityAssumption == LargeCap \in Nat \ {0} /\ SmallCap \in Nat \ {0}
ASSUME ValsAssumption == Vals # {}
ASSUME NoSizeAssumption == NULL \notin Sizes

VARIABLES
    (* the container file *)
    mem,                \* content of every page
    si,                 \* si_current[0] and si_snapshot[0] of the slab_inner
    flags,              \* CFLAG_CPOINT_IN_PROGRESS
    vec,                \* sd_vector: entries snapshotted since the last checkpoint
    buffer,             \* its buffer: NULL, "own" memory of the process, or "lost"
                        \* with the process that allocated it
    (* the process *)
    fm,                 \* page allocator
    pc,                 \* where the library is; "run" when the application runs
    op,                 \* arguments and locals of the call in progress
    es,                 \* first entry of every size's es_list
    freeEntries,        \* sd_free_list
    nextId,             \* NEXT_SLAB_ENTRY_ID
    (* what the application knows *)
    live,               \* objects it was given, as <<entry, slot>>
    handed,             \* how many objects it was given
    saved,              \* what it saw when the last checkpoint that committed began
    saving,             \* what it saw when the last checkpoint began
    dirty,              \* changed something since a checkpoint committed the bucket
    since,              \* the last library call that completed
    kept,               \* data of each entry when a checkpoint last handled it
    cpoints, crashes

file == <<mem, si, flags, vec, buffer>>
process == <<fm, pc, op, es, freeEntries, nextId>>
known == <<live, handed, saved, saving, dirty, since, kept>>
vars == <<file, process, known, cpoints, crashes>>

-----------------------------------------------------------------------------
(* Contents of pages *)

(* hdr is what the bytes of a bitmap would say, val the rest of the page *)
ZeroPage == [hdr |-> {}, val |-> NULL]

UninitEntry == [size |-> NULL, id |-> 0, bm |-> {}, cur |-> NULL, snap |-> NULL]

EmptyBucket == [has |-> FALSE, se |-> [e \in Entries |-> UninitEntry]]

(* A page read as a data page.  A page that held a bucket starts with      *)
(* sb_has_snapshot and sb_id, both zero in the copies that are freed.      *)
AsData(content) == IF "hdr" \in DOMAIN content THEN content ELSE ZeroPage

Bucket == mem[si.cur]
SE(e) == Bucket.se[e]

SLAB_ENTRY_IS_INIT(se) == se.size # NULL \/ se.cur # NULL

(* SLAB_ENTRY_CBITMAP *)
Bitmap(e) == IF SE(e).size = "L" THEN SE(e).bm ELSE AsData(mem[SE(e).cur]).hdr

slab_entry_full(e) == Slots(SE(e).size) \subseteq Bitmap(e)

(* What an application finds in a container whose bucket is b *)
View(m, b) ==
    [e \in Entries |-> IF SLAB_ENTRY_IS_INIT(b.se[e])
                       THEN [size |-> b.se[e].size, bm |-> b.se[e].bm,
                             data |-> AsData(m[b.se[e].cur])]
                       ELSE NULL]

Down == {"down", "diedFault", "diedAssert", "diedIndex", "diedVector"}

InCpoint == {"cpEntry", "cpHas", "cpFlush", "cpClear"}

-----------------------------------------------------------------------------
(* container_init *)

NoOp == [e |-> NULL, size |-> NULL, i |-> 0, type |-> NULL]

Init ==
    /\ mem = [p \in Pages(MaxPages) |-> ZeroPage]
    /\ si = [cur |-> NULL, snap |-> NULL]
    /\ flags = FALSE
    /\ vec = <<>> /\ buffer = NULL
    /\ fm = EmptyHandler(0)
    /\ pc = "down"
    /\ op = NoOp
    /\ es = [s \in Sizes |-> NULL]
    /\ freeEntries = <<>>
    /\ nextId = 0
    /\ live = {} /\ handed = 0
    /\ saved = View(mem, EmptyBucket) /\ saving = View(mem, EmptyBucket)
    /\ dirty = FALSE /\ since = "none"
    /\ kept = [e \in Entries |-> NULL]
    /\ cpoints = 0 /\ crashes = 0

(* The pages of the container, the directory, the outer and the inner, in  *)
(* this order, and then the page of the bucket *)
MetaPages == 0 .. 3

MutReversedEntries == [i \in 1 .. NEntries |-> NEntries - i]
MutEntriesFromOne == [i \in 1 .. NEntries |-> i]

(* slab_dir_init puts the entries of the bucket on sd_free_list, in order *)
BucketEntries == [i \in 1 .. NEntries |-> i - 1]

container_init ==
    LET cont == fixed_mapper_alloc_page(fixed_mapper_init(0), "W")
        sd   == fixed_mapper_alloc_page(cont, "W")
        so   == fixed_mapper_alloc_page(sd, "W")
        inner == fixed_mapper_alloc_page(so, "W")
        sb   == AllocatedPage(inner)
    IN
    /\ pc = "down" /\ fm.stSize = 0
    /\ CanAlloc(cont) /\ CanAlloc(sd) /\ CanAlloc(so) /\ CanAlloc(inner)
    /\ fm' = fixed_mapper_alloc_page(inner, "W")
    /\ mem' = [mem EXCEPT ![sb] = EmptyBucket]
    /\ si' = [cur |-> sb, snap |-> sb]
    /\ freeEntries' = BucketEntries
    /\ buffer' = "own"
    /\ pc' = "run"
    /\ since' = "init"
    /\ UNCHANGED <<flags, vec, op, es, nextId, live, handed, saved, saving, dirty, kept,
                   cpoints, crashes>>

-----------------------------------------------------------------------------
(* Copy-on-write of a data page *)

(* Store to the data page of e: in place when the page is writable, after  *)
(* handle_memory_update and slab_entry_snapshot when it is not.            *)
Faults(e) == fm.prot[SE(e).cur] = "R"

SnapshotPage == AllocatedPage(fm)

slab_entry_snapshot(e) ==
    [mem EXCEPT ![SnapshotPage] = AsData(mem[SE(e).cur]),
                ![si.cur].se[e].snap = SnapshotPage]

handle_memory_update(e) ==
    /\ CanAlloc(fm) /\ ~AllocDies(fm)
    /\ fm' = page_allocator_mprotect_generic(fixed_mapper_alloc_page(fm, "W"),
                                             SE(e).cur, "W")
    /\ vec' = Append(vec, e)
    /\ buffer' = IF buffer = NULL THEN "own" ELSE buffer

(* m with content stored in the data page of e *)
StoreData(m, e, content) == [m EXCEPT ![SE(e).cur] = content]

(* What an application may store: an L object starts the page, so its      *)
(* bytes are also what a bitmap would be read from.                        *)
AppContent(e) ==
    [hdr : IF SE(e).size = "L" THEN {{}, Slots("S")} ELSE {Bitmap(e)}, val : Vals]

(* The application stores to an object; a fault comes first if need be. *)
AppWrite(e) ==
    /\ pc = "run"
    /\ \E slot \in Slots(SE(e).size) : <<e, slot>> \in live
    /\ \E content \in AppContent(e) :
        IF Faults(e)
        THEN /\ handle_memory_update(e)
             /\ mem' = StoreData(slab_entry_snapshot(e), e, content)
        ELSE /\ mem' = StoreData(mem, e, content)
             /\ UNCHANGED <<fm, vec, buffer>>
    /\ dirty' = TRUE
    /\ since' = "op"
    /\ UNCHANGED <<si, flags, pc, op, es, freeEntries, nextId, live, handed, saved,
                   saving, kept, cpoints, crashes>>

-----------------------------------------------------------------------------
(* slab_palloc *)

(* The bucket is copied once between two checkpoints; sb_has_snapshot is   *)
(* assigned what slab_bucket_snapshot returns.                             *)
slab_bucket_snapshot ==
    IF si.cur = si.snap
    THEN LET q == AllocatedPage(fm) IN
         /\ CanAlloc(fm) /\ ~AllocDies(fm)
         /\ fm' = fixed_mapper_alloc_page(fm, "W")
         /\ mem' = [mem EXCEPT ![q] = Bucket, ![si.cur].has = TRUE]
         /\ si' = [si EXCEPT !.snap = q]
    ELSE /\ mem' = [mem EXCEPT ![si.cur].has = FALSE]
         /\ UNCHANGED <<fm, si>>

MutInsertTail(size, e) ==
    IF es[size] = NULL THEN [es EXCEPT ![size] = e] ELSE es

(* STAILQ_INSERT_HEAD(&es->es_list, se, se_list) *)
InsertHead(size, e) == [es EXCEPT ![size] = e]

HeadHasRoom(size) == es[size] # NULL /\ ~slab_entry_full(es[size])

(* slab_palloc up to the test of SLAB_ENTRY_IS_INIT.  Bound: an allocation *)
(* that needs a second bucket is not taken.                                *)
slab_palloc(size) ==
    /\ pc = "run"
    /\ IF HeadHasRoom(size)
       THEN /\ op' = [NoOp EXCEPT !.e = es[size], !.size = size]
            /\ UNCHANGED <<es, freeEntries>>
       ELSE /\ freeEntries # <<>>
            /\ op' = [NoOp EXCEPT !.e = Head(freeEntries), !.size = size]
            /\ es' = InsertHead(size, Head(freeEntries))
            /\ freeEntries' = Tail(freeEntries)
    /\ slab_bucket_snapshot
    /\ pc' = "pallocInit"
    /\ dirty' = TRUE
    /\ UNCHANGED <<flags, vec, buffer, nextId, live, handed, saved, saving, since, kept,
                   cpoints, crashes>>

slab_entry_init ==
    /\ pc = "pallocInit"
    /\ IF SLAB_ENTRY_IS_INIT(SE(op.e))
       THEN UNCHANGED <<fm, mem, nextId>>
       ELSE /\ CanAlloc(fm) /\ ~AllocDies(fm)
            /\ fm' = fixed_mapper_alloc_page(fm, "R")
            /\ mem' = [mem EXCEPT ![si.cur].se[op.e] =
                          [@ EXCEPT !.cur = AllocatedPage(fm), !.snap = AllocatedPage(fm),
                                    !.size = op.size, !.id = nextId]]
            /\ nextId' = nextId + 1
    /\ pc' = "pallocMem"
    /\ UNCHANGED <<si, flags, vec, buffer, op, es, freeEntries, known, cpoints, crashes>>

MutFirstBit(e) == IF Slots(SE(e).size) \subseteq Bitmap(e) THEN NULL ELSE 0

(* bit_ffc: the first clear bit, or -1 *)
bit_ffc(e) ==
    LET clear == Slots(SE(e).size) \ Bitmap(e)
    IN  IF clear = {} THEN NULL
        ELSE CHOOSE i \in clear : \A j \in clear : i =< j

(* slab_entry_alloc_mem and the return from slab_palloc.  The insertion of *)
(* an entry that has become full at the tail of the list it is on already  *)
(* relinks the list and leaves its first entry, all that is ever read.     *)
slab_entry_alloc_mem ==
    LET e == op.e
        idx == bit_ffc(e)
        data == AsData(mem[SE(e).cur])
        marked == [data EXCEPT !.hdr = @ \cup {idx}]
    IN
    /\ pc = "pallocMem"
    /\ \/ /\ idx = NULL
          /\ UNCHANGED <<fm, mem, vec, buffer, live, handed>>
       \/ /\ idx # NULL
          /\ live' = live \cup {<<e, idx>>}
          /\ handed' = handed + 1
          /\ \/ /\ SE(e).size = "L"
                /\ mem' = [mem EXCEPT ![si.cur].se[e].bm = @ \cup {idx}]
                /\ UNCHANGED <<fm, vec, buffer>>
             \/ /\ SE(e).size = "S" /\ ~Faults(e)
                /\ mem' = StoreData(mem, e, marked)
                /\ UNCHANGED <<fm, vec, buffer>>
             \/ /\ SE(e).size = "S" /\ Faults(e)
                /\ handle_memory_update(e)
                /\ mem' = StoreData(slab_entry_snapshot(e), e, marked)
    /\ pc' = "run"
    /\ op' = NoOp
    /\ since' = "op"
    /\ UNCHANGED <<si, flags, es, freeEntries, nextId, saved, saving, dirty, kept, cpoints,
                   crashes>>

-----------------------------------------------------------------------------
(* container_cpoint, in the steps a crash can separate *)

(* atomic_set_flag *)
container_cpoint ==
    /\ pc = "run"
    /\ cpoints < MaxCpoints
    /\ cpoints' = cpoints + 1
    /\ flags' = TRUE
    /\ op' = [NoOp EXCEPT !.type = "REGULAR"]
    /\ pc' = "cpEntry"
    /\ saving' = View(mem, Bucket)
    /\ UNCHANGED <<mem, si, vec, buffer, fm, es, freeEntries, nextId, live, handed, saved,
                   dirty, since, kept, crashes>>

MutNoFree(se) == fm
MutFreeCurrent(se) ==
    IF se.cur # se.snap THEN fixed_mapper_freepages(fm, se.cur) ELSE fm

(* page_allocator_freepages(cid, se->se_data.snapshot.maddr) *)
FreeSnapshot(se) ==
    IF se.cur # se.snap THEN fixed_mapper_freepages(fm, se.snap) ELSE fm

MutStayWritable(h, p) == h

(* A regular checkpoint makes the data page read-only again. *)
ProtectData(h, p) ==
    IF op.type = "REGULAR" THEN page_allocator_mprotect_generic(h, p, "R") ELSE h

(* One turn of the loop of slab_bucket_cpoint *)
slab_bucket_cpoint ==
    LET e == op.i
        se == SE(e)
    IN
    /\ pc = "cpEntry" /\ Bucket.has /\ op.i < NEntries
    /\ IF SLAB_ENTRY_IS_INIT(se)
       THEN /\ se.cur # se.snap => ~FreeDies(fm, se.snap)
            /\ mem' = [mem EXCEPT ![si.cur].se[e].snap = se.cur]
            /\ fm' = ProtectData(FreeSnapshot(se), se.cur)
            /\ kept' = [kept EXCEPT ![e] = AsData(mem[se.cur])]
       ELSE UNCHANGED <<mem, fm, kept>>
    /\ op' = [op EXCEPT !.i = @ + 1]
    /\ UNCHANGED <<si, flags, vec, buffer, pc, es, freeEntries, nextId, live, handed, saved,
                   saving, dirty, since, cpoints, crashes>>

MutKeepSnapshot == si

(* atomic_set(&si->si_snapshot[i].laddr, si->si_current[i].laddr) *)
CommittedBucket == [si EXCEPT !.snap = si.cur]

(* slab_inner_cpoint when the bucket has a snapshot: si_snapshot is set to *)
(* si_current and the page it named is freed, whatever page it is.         *)
slab_inner_cpoint ==
    /\ pc = "cpEntry" /\ Bucket.has /\ op.i = NEntries
    /\ ~FreeDies(fm, si.snap)
    /\ si' = CommittedBucket
    /\ fm' = fixed_mapper_freepages(fm, si.snap)
    /\ pc' = "cpHas"
    /\ UNCHANGED <<mem, flags, vec, buffer, op, es, freeEntries, nextId, known, cpoints,
                   crashes>>

(* sb->sb_has_snapshot = 0 *)
ClearHasSnapshot ==
    /\ pc = "cpHas"
    /\ mem' = [mem EXCEPT ![si.cur].has = FALSE]
    /\ pc' = "cpFlush"
    /\ dirty' = FALSE
    /\ UNCHANGED <<si, flags, vec, buffer, fm, op, es, freeEntries, nextId, live, handed,
                   saved, saving, since, kept, cpoints, crashes>>

(* slab_inner_cpoint when the bucket has none *)
SkipBucket ==
    /\ pc = "cpEntry" /\ ~Bucket.has
    /\ pc' = "cpFlush"
    /\ UNCHANGED <<file, fm, op, es, freeEntries, nextId, known, cpoints, crashes>>

(* The end of slab_cpoint: every entry of sd_vector is read, and its       *)
(* buffer is freed.  What that does with a buffer of another process is    *)
(* undefined: the process goes on here, or ends in DiesFlushing.           *)
slab_cpoint ==
    /\ pc = "cpFlush"
    /\ vec' = <<>>
    /\ buffer' = NULL
    /\ pc' = "cpClear"
    /\ UNCHANGED <<mem, si, flags, fm, op, es, freeEntries, nextId, known, cpoints, crashes>>

(* slab_mprotect_datapgs(cid, PROT_READ) *)
slab_mprotect_datapgs(h, b) ==
    [h EXCEPT !.prot = [p \in DOMAIN h.prot |->
        IF \E e \in Entries : SLAB_ENTRY_IS_INIT(b.se[e]) /\ b.se[e].cur = p
        THEN "R" ELSE h.prot[p]]]

(* atomic_clear_flag and the return from container_cpoint, or from         *)
(* container_restore when the checkpoint was part of a restore             *)
CpointReturns ==
    /\ pc = "cpClear"
    /\ flags' = FALSE
    /\ pc' = "run"
    /\ op' = NoOp
    /\ saved' = IF dirty THEN saved ELSE saving
    /\ fm' = IF op.type = "RESTORE" THEN slab_mprotect_datapgs(fm, Bucket) ELSE fm
    /\ since' = IF op.type = "RESTORE" THEN "rollForward" ELSE "cpoint"
    /\ UNCHANGED <<mem, si, vec, buffer, es, freeEntries, nextId, live, handed, saving,
                   dirty, kept, cpoints, crashes>>

-----------------------------------------------------------------------------
(* The death of the process *)

(* The handler, the lists and the counters of the process are gone, and    *)
(* the file has stSize pages.                                              *)
Dead(where, stSize) ==
    /\ crashes < MaxCrashes
    /\ crashes' = crashes + 1
    /\ pc' = where
    /\ fm' = EmptyHandler(stSize)
    /\ op' = NoOp
    /\ es' = [s \in Sizes |-> NULL]
    /\ freeEntries' = <<>>
    /\ nextId' = 0
    /\ live' = {} /\ handed' = 0
    /\ UNCHANGED <<flags, vec, buffer, saved, saving, dirty, kept, cpoints>>

Crash ==
    /\ pc \notin Down
    /\ Dead("down", fm.stSize)
    /\ UNCHANGED <<mem, si, since>>

(* A page is needed (by slab_bucket_snapshot, slab_entry_init or           *)
(* slab_entry_snapshot) and the mapper dies, having extended the file.     *)
NeedsPage ==
    \/ pc = "run" /\ si.cur = si.snap
    \/ pc = "run" /\ \E obj \in live : Faults(obj[1])
    \/ pc = "pallocInit" /\ ~SLAB_ENTRY_IS_INIT(SE(op.e))
    \/ pc = "pallocMem" /\ bit_ffc(op.e) # NULL /\ SE(op.e).size = "S" /\ Faults(op.e)

DiesAllocating ==
    /\ NeedsPage
    /\ CanAlloc(fm) /\ AllocDies(fm)
    /\ Dead("diedIndex", posix_fallocate(fm, 2 * fm.fileSize))
    /\ UNCHANGED <<mem, si, since>>

(* A checkpoint frees a page and the mapper has no index.  The offset of   *)
(* the snapshot, which is all a restore reads, has been set by then.       *)
DiesFreeing ==
    /\ pc = "cpEntry" /\ Bucket.has
    /\ \/ /\ op.i < NEntries /\ SLAB_ENTRY_IS_INIT(SE(op.i))
          /\ SE(op.i).cur # SE(op.i).snap /\ FreeDies(fm, SE(op.i).snap)
          /\ mem' = [mem EXCEPT ![si.cur].se[op.i].snap = SE(op.i).cur]
          /\ UNCHANGED si
       \/ /\ op.i = NEntries /\ FreeDies(fm, si.snap)
          /\ si' = CommittedBucket
          /\ UNCHANGED mem
    /\ Dead("diedIndex", fm.stSize)
    /\ UNCHANGED since

(* slab_cpoint reads and frees a buffer that another process allocated. *)
DiesFlushing ==
    /\ pc = "cpFlush"
    /\ buffer = "lost"
    /\ Dead("diedVector", fm.stSize)
    /\ UNCHANGED <<mem, si, since>>

-----------------------------------------------------------------------------
(* container_restore *)

(* The first entries of the es_lists after index_slab_entry has taken the  *)
(* entries in order: an entry with room goes in front, a full one behind.  *)
index_slab_entry(m, b) ==
    LET Full(e) == IF b.se[e].size = "L"
                   THEN Slots("L") \subseteq b.se[e].bm
                   ELSE Slots("S") \subseteq AsData(m[b.se[e].cur]).hdr
        Of(s) == {e \in Entries : b.se[e].size = s}
        Room(s) == {e \in Of(s) : ~Full(e)}
    IN  [s \in Sizes |->
            IF Of(s) = {} THEN NULL
            ELSE IF Room(s) # {} THEN CHOOSE e \in Room(s) : \A f \in Room(s) : f =< e
            ELSE CHOOSE e \in Of(s) : \A f \in Of(s) : e =< f]

(* sd_free_list: the entries that are not initialised, each put at its     *)
(* tail in turn.  CPOINT_INCOMPLETE maps the bucket once for each path of  *)
(* current and snapshot references to it, and puts them there again: that  *)
(* leaves the list the same, except that a single entry is then linked to  *)
(* itself, which no process lives to see: it dies in slab_entry_init of    *)
(* the first entry it takes from the list.                                 *)
FreeEntriesOf(b) ==
    LET after[i \in 0 .. NEntries] ==
            IF i = 0 THEN <<>>
            ELSE IF SLAB_ENTRY_IS_INIT(b.se[i - 1]) THEN after[i - 1]
            ELSE Append(after[i - 1], i - 1)
    IN  after[NEntries]

(* The objects whose bit is set *)
ObjectsOf(m, b) ==
    {o \in Entries \X (Slots("L") \cup Slots("S")) :
        /\ SLAB_ENTRY_IS_INIT(b.se[o[1]])
        /\ o[2] \in (IF b.se[o[1]].size = "L" THEN b.se[o[1]].bm
                     ELSE AsData(m[b.se[o[1]].cur]).hdr \cap Slots("S"))}

(* The file is mapped with DEFAULT_MAPPING_PROT; the first store, to       *)
(* cont->pg_allocator, faults when that is read-only, and the handler      *)
(* finds no slab entry for the page of the container.                      *)
RestoreFaults ==
    /\ pc \in Down /\ fm.stSize > 0
    /\ DefaultProt = "R"
    /\ Dead("diedFault", fm.stSize)
    /\ UNCHANGED <<mem, si, since>>

(* What slab_map and its callees leave in the process for bucket b *)
Mapped(b) ==
    /\ es' = index_slab_entry(mem, b)
    /\ freeEntries' = FreeEntriesOf(b)
    /\ live' = ObjectsOf(mem, b)
    /\ handed' = Cardinality(ObjectsOf(mem, b))
    /\ buffer' = IF buffer = NULL THEN NULL ELSE "lost"
    /\ kept' = [e \in Entries |-> IF SLAB_ENTRY_IS_INIT(b.se[e])
                                  THEN AsData(mem[b.se[e].snap]) ELSE NULL]

MutIncompleteRefs == [cur |-> si.snap, snap |-> si.snap]

(* slab_inner_map maps si_current and si_snapshot, each from its own laddr *)
IncompleteRefs == si

(* CPOINT_INCOMPLETE: both buckets are mapped, and container_cpoint_aux    *)
(* runs the checkpoint again, from its first step.  (The se_ptr of every   *)
(* entry is mapped too: laddr 0 becomes the address of page 0, for current *)
(* and snapshot alike, so that the checkpoint finds nothing to free.)      *)
RestoreIncomplete ==
    /\ pc \in Down /\ fm.stSize > 0
    /\ DefaultProt = "W"
    /\ flags
    /\ fm' = fixed_mapper_init(fm.stSize)
    /\ si' = IncompleteRefs
    /\ Mapped(mem[IncompleteRefs.cur])
    /\ op' = [NoOp EXCEPT !.type = "RESTORE"]
    /\ pc' = "cpEntry"
    /\ UNCHANGED <<mem, flags, vec, nextId, saved, saving, dirty, since, cpoints, crashes>>

(* CPOINT_COMPLETE: the bucket of the last checkpoint becomes the current  *)
(* one, after slab_bucket_map has asserted that no entry has a snapshot.   *)
SnapshotBucket == mem[si.snap]

slab_bucket_map_asserts ==
    \A e \in Entries : SLAB_ENTRY_IS_INIT(SnapshotBucket.se[e]) =>
        SnapshotBucket.se[e].cur = SnapshotBucket.se[e].snap

RestoreAsserts ==
    /\ pc \in Down /\ fm.stSize > 0
    /\ DefaultProt = "W"
    /\ ~flags /\ ~slab_bucket_map_asserts
    /\ Dead("diedAssert", fm.stSize)
    /\ UNCHANGED <<mem, si, since>>

RestoreComplete ==
    /\ pc \in Down /\ fm.stSize > 0
    /\ DefaultProt = "W"
    /\ ~flags /\ slab_bucket_map_asserts
    /\ si' = [si EXCEPT !.cur = si.snap]
    /\ fm' = slab_mprotect_datapgs(fixed_mapper_init(fm.stSize), SnapshotBucket)
    /\ Mapped(SnapshotBucket)
    /\ pc' = "run"
    /\ since' = "restore"
    /\ UNCHANGED <<mem, flags, vec, op, nextId, saved, saving, dirty, cpoints, crashes>>

-----------------------------------------------------------------------------
Palloc == \E size \in Sizes : slab_palloc(size)
Write == \E e \in Entries : AppWrite(e)
Cpoint ==
    \/ container_cpoint \/ slab_bucket_cpoint \/ slab_inner_cpoint
    \/ ClearHasSnapshot \/ SkipBucket \/ slab_cpoint \/ CpointReturns
Dies == DiesAllocating \/ DiesFreeing \/ DiesFlushing
Restore == RestoreFaults \/ RestoreIncomplete \/ RestoreAsserts \/ RestoreComplete

Next ==
    \/ container_init
    \/ Palloc \/ slab_entry_init \/ slab_entry_alloc_mem
    \/ Write
    \/ Cpoint
    \/ Crash \/ Dies
    \/ Restore

Spec == Init /\ [][Next]_vars

-----------------------------------------------------------------------------
(* Properties *)

Page == Pages(MaxPages)
DataPage == [hdr : SUBSET Slots("S"), val : Vals \cup {NULL}]
EntryType == [size : Sizes \cup {NULL}, id : Nat, bm : SUBSET Slots("L"),
              cur : Page \cup {NULL}, snap : Page \cup {NULL}]
BucketType(b) == b.has \in BOOLEAN /\ \A e \in Entries : b.se[e] \in EntryType

(* The type invariant: the two bucket references name pages that hold      *)
(* buckets, and an initialised entry names data pages.                     *)
TypeOK ==
    /\ pc \in Down \cup InCpoint \cup {"run", "pallocInit", "pallocMem"}
    /\ flags \in BOOLEAN /\ buffer \in {NULL, "own", "lost"} /\ dirty \in BOOLEAN
    /\ \A i \in DOMAIN vec : vec[i] \in Entries
    /\ \A i \in DOMAIN freeEntries : freeEntries[i] \in Entries
    /\ es \in [Sizes -> Entries \cup {NULL}]
    /\ live \subseteq Entries \X (Slots("L") \cup Slots("S"))
    /\ si.cur # NULL =>
        /\ BucketType(mem[si.cur]) /\ BucketType(mem[si.snap])
        /\ \A e \in Entries : SLAB_ENTRY_IS_INIT(SE(e)) =>
                /\ AsData(mem[SE(e).cur]) \in DataPage
                /\ AsData(mem[SE(e).snap]) \in DataPage

InitEntries(b) == {e \in Entries : SLAB_ENTRY_IS_INIT(b.se[e])}

(* the pages that the container refers to while the application runs *)
PagesOf(b) ==
    {b.se[e].cur : e \in InitEntries(b)} \cup {b.se[e].snap : e \in InitEntries(b)}
Referenced ==
    MetaPages \cup {si.cur, si.snap} \cup PagesOf(mem[si.cur])
        \cup (IF pc \in InCpoint THEN {} ELSE PagesOf(mem[si.snap]))

(* In the process that created the container every page is referred to by  *)
(* it or available, never both: what palloc and the fault handler take, a  *)
(* checkpoint gives back once, and it gives back nothing that the current  *)
(* bucket or (between checkpoints) the copy a restore would use names.     *)
PagesAccounted ==
    pc \notin Down /\ Tracks(fm) =>
        PagesIn(fm.freeList) = Pages(fm.fileSize) \ Referenced

(* The half of PagesAccounted that survives a growth of the file (a growth *)
(* loses a page when it makes a data page fault a second time): nothing    *)
(* that the container refers to is ever available to an allocation.        *)
NoLivePageAvailable ==
    pc \notin Down => PagesIn(fm.freeList) \cap Referenced = {}

(* No page has two roles: the current and snapshot pages of the entries,   *)
(* the two buckets and the fixed metadata pages are all different pages.   *)
NoPageShared ==
    si.cur # NULL =>
        /\ \A e, f \in InitEntries(Bucket) : e # f =>
              {SE(e).cur, SE(e).snap} \cap {SE(f).cur, SE(f).snap} = {}
        /\ PagesOf(Bucket) \cap (MetaPages \cup {si.cur, si.snap}) = {}

(* Copy-on-write: whatever is stored after a checkpoint has handled an     *)
(* entry, its snapshot page keeps the data of that checkpoint until the    *)
(* next one handles it.                                                    *)
SnapshotIntact ==
    pc \notin Down => \A e \in Entries : kept[e] # NULL => AsData(mem[SE(e).snap]) = kept[e]

(* slabInt.h of es_list: "If the head is full, then all others             *)
(* slab_entry(s) are also full"; slab_palloc looks at the head only, so    *)
(* room in another entry would never be used.                              *)
HeadFullMeansAllFull ==
    pc = "run" => \A s \in Sizes :
        es[s] # NULL /\ slab_entry_full(es[s]) =>
            \A e \in Entries : SE(e).size = s => slab_entry_full(e)

(* The identifier given to an entry when it is initialised is its position *)
(* in the bucket, which is where get_slab_entry_by_id looks for it.        *)
IdIsPosition ==
    si.cur # NULL => \A e \in InitEntries(Bucket) : SE(e).id = e

(* No object is given to the application twice, whatever a recycled page   *)
(* left in a bitmap, faults and checkpoints included.                      *)
NoObjectTwice == Cardinality(live) = handed

(* While nothing has changed since a checkpoint committed the bucket, the  *)
(* copy that a restore would take passes its assertion and holds what the  *)
(* application saw at that checkpoint.                                     *)
CleanContainerRestorable ==
    si.cur # NULL /\ ~dirty /\ ~flags =>
        /\ slab_bucket_map_asserts
        /\ View(mem, SnapshotBucket) = saved

(* From the store of the flag until it is cleared the current bucket leads *)
(* to what the application saw when it called container_cpoint: between    *)
(* any two stores of the checkpoint, in the file of a process that died    *)
(* there, and in every process that takes it up again and dies in turn.    *)
(* It is still so when a restore has carried the checkpoint to its end.    *)
RollForwardIntact ==
    flags \/ (pc = "run" /\ since = "rollForward") => View(mem, Bucket) = saving

-----------------------------------------------------------------------------
(* The inductive invariant of the proofs in ContainerProofs *)

BucketRec == [has : BOOLEAN, se : [Entries -> EntryType]]

(* the entry at position e, initialised or not *)
EntryOK(se, e) ==
    \/ se.size = NULL /\ se.cur = NULL /\ se.snap = NULL
    \/ se.size \in Sizes /\ se.cur # NULL /\ se.snap # NULL /\ se.id = e

(* b is a bucket whose entries have their data in pages of S, each in its  *)
(* own.                                                                    *)
GoodBucket(b, S) ==
    /\ b \in BucketRec
    /\ \A e \in Entries : EntryOK(b.se[e], e)
    /\ PagesOf(b) \subseteq S
    /\ \A e, f \in InitEntries(b) : e # f =>
            {b.se[e].cur, b.se[e].snap} \cap {b.se[f].cur, b.se[f].snap} = {}

(* the pages of the file that are not metadata *)
DataPages == Pages(fm.stSize) \ (MetaPages \cup {si.cur, si.snap})

FileInv ==
    /\ mem \in [Page -> DataPage \cup BucketRec]
    /\ fm.stSize \in Nat /\ fm.stSize =< MaxPages
    /\ si \in [cur : Pages(fm.stSize) \ MetaPages, snap : Pages(fm.stSize) \ MetaPages]
    /\ MetaPages \subseteq Pages(fm.stSize)
    /\ GoodBucket(Bucket, DataPages) /\ GoodBucket(SnapshotBucket, DataPages)

(* While a checkpoint handles the entries the copy of the bucket may name  *)
(* pages that it has freed.                                                *)
Held ==
    MetaPages \cup {si.cur, si.snap} \cup PagesOf(Bucket)
        \cup (IF pc = "cpEntry" /\ Bucket.has THEN {} ELSE PagesOf(SnapshotBucket))

PagesInv ==
    /\ HandlerInv(fm, InUse(fm)) /\ Held \subseteq InUse(fm)
    /\ Tracks(fm) /\ Bucket.has /\ pc # "cpHas" => si.cur # si.snap

(* The process that created the bucket initialises its entries in order.   *)
EntriesInOrder ==
    LET first == IF pc = "pallocInit" /\ op.e = nextId THEN nextId + 1 ELSE nextId IN
    /\ nextId \in 0 .. NEntries /\ first =< NEntries
    /\ \A e \in Entries : e \in InitEntries(Bucket) <=> e < nextId
    /\ Len(freeEntries) = NEntries - first
    /\ \A i \in 1 .. NEntries - first : freeEntries[i] = first + i - 1
    /\ pc = "pallocInit" => op.e =< nextId

CallInv ==
    /\ pc \in {"pallocInit", "pallocMem"} =>
            si.cur # si.snap /\ op.e \in Entries /\ op.size \in Sizes
    /\ pc = "pallocMem" => op.e \in InitEntries(Bucket)
    /\ pc \in InCpoint => op.i \in 0 .. NEntries
    /\ \A s \in Sizes : es[s] # NULL =>
            \/ es[s] \in InitEntries(Bucket)
            \/ pc = "pallocInit" /\ es[s] = op.e

LiveInv ==
    /\ \A o \in live : o[1] \in InitEntries(Bucket) /\ o[2] \in Bitmap(o[1])
    /\ IsFiniteSet(live) /\ handed = Cardinality(live)

ProcessType ==
    /\ pc \in Down \cup InCpoint \cup {"run", "pallocInit", "pallocMem"}
    /\ flags \in BOOLEAN /\ buffer \in {NULL, "own", "lost"} /\ dirty \in BOOLEAN
    /\ vec \in Seq(Entries) /\ freeEntries \in Seq(Entries)
    /\ es \in [Sizes -> Entries \cup {NULL}]
    /\ live \subseteq Entries \X (Slots("L") \cup Slots("S"))

IndInv ==
    /\ ProcessType
    /\ pc \in Down => fm = EmptyHandler(fm.stSize) /\ live = {} /\ handed = 0
    /\ IF si.cur = NULL
       THEN /\ pc = "down" /\ fm.stSize = 0
            /\ mem = [p \in Page |-> ZeroPage] /\ si = [cur |-> NULL, snap |-> NULL]
            /\ es = [s \in Sizes |-> NULL] /\ nextId = 0
       ELSE /\ FileInv
            /\ pc \notin Down => PagesInv /\ CallInv /\ LiveInv
            /\ pc \notin Down /\ Tracks(fm) => EntriesInOrder

-----------------------------------------------------------------------------
(* What the proofs add to it, each part for the properties it is named for *)

AllCommitted(b) == \A e \in InitEntries(b) : b.se[e].cur = b.se[e].snap

(* RollForwardIntact: a checkpoint changes nothing of what it saves, in *)
(* the process that began it and in the one that carries it on.            *)
CpointInv ==
    /\ pc \in InCpoint => flags
    /\ flags => pc \in InCpoint \cup Down /\ si.cur # NULL /\ View(mem, Bucket) = saving
    /\ pc = "cpEntry" /\ Bucket.has =>
            \A e \in InitEntries(Bucket) : e < op.i => SE(e).cur = SE(e).snap
    /\ pc = "cpHas" => si.cur = si.snap /\ AllCommitted(Bucket)
    /\ pc = "run" /\ since = "rollForward" => View(mem, Bucket) = saving

(* CleanContainerRestorable: nothing changes a clean container but a call  *)
(* that makes it dirty.                                                    *)
CleanInv ==
    ~dirty => IF si.cur = NULL THEN saved = View(mem, EmptyBucket)
              ELSE /\ si.cur = si.snap /\ ~Bucket.has /\ AllCommitted(Bucket)
                   /\ pc \notin {"pallocInit", "pallocMem"}
                   /\ ~flags => View(mem, Bucket) = saved

(* the bitmap of entry e of bucket b, with pages m *)
BitmapOf(m, b, e) == IF b.se[e].size = "L" THEN b.se[e].bm ELSE AsData(m[b.se[e].cur]).hdr

HasRoom(m, b, e) == e \in InitEntries(b) /\ ~(Slots(b.se[e].size) \subseteq BitmapOf(m, b, e))

OneRoom(m, b) ==
    \A e, f \in Entries :
        HasRoom(m, b, e) /\ HasRoom(m, b, f) /\ b.se[e].size = b.se[f].size => e = f

(* HeadFullMeansAllFull: of each size at most one entry has room, in the   *)
(* bucket and in the copy that a restore may take for it, and a running    *)
(* process has that one first in its list.                                 *)
FileRoom ==
    /\ \A e \in InitEntries(SnapshotBucket) :
            /\ e \in InitEntries(Bucket)
            /\ SE(e).size = SnapshotBucket.se[e].size /\ SE(e).cur = SnapshotBucket.se[e].cur
    /\ OneRoom(mem, Bucket) /\ OneRoom(mem, SnapshotBucket)
ListRoom ==
    /\ \A e \in Entries : HasRoom(mem, Bucket, e) => e = es[SE(e).size]
    /\ pc = "pallocInit" => es[op.size] = op.e
RoomInv == (si.cur # NULL => FileRoom) /\ (pc \notin Down => ListRoom)

(* The file has the length it was created with.  A growth maps it with the *)
(* protections of the index, where every data page is read-only, so that a *)
(* page that was copied already is copied again and the copy that was kept *)
(* is neither named nor freed.                                             *)
NotGrown == Tracks(fm) => fm.fileSize = InitPages

(* The process that created the container: a data page is read-only only   *)
(* while it is its own snapshot, and then after a checkpoint always.       *)
CreatorInv ==
    /\ \A e \in InitEntries(Bucket) : fm.prot[SE(e).cur] = "R" => SE(e).cur = SE(e).snap
    /\ \A e \in InitEntries(Bucket) :
            kept[e] # NULL /\ SE(e).cur = SE(e).snap => fm.prot[SE(e).cur] = "R"
    /\ InUse(fm) \subseteq MetaPages \cup {si.cur, si.snap} \cup PagesOf(Bucket)
    /\ pc \in InCpoint => op.type = "REGULAR"

(* A process that restored it has no free page and maps every data page    *)
(* read-only before the application runs.                                  *)
RestorerInv ==
    \/ pc \in InCpoint /\ op.type = "RESTORE"
    \/ \A e \in InitEntries(Bucket) : fm.prot[SE(e).cur] = "R"

KeptData ==
    \A e \in Entries : kept[e] # NULL =>
        e \in InitEntries(Bucket) /\ AsData(mem[SE(e).snap]) = kept[e]

(* SnapshotIntact and PagesAccounted, until the file grows *)
KeptInv ==
    /\ DOMAIN op = DOMAIN NoOp /\ DOMAIN kept = Entries
    /\ si.cur = NULL => \A e \in Entries : kept[e] = NULL
    /\ pc \notin Down /\ Tracks(fm) => InitPages =< fm.fileSize
    /\ pc \notin Down /\ NotGrown =>
            KeptData /\ (IF Tracks(fm) THEN CreatorInv ELSE RestorerInv)

-----------------------------------------------------------------------------
(* Statements of the repository that the code does not keep *)

(* tests/test_full_restore.c calls container_restore and prints "restore   *)
(* finished": a restore does not die on its own mapping.                   *)
RestoreReturns == pc # "diedFault"

(* tests/test_crash_recovery.c, after a checkpoint: "the changes made from *)
(* this point on should not be restore[d]".                                *)
RollbackToCheckpoint ==
    pc = "run" /\ since = "restore" => View(mem, Bucket) = saved

(* restore.c: assert(... && "Inconsistent state on slab_entry data"). *)
RestoreAssertionHolds == pc # "diedAssert"

(* slab.h of slab_cpoint: "checkpoint/commit changes in current            *)
(* transaction": when the call returns nothing is left uncommitted.        *)
CheckpointCommits ==
    pc = "run" /\ since = "cpoint" =>
        si.snap = si.cur /\ \A e \in InitEntries(Bucket) : SE(e).snap = SE(e).cur

(* macros.h: CPOINT_RESTORE is the "copint as part of the restore": the    *)
(* restore of an interrupted checkpoint can free the pages it replaces.    *)
RestoreCanCheckpoint == ~(flags /\ pc = "diedIndex")
=============================================================================
