------------------------------ MODULE Closure ------------------------------
(***************************************************************************)
(* The closure of a container (closure.c) and the table of its persistent  *)
(* pointers (slab.c, PMLIB_CLOSURE=1 and PMLIB_FIX_PTRS=1).                *)
(*                                                                         *)
(* A program announces its allocations with mallocat and the places where  *)
(* it keeps pointers with pointerat.  A checkpoint moves what the          *)
(* container points to into the container, follows the pointers of what it *)
(* moved, and redirects the pointers that stay behind.                     *)
(*                                                                         *)
(* Every object has one pointer, at its beginning, so that an object and   *)
(* the location of its pointer are one address.  Objects of the container  *)
(* are numbered in the order in which palloc gives them out: they are of   *)
(* one size below SLAB_LARGE_ALLOC, their bitmap is in the data page, and  *)
(* every palloc stores to that page.  The copies of data pages are the     *)
(* subject of Container; here a page is clean (read-only) or dirty.        *)
(***************************************************************************)
EXTENDS Integers, Sequences, FiniteSets, SequencesExt

CONSTANTS
    Vol,                \* addresses that malloc returns
    Globals,            \* pointer variables outside of every allocation
    NULL,
    PageCap,            \* objects to a data page
    MaxPallocs,         \* bound on the objects the program allocates with palloc
    MaxMallocs,         \* bound on its calls of malloc
    MaxStores,          \* bound on the pointers it stores
    MaxCpoints          \* bound on the number of checkpoints

ASSUME ClosureAssumption ==
    /\ PageCap \in Nat \ {0}
    /\ {MaxPallocs, MaxMallocs, MaxStores, MaxCpoints} \subseteq Nat
    /\ IsFiniteSet(Vol) /\ Vol \cap Globals = {} /\ NULL \notin Vol \cup Globals
    /\ (Vol \cup Globals \cup {NULL}) \cap Nat = {}
    /\ NULL \notin (Vol \cup {NULL}) \X Nat

(* A tree entry is moved once and an address has one tree entry. *)
MaxObjs == MaxPallocs + Cardinality(Vol)
Pers == 1 .. MaxObjs
Entries == 1 .. (MaxObjs + PageCap - 1) \div PageCap
Loc == Vol \cup Globals \cup Pers

(* the slab entry whose data page holds object p *)
EntryOf(p) == (p - 1) \div PageCap + 1

VARIABLES
    st,                 \* memory, slab and closure state, see TypeOK
    mallocat,           \* keys of ht_mallocat
    pc,                 \* the function of compute_closure that runs next
    at,                 \* its loop variables: position, and position within
    within,             \*   the pointers of an entry
    pallocs,            \* calls made so far
    mallocs,
    stores,
    cpoints,
    known,              \* history: locations that were registered
    begin               \* history: what the current checkpoint started from

vars == <<st, mallocat, pc, at, within, pallocs, mallocs, stores, cpoints, known, begin>>

Live(s) == s.heap \cup (1 .. s.npers)

(* who the object at an address is: a global is itself, NULL and the       *)
(* address of freed memory are nobody                                      *)
Who(s, v) == IF v \in Live(s) THEN s.ident[v] ELSE IF v \in Globals THEN v ELSE NULL

(* the pointers at the locations of L, as pairs of objects *)
Edges(s, L) == {<<Who(s, l), Who(s, s.val[l])>> : l \in L}

NoPtrPage == [idx |-> 0, cm |-> 0, cl |-> 0, sm |-> 0, sl |-> 0]
Record == [loc : Pers, val : Pers \cup {NULL}]

TypeOK ==
    /\ st.val \in [Loc -> Loc \cup {NULL}]
    /\ st.heap \subseteq Vol                          \* malloc'ed addresses
    /\ DOMAIN st.tree \subseteq Vol                   \* mallocat_tree
    /\ \A a \in DOMAIN st.tree : st.tree[a].paddr \in {0} \cup Pers
                                 /\ st.tree[a].ptrs \in Seq({a})
    /\ st.pvec \in Seq(Pers)                          \* pptr_vec
    /\ st.pat \subseteq Loc                           \* keys of ht_pointerat
    /\ st.npers \in 0 .. MaxObjs                      \* objects handed out
    /\ st.copied \in BOOLEAN                          \* the bucket has a copy
    /\ st.hasSnap \in BOOLEAN                         \* sb_has_snapshot
    /\ st.writable \subseteq Entries                  \* entries with a dirty page
    /\ st.dirty \in Seq(Entries)                      \* sd_vector
    /\ st.tabs \in Seq(Seq(Record))                   \* contents of pointer pages
    /\ st.ptr \in [Entries -> [idx : Nat, cm : 0 .. Len(st.tabs), cl : 0 .. Len(st.tabs),
                                          sm : 0 .. Len(st.tabs), sl : 0 .. Len(st.tabs)]]
    /\ st.freed \subseteq 1 .. Len(st.tabs)           \* pointer pages given back
    /\ st.ident \in [Vol \cup Pers -> ((Vol \cup {NULL}) \X Nat) \cup {NULL}] \* history
    /\ pc \in {"app", "move", "dirty", "fix", "slab", "dead"}
    /\ mallocat \subseteq Vol /\ known \subseteq Loc

Init ==
    /\ st = [val |-> [l \in Loc |-> NULL], heap |-> {}, tree |-> <<>>, pvec |-> <<>>,
             pat |-> {}, npers |-> 0, copied |-> FALSE, hasSnap |-> FALSE,
             writable |-> {}, dirty |-> <<>>, tabs |-> <<>>,
             ptr |-> [e \in Entries |-> NoPtrPage], freed |-> {},
             ident |-> [l \in Vol \cup Pers |-> NULL]]
    /\ mallocat = {} /\ known = {}
    /\ pc = "app" /\ at = 0 /\ within = 0
    /\ pallocs = 0 /\ mallocs = 0 /\ stores = 0 /\ cpoints = 0
    /\ begin = [npers |-> 0, pat |-> {}, edges |-> {}, recorded |-> {}]

-----------------------------------------------------------------------------
(* Slab *)

(* A store to the data page of entry e.  In a clean page it faults, and    *)
(* slab_entry_snapshot notes the entry in sd_vector and gives an entry     *)
(* that has a committed pointer page a copy of it.  The number of pointers *)
(* becomes snapshot.idx, to which nothing but slab_entry_init assigns, and *)
(* current.laddr stays what it was.                                        *)
StoreTo(s, e) ==
    LET noted == [s EXCEPT !.writable = @ \cup {e}, !.dirty = Append(@, e)]
        page  == s.ptr[e].sm
    IN  IF e \in s.writable THEN s
        ELSE IF page = 0 THEN noted
        ELSE [noted EXCEPT !.tabs = Append(@, s.tabs[page]),
                           !.ptr[e].cm = Len(s.tabs) + 1,
                           !.ptr[e].idx = 0]

(* slab_palloc: copy of the bucket, whose flag is the result of            *)
(* slab_bucket_snapshot, and the bit of the object                         *)
slab_palloc(s) ==
    StoreTo([s EXCEPT !.hasSnap = ~s.copied, !.copied = TRUE, !.npers = @ + 1],
            EntryOf(s.npers + 1))

MutInsertInPlace(s, l) ==
    LET e == EntryOf(l)
        p == IF s.ptr[e].cm = 0 THEN Len(s.tabs) + 1 ELSE s.ptr[e].cm
        t == IF s.ptr[e].cm = 0 THEN Append(s.tabs, <<>>) ELSE s.tabs
    IN  [s EXCEPT !.tabs = [t EXCEPT ![p] = <<[loc |-> l, val |-> s.val[l]]>>],
                  !.ptr[e].cm = p,
                  !.ptr[e].cl = IF s.ptr[e].cm = 0 THEN p ELSE @,
                  !.ptr[e].idx = 1]

(* do_insert_pointer for a target that has an entry or is NULL: the first  *)
(* pointer of an entry gets it a page, each one is stored at the index     *)
slab_insert_pointer(s, l) ==
    LET e == EntryOf(l)
        p == IF s.ptr[e].cm = 0 THEN Len(s.tabs) + 1 ELSE s.ptr[e].cm
        t == IF s.ptr[e].cm = 0 THEN Append(s.tabs, <<>>) ELSE s.tabs
        i == s.ptr[e].idx + 1
        r == [loc |-> l, val |-> s.val[l]]
    IN  [s EXCEPT !.tabs = [t EXCEPT ![p] = IF i <= Len(@) THEN [@ EXCEPT ![i] = r]
                                            ELSE Append(@, r)],
                  !.ptr[e].cm = p,
                  !.ptr[e].cl = IF s.ptr[e].cm = 0 THEN p ELSE @,
                  !.ptr[e].idx = i]

(* slab_bucket_cpoint of one pointer page: the old one is freed, the       *)
(* snapshot gets the address and the offset of the current one             *)
PtrPageCpoint(q) == IF q.cm = 0 THEN q ELSE [q EXCEPT !.sl = q.cl, !.sm = q.cm]

MutFreesCurrentPage(s) ==
    {s.ptr[e].cm : e \in {x \in Entries : s.ptr[x].cm # 0 /\ s.ptr[x].sm # s.ptr[x].cm}} \ {0}

FreedPtrPages(s) ==
    {s.ptr[e].sm : e \in {x \in Entries : s.ptr[x].cm # 0 /\ s.ptr[x].sm # s.ptr[x].cm}} \ {0}

(* slab_cpoint: a bucket without the flag is passed over, sd_vector is     *)
(* emptied in any case                                                     *)
slab_cpoint(s) ==
    IF s.hasSnap
    THEN [s EXCEPT !.ptr = [e \in Entries |-> PtrPageCpoint(s.ptr[e])],
                   !.freed = @ \cup FreedPtrPages(s),
                   !.writable = {}, !.copied = FALSE, !.hasSnap = FALSE,
                   !.dirty = <<>>]
    ELSE [s EXCEPT !.dirty = <<>>]

(* do_fixptrs in this process: what it would store at location l, where l  *)
(* has at least one of the pointers of its entry                           *)
Recorded(s, e) == {s.tabs[s.ptr[e].cm][i].loc : i \in 1 .. s.ptr[e].idx}

FixedPointer(s, l) ==
    LET q == s.ptr[EntryOf(l)]
        t == s.tabs[q.cm]
    IN  t[CHOOSE i \in 1 .. q.idx :
             /\ t[i].loc = l
             /\ \A j \in i + 1 .. q.idx : t[j].loc # l].val

-----------------------------------------------------------------------------
(* Moving an allocation *)

MutMoveForgetsPtrs(s, a) ==
    LET p == s.npers + 1
        c == slab_palloc(s)
    IN  [c EXCEPT !.val[p] = s.val[a], !.ident[p] = s.ident[a],
                  !.heap = @ \ {a}, !.val[a] = NULL,
                  !.tree[a].paddr = p,
                  !.pat = @ \ {a}]

(* palloc, copy, free, and the pointers of the allocation, at their new    *)
(* place, join the vector that is being walked.  (The words of freed memory *)
(* mean nothing any more.)                                                 *)
MoveAllocation(s, a) ==
    LET p == s.npers + 1
        c == slab_palloc(s)
        ptrs == s.tree[a].ptrs
    IN  [c EXCEPT !.val[p] = s.val[a], !.ident[p] = s.ident[a],
                  !.heap = @ \ {a}, !.val[a] = NULL,
                  !.tree[a].paddr = p,
                  !.pvec = @ \o [i \in 1 .. Len(ptrs) |-> p],
                  !.pat = @ \ ToSet(ptrs)]

MutMovesAgain(s, l) ==
    LET t == s.val[l] IN
    IF t \notin DOMAIN s.tree THEN s
    ELSE LET moved == MoveAllocation(s, t) IN
         [StoreTo(moved, EntryOf(l)) EXCEPT !.val[l] = moved.tree[t].paddr]

(* persist_valloc: an entry of the tree that has no persistent address is  *)
(* moved; the pointer is redirected in any case                            *)
persist_valloc(s, l) ==
    LET t == s.val[l] IN
    IF t \notin DOMAIN s.tree THEN s
    ELSE LET moved == IF s.tree[t].paddr = 0 THEN MoveAllocation(s, t) ELSE s IN
         [StoreTo(moved, EntryOf(l)) EXCEPT !.val[l] = moved.tree[t].paddr]

-----------------------------------------------------------------------------
(* The program *)

(* The program goes on until its last checkpoint. *)
AppStep ==
    /\ pc = "app" /\ cpoints < MaxCpoints
    /\ UNCHANGED <<pc, at, within, cpoints, begin>>

(* malloc (of memory that the program sets to NULL), mallocat, and         *)
(* pointerat of its pointer.  An address is given out once between two     *)
(* checkpoints, for only a checkpoint frees.                               *)
Malloc(a) ==
    /\ AppStep
    /\ a \notin st.heap /\ mallocs < MaxMallocs
    /\ st' = [st EXCEPT !.heap = @ \cup {a}, !.pat = @ \cup {a},
                        !.ident[a] = <<a, cpoints>>]
    /\ mallocat' = mallocat \cup {a}
    /\ mallocs' = mallocs + 1
    /\ known' = known \cup {a}
    /\ UNCHANGED <<pallocs, stores>>

(* container_palloc *)
Palloc ==
    /\ AppStep
    /\ pallocs < MaxPallocs
    /\ st' = [slab_palloc(st) EXCEPT !.ident[st.npers + 1] = <<NULL, st.npers + 1>>]
    /\ pallocs' = pallocs + 1
    /\ UNCHANGED <<mallocat, mallocs, stores, known>>

(* pointerat, for a pointer in the container or a variable *)
pointerat(l) ==
    /\ AppStep
    /\ l \in (1 .. st.npers) \cup Globals /\ l \notin st.pat
    /\ st' = [st EXCEPT !.pat = @ \cup {l}]
    /\ known' = known \cup {l}
    /\ UNCHANGED <<mallocat, pallocs, mallocs, stores>>

(* The program stores a pointer, only where it announced one and into      *)
(* memory that it has.                                                     *)
Store(l, v) ==
    /\ AppStep
    /\ stores < MaxStores /\ stores' = stores + 1
    /\ l \in known \cap (Live(st) \cup Globals)
    /\ v \in Live(st) \cup Globals \cup {NULL} /\ v # st.val[l]
    /\ st' = [(IF l \in Pers THEN StoreTo(st, EntryOf(l)) ELSE st) EXCEPT !.val[l] = v]
    /\ UNCHANGED <<mallocat, pallocs, mallocs, known>>

-----------------------------------------------------------------------------
(* compute_closure, and the slab's part of the checkpoint *)

(* build_mallocat_tree: an address that has an entry keeps it, for         *)
(* SPLAY_INSERT does not replace, and nothing empties the tree             *)
build_mallocat_tree ==
    [a \in DOMAIN st.tree \cup mallocat |->
        IF a \in DOMAIN st.tree THEN st.tree[a] ELSE [paddr |-> 0, ptrs |-> <<>>]]

(* classify_pointers: a location in an entry of the tree is appended to    *)
(* the entry and stays registered, one in the slab moves to the vector,    *)
(* others stay as back references.  The table is walked in hash order.     *)
classify_pointers(s, order) ==
    [s EXCEPT !.tree = [a \in DOMAIN s.tree |->
                          IF a \in s.pat THEN [s.tree[a] EXCEPT !.ptrs = Append(@, a)]
                          ELSE s.tree[a]],
              !.pvec = @ \o order,
              !.pat = @ \ Pers]

container_cpoint ==
    /\ pc = "app" /\ cpoints < MaxCpoints
    /\ \E order \in SetToSeqs(st.pat \cap Pers) :
          st' = classify_pointers([st EXCEPT !.tree = build_mallocat_tree], order)
    /\ begin' = [npers |-> st.npers,
                 pat |-> st.pat,
                 edges |-> Edges(st, st.pat),
                 recorded |-> {e \in Entries : st.ptr[e].idx # 0 \/ st.ptr[e].sm # 0}]
    /\ cpoints' = cpoints + 1
    /\ pc' = "move" /\ at' = 1 /\ within' = 1
    /\ UNCHANGED <<mallocat, pallocs, mallocs, stores, known>>

ClosureStep == UNCHANGED <<mallocat, pallocs, mallocs, stores, cpoints, known, begin>>

MutUncheckedTarget ==
    /\ pc = "move" /\ at <= Len(st.pvec)
    /\ st' = slab_insert_pointer(persist_valloc(st, st.pvec[at]), st.pvec[at])
    /\ at' = at + 1
    /\ UNCHANGED <<pc, within>>
    /\ ClosureStep

(* move_volatile_allocations, one element of pptr_vec; a target that is in *)
(* no slab entry afterwards ends the process (handle_error)                *)
MovePointer ==
    /\ pc = "move" /\ at <= Len(st.pvec)
    /\ LET l == st.pvec[at]
           s == persist_valloc(st, l)
       IN  /\ s.npers <= MaxObjs
           /\ IF s.val[l] \in Pers \cup {NULL}
              THEN st' = slab_insert_pointer(s, l) /\ UNCHANGED pc
              ELSE st' = s /\ pc' = "dead"
    /\ at' = at + 1
    /\ UNCHANGED within
    /\ ClosureStep

(* VECTOR_FREE of the walked vector *)
FreePointerVector ==
    /\ pc = "move" /\ at > Len(st.pvec)
    /\ st' = [st EXCEPT !.pvec = <<>>]
    /\ pc' = "dirty" /\ at' = 1 /\ within' = 1
    /\ ClosureStep

MutSkipWithoutAdvance ==
    /\ pc = "dirty" /\ at <= Len(st.dirty)
    /\ LET q == st.ptr[st.dirty[at]] IN
       IF within > q.idx
       THEN at' = at + 1 /\ within' = 1 /\ UNCHANGED st
       ELSE LET l == st.tabs[q.cm][within].loc
                s == persist_valloc(st, l)
            IN
            /\ s.npers <= MaxObjs
            /\ st' = s
            /\ within' = (IF st.val[l] \in DOMAIN st.tree THEN within + 1 ELSE within)
            /\ UNCHANGED at
    /\ UNCHANGED pc
    /\ ClosureStep

(* slab_foreach_snapshot_entry: one recorded pointer of an entry in        *)
(* sd_vector; what a move appends to pptr_vec waits there                  *)
MoveDirty ==
    /\ pc = "dirty" /\ at <= Len(st.dirty)
    /\ LET q == st.ptr[st.dirty[at]] IN
       IF within > q.idx
       THEN at' = at + 1 /\ within' = 1 /\ UNCHANGED st
       ELSE LET s == persist_valloc(st, st.tabs[q.cm][within].loc) IN
            /\ s.npers <= MaxObjs
            /\ st' = s
            /\ within' = within + 1 /\ UNCHANGED at
    /\ UNCHANGED pc
    /\ ClosureStep

DirtyDone ==
    /\ pc = "dirty" /\ at > Len(st.dirty)
    /\ pc' = "fix"
    /\ UNCHANGED <<st, at, within>>
    /\ ClosureStep

MutFixOnlyGlobals(s) ==
    [s EXCEPT !.val = [l \in Loc |->
        IF l \in s.pat \cap Globals /\ s.val[l] \in DOMAIN s.tree /\ s.tree[s.val[l]].paddr # 0
        THEN s.tree[s.val[l]].paddr ELSE s.val[l]]]

(* fix_back_references: a registered pointer into an entry of the tree is  *)
(* rebased to its persistent address, which is NULL for an entry that did  *)
(* not move                                                                *)
fix_back_references(s) ==
    LET Rebased(t) == IF s.tree[t].paddr = 0 THEN NULL ELSE s.tree[t].paddr IN
    [s EXCEPT !.val = [l \in Loc |->
        IF l \in s.pat /\ s.val[l] \in DOMAIN s.tree THEN Rebased(s.val[l]) ELSE s.val[l]]]

FixBackReferences ==
    /\ pc = "fix"
    /\ st' = fix_back_references(st)
    /\ pc' = "slab"
    /\ UNCHANGED <<at, within>>
    /\ ClosureStep

SlabCpoint ==
    /\ pc = "slab"
    /\ st' = slab_cpoint(st)
    /\ pc' = "app" /\ at' = 0 /\ within' = 0
    /\ ClosureStep

(* the steps of the library once container_cpoint is called *)
Library ==
    \/ MovePointer
    \/ FreePointerVector
    \/ MoveDirty
    \/ DirtyDone
    \/ FixBackReferences
    \/ SlabCpoint

Next ==
    \/ \E a \in Vol : Malloc(a)
    \/ Palloc
    \/ \E l \in Loc : pointerat(l)
    \/ \E l \in Loc, v \in Loc \cup {NULL} : Store(l, v)
    \/ container_cpoint
    \/ Library

(* The library waits for nothing: a checkpoint that was called goes on. *)
Spec == Init /\ [][Next]_vars /\ WF_vars(Library)

-----------------------------------------------------------------------------
(* Properties *)

(* An allocation is moved at most once, whichever pointers lead to it and  *)
(* however often a location is walked (closure.c:185, cont.c:36): no object *)
(* is in the container twice, or in the container and on the heap.         *)
AtOnePlace ==
    \A p, q \in Live(st) : st.ident[p] = st.ident[q] => p = q

(* The pointers that the walk of dirty entries finds in what it moves are  *)
(* put on the vector that has been walked already: these objects of the    *)
(* container wait for the next checkpoint.                                 *)
Waiting == ToSet(st.pvec)

(* The walk of pptr_vec, which grows while it is walked, misses nothing:   *)
(* when it is over, no object that this checkpoint moved points to         *)
(* volatile memory (closure.c:189), unless the walk of dirty entries moved *)
(* it.                                                                     *)
MovedObjectsClosed ==
    pc \in {"dirty", "fix", "slab"} =>
        \A p \in (begin.npers + 1 .. st.npers) \ Waiting : st.val[p] \notin Vol \cup Globals

(* A registered pointer to an object that is in the container after the    *)
(* checkpoint still leads to that object, wherever the pointer was, where  *)
(* it went and in which order the pointers were walked: the picture of     *)
(* test_all in test_closure.c, for every graph.                            *)
RegisteredPointersFollow ==
    pc = "slab" =>
        \A x \in begin.edges :
            /\ x[2] \in {st.ident[p] : p \in 1 .. st.npers}
            /\ x[1] \notin {st.ident[p] : p \in Waiting}
            => x \in Edges(st, Live(st) \cup Globals)

(* In an entry that had no recorded pointers, the ones this checkpoint     *)
(* records are enough for do_fixptrs: every pointer that was registered in *)
(* the container and the pointer of every moved object is among them, and  *)
(* each has the value that the pointer has when the closure is complete.   *)
RecordsReproducePointers ==
    pc = "slab" =>
        \A p \in 1 .. st.npers :
            LET e == EntryOf(p) IN
            e \notin begin.recorded =>
                /\ p \in begin.pat \/ p > begin.npers => p \in Recorded(st, e) \cup Waiting
                /\ p \in Recorded(st, e) => FixedPointer(st, p) = st.val[p]

(* The page in which the pointers of an entry are recorded is not given    *)
(* back by the checkpoint that makes it the committed one, whether the     *)
(* entry was copied since the last checkpoint or not.                      *)
PointerPageHeld == \A e \in Entries : st.ptr[e].cm \notin st.freed

(* A checkpoint comes to an end whatever the graph of the program, cycles  *)
(* included (or ends the process, at a target that is not registered).     *)
CheckpointReturns == (pc # "app") ~> (pc \in {"app", "dead"})

-----------------------------------------------------------------------------
(* The inductive invariant of the proofs in ClosureProofs *)

StFields == {"val", "heap", "tree", "pvec", "pat", "npers", "copied", "hasSnap",
             "writable", "dirty", "tabs", "ptr", "freed", "ident"}

PtrPage == [idx : Nat, cm : Nat, cl : Nat, sm : Nat, sl : Nat]

StateType(s) ==
    /\ DOMAIN s = StFields
    /\ s.val \in [Loc -> Loc \cup {NULL}]
    /\ s.heap \subseteq Vol /\ DOMAIN s.tree \subseteq Vol
    /\ \A a \in DOMAIN s.tree : s.tree[a] \in [paddr : {0} \cup 1 .. s.npers, ptrs : Seq({a})]
    /\ s.npers \in 0 .. MaxObjs
    /\ s.pvec \in Seq(1 .. s.npers) /\ s.pat \subseteq Loc
    /\ s.copied \in BOOLEAN /\ s.hasSnap \in BOOLEAN
    /\ s.writable \subseteq Entries /\ s.dirty \in Seq(Entries)
    /\ s.ident \in [Vol \cup Pers -> ((Vol \cup {NULL}) \X Nat) \cup {NULL}]

(* The pointer pages: an entry has no more records than its page, and no   *)
(* page that another entry has or had.                                     *)
PagesInv(s) ==
    /\ s.tabs \in Seq(Seq([loc : 1 .. s.npers, val : Pers \cup {NULL}]))
    /\ s.ptr \in [Entries -> PtrPage] /\ s.freed \subseteq 1 .. Len(s.tabs)
    /\ \A e \in Entries :
          /\ s.ptr[e].cm \in 0 .. Len(s.tabs) /\ s.ptr[e].cl \in 0 .. Len(s.tabs)
          /\ s.ptr[e].sm \in 0 .. Len(s.tabs) /\ s.ptr[e].sl \in 0 .. Len(s.tabs)
          /\ s.ptr[e].cm \notin s.freed
          /\ s.ptr[e].cm = 0 => s.ptr[e].idx = 0 /\ s.ptr[e].sm = 0
          /\ s.ptr[e].cm # 0 => s.ptr[e].idx =< Len(s.tabs[s.ptr[e].cm])
    /\ \A e, f \in Entries : e # f /\ s.ptr[e].cm # 0 =>
          s.ptr[e].cm # s.ptr[f].cm /\ s.ptr[e].cm # s.ptr[f].sm

(* allocations that have moved *)
Moved(s) == {a \in DOMAIN s.tree : s.tree[a].paddr # 0}

(* Every address of the heap is registered and has its own object, made    *)
(* since checkpoint n - 1 or earlier; what was moved had been made before  *)
(* checkpoint n.                                                           *)
PlaceInv(s, n) ==
    /\ \A a \in s.heap : \E k \in 0 .. n : s.ident[a] = <<a, k>>
    /\ \A p \in 1 .. s.npers :
          s.ident[p] = <<NULL, p>> \/ \E a \in Vol, k \in 0 .. n - 1 : s.ident[p] = <<a, k>>
    /\ \A p, q \in Live(s) : s.ident[p] = s.ident[q] => p = q
    /\ s.heap \subseteq s.pat /\ s.pat \subseteq Live(s) \cup Globals
    /\ \A a \in DOMAIN s.tree : s.tree[a].paddr = 0 => a \in s.heap

(* While a checkpoint runs every allocation is in the tree, with its       *)
(* pointer when it has not moved; all of them were made before.            *)
ClosureInv(s, n) ==
    /\ mallocat \subseteq DOMAIN s.tree
    /\ \A a \in DOMAIN s.tree : s.tree[a].paddr = 0 => s.tree[a].ptrs # <<>>
    /\ \A a \in s.heap : \E k \in 0 .. n - 1 : s.ident[a] = <<a, k>>
    /\ s.pat \cap Pers = {}

(* What is still to be walked of the vector *)
From(s, i) == {s.pvec[j] : j \in i .. Len(s.pvec)}
Ahead == From(st, IF pc = "move" THEN at ELSE 1)

(* The objects of the container from first on point into it, but for those *)
(* in ahead.                                                               *)
ClosedInv(s, first, ahead) ==
    \A p \in (first .. s.npers) \ ahead : s.val[p] \notin Vol \cup Globals

(* The pointer at l leads to object o, or to the address it was moved from. *)
LeadsTo(s, l, o) ==
    \/ Who(s, s.val[l]) = o
    \/ s.val[l] \in Moved(s) /\ s.ident[s.tree[s.val[l]].paddr] = o

(* Object o will not be moved by this checkpoint: an older one was moved   *)
(* from its address, or the checkpoint has moved what it moves.            *)
Stays(s, o, done) == \E a \in s.heap : s.ident[a] = o /\ (done \/ a \in Moved(s))

(* Each edge between objects has its pointer, and one that may still lead  *)
(* to volatile memory is among the ones that will be looked at.            *)
FollowInv(s, edges, pending, done) ==
    \A x \in edges :
        \/ x[2] = NULL
        \/ Stays(s, x[2], done)
        \/ \E l \in Live(s) \cup Globals :
              /\ Who(s, l) = x[1] /\ LeadsTo(s, l, x[2])
              /\ s.val[l] \in Vol => l \in pending

(* The entries that had no records have the right ones, but for the        *)
(* objects ahead.                                                          *)
RecordsInv(s, recorded, registered, ahead) ==
    /\ \A e \in Entries \ recorded :
          /\ s.ptr[e].sm = 0
          /\ \A i \in 1 .. s.ptr[e].idx :
                LET r == s.tabs[s.ptr[e].cm][i]
                IN  r.val = s.val[r.loc] /\ r.val \in Pers \cup {NULL}
    /\ \A p \in registered \ ahead :
          EntryOf(p) \notin recorded => p \in Recorded(s, EntryOf(p))

CountInv ==
    /\ {pallocs, mallocs, stores, cpoints, at, within} \subseteq Nat
    /\ pallocs =< MaxPallocs
    /\ st.npers = pallocs + Cardinality(Moved(st))

WalkInv ==
    /\ at # 0 /\ within # 0
    /\ ClosureInv(st, cpoints)
    /\ begin.npers \in 0 .. st.npers
    /\ ClosedInv(st, begin.npers + 1, Ahead)
    /\ FollowInv(st, begin.edges, Ahead \cup (IF pc = "slab" THEN {} ELSE st.pat), pc = "slab")
    /\ RecordsInv(st, begin.recorded,
                  (begin.pat \cap Pers) \cup (begin.npers + 1 .. st.npers), Ahead)

IndInv ==
    /\ pc \in {"app", "move", "dirty", "fix", "slab", "dead"}
    /\ mallocat \subseteq Vol /\ known \subseteq Loc
    /\ StateType(st) /\ PagesInv(st) /\ CountInv
    /\ PlaceInv(st, cpoints)
    /\ st.heap \subseteq mallocat /\ mallocat \subseteq st.heap \cup DOMAIN st.tree
    /\ pc \notin {"app", "dead"} => WalkInv

-----------------------------------------------------------------------------
(* Statements of the repository that the code does not keep *)

(* closure.c:233: persistent pointers whose targets must be checked are    *)
(* the new ones and "the ones that are in `dirty` slab_entries", so that   *)
(* after a closure no announced pointer in the container leads to a        *)
(* registered volatile allocation.                                         *)
NoVolatileTarget ==
    pc = "fix" => \A p \in known \cap (1 .. st.npers) : st.val[p] \notin mallocat

(* slabInt.h:19, of the recorded pointers: "This metadata is use to fix    *)
(* the pointers after restoring a container": the page whose offset is     *)
(* committed, from which a restore reads them, is not available.           *)
PointersRestorable ==
    pc = "app" => \A e \in Entries : st.ptr[e].idx # 0 => st.ptr[e].sl \notin st.freed

(* closure.c:137, back references "point to memory that was moved": a      *)
(* pointer to an allocation that did not move keeps its target.            *)
UnmovedPointersStay ==
    pc = "slab" => begin.edges \subseteq Edges(st, Live(st) \cup Globals)
=============================================================================
