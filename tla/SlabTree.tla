------------------------------ MODULE SlabTree ------------------------------
(***************************************************************************)
(* The tree of a slab (directory, outers, inners, buckets) as it grows     *)
(* past its first bucket: get_free_slab_entry copies the node it is about  *)
(* to change, so that the tree of the last checkpoint stays reachable from *)
(* the snapshot references, and links new nodes into the current one.      *)
(*                                                                         *)
(* A node is a page: an index and two arrays of references, current and    *)
(* snapshot.  The entries of a bucket are reduced to their identifiers;    *)
(* stores to data pages and the stores of a checkpoint one by one are the  *)
(* subject of Container.  Pages come from a new file in order, and the     *)
(* bound on them is such that none is used a second time.                  *)
(***************************************************************************)
EXTENDS Naturals, Sequences, FiniteSets

CONSTANTS
    NULL,               \* the null pointer
    MaxPages,           \* bound on the pages of the file
    SLAB_BUCKET_ENTRIES, SLAB_INNER_ENTRIES, SLAB_OUTER_ENTRIES, SLAB_DIR_ENTRIES,
    MaxCpoints          \* bound on the number of checkpoints

(* slab_bucket_snapshot indexes the references of an inner by the inner's  *)
(* number: the trees that are modelled have no inner whose number is past  *)
(* the end of that array.                                                  *)
ASSUME SlabAssumption ==
    /\ {SLAB_BUCKET_ENTRIES, SLAB_INNER_ENTRIES, SLAB_OUTER_ENTRIES, SLAB_DIR_ENTRIES}
            \subseteq Nat \ {0}
    /\ SLAB_OUTER_ENTRIES * SLAB_DIR_ENTRIES =< SLAB_INNER_ENTRIES

VARIABLES
    mem,                \* the pages of the tree
    cont,               \* current_slab and snapshot_slab of the container
    nextPage,           \* the page that page_allocator_getpage returns next
    freed,              \* pages given to page_allocator_freepages
    pc,                 \* where slab_palloc is
    freeEntries,        \* sd_free_list, of pairs of a bucket's page and a position
    nextId, nextBucket, \* NEXT_SLAB_ENTRY_ID and NEXT_SLAB_BUCKET_ID
    atCpoint,           \* buckets in the tree at the last checkpoint
    cpoints

vars == <<mem, cont, nextPage, freed, pc, freeEntries, nextId, nextBucket, atCpoint,
          cpoints>>

Slot == 0 .. SLAB_INNER_ENTRIES - 1
Node == [index |-> 0, cur |-> [i \in Slot |-> NULL], snap |-> [i \in Slot |-> NULL]]
NewBucket(id) == [has |-> FALSE, id |-> id,
                  entries |-> [i \in 0 .. SLAB_BUCKET_ENTRIES - 1 |-> NULL]]

(* Entry child is added to node n, in both arrays. *)
Link(n, child) ==
    [n EXCEPT !.cur[n.index] = child, !.snap[n.index] = child, !.index = @ + 1]

(* the last child of a node *)
Last(p) == mem[p].cur[mem[p].index - 1]

sd == cont.cur
so == Last(sd)
si == Last(so)

InnerFull == mem[si].index = SLAB_INNER_ENTRIES
OuterFull == mem[so].index = SLAB_OUTER_ENTRIES
DirFull == mem[sd].index = SLAB_DIR_ENTRIES

MutEntriesReversed(p) == [i \in 1 .. SLAB_BUCKET_ENTRIES |-> <<p, SLAB_BUCKET_ENTRIES - i>>]

(* the entries of a bucket in the order in which they are put on the list *)
EntriesOf(p) == [i \in 1 .. SLAB_BUCKET_ENTRIES |-> <<p, i - 1>>]

(* page_allocator_getpage, n times *)
page_allocator_getpage(n) ==
    /\ nextPage + n =< MaxPages
    /\ nextPage' = nextPage + n
    /\ UNCHANGED freed

-----------------------------------------------------------------------------
(* slab_dir_init, on pages 1 to 4; page 0 is the container's *)

Init ==
    /\ nextPage = 5
    /\ freed = {}
    /\ cont = [cur |-> 1, snap |-> 1]
    /\ mem = [p \in 0 .. MaxPages - 1 |->
                 CASE p = 1 -> Link(Node, 2) [] p = 2 -> Link(Node, 3)
                   [] p = 3 -> Link(Node, 4) [] p = 4 -> NewBucket(0) [] OTHER -> Node]
    /\ pc = "run"
    /\ freeEntries = EntriesOf(4)
    /\ nextId = 0 /\ nextBucket = 1
    /\ atCpoint = 1
    /\ cpoints = 0

-----------------------------------------------------------------------------
(* get_free_slab_entry when sd_free_list is empty *)

(* Copy node p, which slot i of node parent refers to. *)
Snapshot(parent, i, p) ==
    /\ page_allocator_getpage(1)
    /\ mem' = [mem EXCEPT ![nextPage] = mem[p], ![parent].snap[i] = nextPage]

MutNoInnerSnapshot == UNCHANGED <<mem, nextPage, freed>>

(* slab_inner_snapshot, unless the inner has been copied since *)
slab_inner_snapshot ==
    LET i == mem[so].index - 1 IN
    IF mem[so].cur[i] = mem[so].snap[i] THEN Snapshot(so, i, si) ELSE UNCHANGED <<mem, nextPage, freed>>

(* slab_outer_snapshot: the slot of the current reference is taken from    *)
(* the index of the outer, the slot of the snapshot from the directory's   *)
slab_outer_snapshot ==
    LET i == mem[sd].index - 1 IN
    IF mem[sd].cur[mem[so].index - 1] = mem[sd].snap[i]
    THEN Snapshot(sd, i, so) ELSE UNCHANGED <<mem, nextPage, freed>>

slab_dir_snapshot ==
    IF cont.cur = cont.snap
    THEN /\ page_allocator_getpage(1)
         /\ mem' = [mem EXCEPT ![nextPage] = mem[sd]]
         /\ cont' = [cont EXCEPT !.snap = nextPage]
    ELSE UNCHANGED <<mem, nextPage, freed, cont>>

(* The copy that precedes a change.  A full directory ends the process. *)
SnapshotPath ==
    /\ pc = "run" /\ freeEntries = <<>>
    /\ \/ /\ ~InnerFull
          /\ slab_inner_snapshot
          /\ pc' = "bucket"
          /\ UNCHANGED cont
       \/ /\ InnerFull /\ ~OuterFull
          /\ slab_outer_snapshot
          /\ pc' = "inner"
          /\ UNCHANGED cont
       \/ /\ InnerFull /\ OuterFull
          /\ slab_dir_snapshot
          /\ pc' = IF DirFull THEN "dead" ELSE "outer"
    /\ UNCHANGED <<freeEntries, nextId, nextBucket, atCpoint, cpoints>>

(* A new page with content n becomes the next child of p. *)
LinkNew(p, n) ==
    /\ page_allocator_getpage(1)
    /\ mem' = [mem EXCEPT ![nextPage] = n, ![p] = Link(mem[p], nextPage)]

slab_outer_init ==
    /\ pc = "outer"
    /\ LinkNew(sd, Node)
    /\ pc' = "inner"
    /\ UNCHANGED <<cont, freeEntries, nextId, nextBucket, atCpoint, cpoints>>

slab_inner_init ==
    /\ pc = "inner"
    /\ LinkNew(so, Node)
    /\ pc' = "bucket"
    /\ UNCHANGED <<cont, freeEntries, nextId, nextBucket, atCpoint, cpoints>>

slab_bucket_init ==
    /\ pc = "bucket"
    /\ LinkNew(si, NewBucket(nextBucket))
    /\ nextBucket' = nextBucket + 1
    /\ freeEntries' = freeEntries \o EntriesOf(nextPage)
    /\ pc' = "use"
    /\ UNCHANGED <<cont, nextId, atCpoint, cpoints>>

-----------------------------------------------------------------------------
(* slab_palloc once it has an entry *)

(* The number of the inner of a bucket, the slots of that inner and of its *)
(* outer, and the inner's page                                             *)
InnerId(sbId) == sbId \div SLAB_INNER_ENTRIES
OuterOf(siId) == mem[sd].cur[(siId \div SLAB_OUTER_ENTRIES) % SLAB_DIR_ENTRIES]
InnerOf(siId) == mem[OuterOf(siId)].cur[siId % SLAB_OUTER_ENTRIES]

(* the slot of the inner in which the references to bucket sb are looked up *)
BucketSlot(sb) == InnerId(mem[sb].id)

NeedsCopy(sb) ==
    LET p == InnerOf(InnerId(mem[sb].id))
    IN  mem[p].cur[BucketSlot(sb)] = mem[p].snap[BucketSlot(sb)]

(* sb_has_snapshot = slab_bucket_snapshot(cid, sb) *)
slab_bucket_snapshot(sb) ==
    IF NeedsCopy(sb)
    THEN [mem EXCEPT ![nextPage] = mem[sb],
                     ![InnerOf(InnerId(mem[sb].id))].snap[BucketSlot(sb)] = nextPage,
                     ![sb].has = TRUE]
    ELSE [mem EXCEPT ![sb].has = FALSE]

(* An object of a new entry, the first of sd_free_list, which gets a data page *)
PallocNew ==
    LET sb == Head(freeEntries)[1]
        slot == Head(freeEntries)[2]
    IN
    /\ pc \in {"run", "use"} /\ freeEntries # <<>>
    /\ page_allocator_getpage(IF NeedsCopy(sb) THEN 2 ELSE 1)
    /\ mem' = [slab_bucket_snapshot(sb) EXCEPT ![sb].entries[slot] = nextId]
    /\ nextId' = nextId + 1
    /\ freeEntries' = Tail(freeEntries)
    /\ pc' = "run"
    /\ UNCHANGED <<cont, nextBucket, atCpoint, cpoints>>

(* the current tree *)
Children(p) == {mem[p].cur[i] : i \in 0 .. mem[p].index - 1}
Inners == UNION {Children(o) : o \in Children(sd)}
Buckets == UNION {Children(i) : i \in Inners}

(* An object of an entry that has room, in bucket sb *)
PallocIn(sb) ==
    /\ pc = "run"
    /\ \E i \in DOMAIN mem[sb].entries : mem[sb].entries[i] # NULL
    /\ page_allocator_getpage(IF NeedsCopy(sb) THEN 1 ELSE 0)
    /\ mem' = slab_bucket_snapshot(sb)
    /\ UNCHANGED <<cont, pc, freeEntries, nextId, nextBucket, atCpoint, cpoints>>

-----------------------------------------------------------------------------
(* container_cpoint *)

(* the slots of node p whose reference is committed: changed ones, and in  *)
(* an inner those of buckets that have a snapshot                          *)
Committed(p) ==
    {i \in 0 .. mem[p].index - 1 :
        IF p \in Inners THEN mem[mem[p].cur[i]].has ELSE mem[p].cur[i] # mem[p].snap[i]}

(* slab_dir_cpoint, slab_outer_cpoint, slab_inner_cpoint: each committed   *)
(* reference replaces the snapshot, and has is cleared                     *)
CommittedTree ==
    [p \in DOMAIN mem |->
        CASE p \in {sd} \cup Children(sd) \cup Inners ->
                [mem[p] EXCEPT !.snap = [i \in Slot |-> IF i \in Committed(p)
                                                        THEN mem[p].cur[i] ELSE @[i]]]
          [] p \in Buckets -> [mem[p] EXCEPT !.has = FALSE]
          [] OTHER -> mem[p]]

(* the pages that page_allocator_freepages is called with *)
FreedPages ==
    UNION {{mem[p].snap[i] : i \in Committed(p)} : p \in {sd} \cup Children(sd) \cup Inners}
        \cup (IF cont.cur # cont.snap THEN {cont.snap} ELSE {})

container_cpoint ==
    /\ pc = "run" /\ cpoints < MaxCpoints
    /\ cpoints' = cpoints + 1
    /\ mem' = CommittedTree
    /\ cont' = [cont EXCEPT !.snap = cont.cur]
    /\ freed' = freed \cup FreedPages
    /\ atCpoint' = Cardinality(Buckets)
    /\ UNCHANGED <<nextPage, pc, freeEntries, nextId, nextBucket>>

Next ==
    \/ SnapshotPath \/ slab_outer_init \/ slab_inner_init \/ slab_bucket_init
    \/ PallocNew
    \/ \E sb \in Buckets : PallocIn(sb)
    \/ container_cpoint

Spec == Init /\ [][Next]_vars

-----------------------------------------------------------------------------
(* Restore and lookup *)

(* slab_map of a complete checkpoint: the buckets that the snapshot        *)
(* references lead to, from the directory of snapshot_slab                 *)
SnapChildren(p) == {mem[p].snap[i] : i \in 0 .. mem[p].index - 1}
slab_map ==
    UNION {UNION {SnapChildren(i) : i \in SnapChildren(o)} : o \in SnapChildren(cont.snap)}

get_slab_entry_by_id(seid) ==
    LET sbId == seid \div SLAB_BUCKET_ENTRIES
    IN  <<mem[InnerOf(InnerId(sbId))].cur[sbId % SLAB_INNER_ENTRIES],
          seid % SLAB_BUCKET_ENTRIES>>

-----------------------------------------------------------------------------
(* Properties *)

(* An entry is found by its identifier: the order in which buckets are     *)
(* linked, entries are put on sd_free_list and initialised agrees with the *)
(* arithmetic of get_slab_entry_by_id, over every level of the tree.       *)
EntryById ==
    \A sb \in Buckets : \A i \in DOMAIN mem[sb].entries :
        mem[sb].entries[i] # NULL => get_slab_entry_by_id(mem[sb].entries[i]) = <<sb, i>>

(* Until the first checkpoint a restore finds the tree that slab_dir_init  *)
(* made, one bucket without an entry, at every point of a growth: each     *)
(* node is copied before it is changed, on every level.                    *)
GrowthInvisible ==
    cpoints = 0 =>
        /\ Cardinality(slab_map) = 1
        /\ \A sb \in slab_map : mem[sb].entries = NewBucket(0).entries

-----------------------------------------------------------------------------
(* Statements of the repository that the code does not keep *)

(* slabInt.h, of sb_id: "to calculate the index of the inner, outer, and   *)
(* dir for this bucket".                                                   *)
BucketIndexed ==
    \A sb \in Buckets : mem[InnerOf(InnerId(mem[sb].id))].cur[BucketSlot(sb)] = sb

(* slab.h: slab_cpoint is "checkpoint/commit changes in current            *)
(* transaction": no bucket of the tree is given back by it.                *)
CheckpointKeepsBuckets == Buckets \cap freed = {}

(* tests/test_crash_recovery.c, after a checkpoint: "the changes made from *)
(* this point on should not be restore[d]", the tree's shape included.     *)
ShapeRolledBack == Cardinality(slab_map) =< atCpoint
=============================================================================
