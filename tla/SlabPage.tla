------------------------------ MODULE SlabPage ------------------------------
(***************************************************************************)
(* The data page of one slab entry, in bytes: where its bitmap is, how     *)
(* many objects it has, where each of them starts, and the root of the     *)
(* container, which is kept as an entry's identifier and an offset packed  *)
(* into 64 bits.  The other models take the capacity of a page for granted;*)
(* this one computes it as the macros of slabInt.h do, for the real page   *)
(* size and every size of an object.                                       *)
(***************************************************************************)
EXTENDS Integers, FiniteSets, FiniteSetsExt, Bitwise

CONSTANTS
    PAGE_SIZE,
    SLAB_LARGE_ALLOC,
    TreeEntries,        \* entries of a full tree, which are numbered from 0
    Ids,                \* se_id of the entry
    NULL

ASSUME SlabPageAssumption ==
    /\ PAGE_SIZE \in Nat \ {0} /\ PAGE_SIZE % 8 = 0
    /\ SLAB_LARGE_ALLOC \in 1 .. PAGE_SIZE
    /\ TreeEntries \in Nat /\ Ids \subseteq 0 .. TreeEntries - 1

VARIABLES
    se,                 \* id, se_size (NULL until it is initialised), bitmap
    objs,               \* offsets of the objects handed out
    last,               \* offset of the last one
    root,               \* sd_cont_root, NULL until it is set
    rootObj,            \* history: the object it was set to
    dead                \* the process has ended

vars == <<se, objs, last, root, rootObj, dead>>

-----------------------------------------------------------------------------

MutUnrounded(x) == x

ROUND8(x) == ((x + 7) \div 8) * 8

bitstr_size(nbits) == (nbits + 7) \div 8

IsSmall(size) == size < SLAB_LARGE_ALLOC

MutCapacityOfWholePage(size) == PAGE_SIZE \div size

(* the bytes of a bitmap of se_size bits, not of one bit to an object *)
SLAB_ENTRY_CAPACITY(size) ==
    IF IsSmall(size) THEN (PAGE_SIZE - bitstr_size(size)) \div size
                     ELSE PAGE_SIZE \div size

MutDataOffset(size) == IF IsSmall(size) THEN (PAGE_SIZE \div size) \div 8 ELSE 0

SLAB_ENTRY_DATAOFFSET(size) ==
    IF IsSmall(size) THEN bitstr_size(PAGE_SIZE \div size) ELSE 0

(* SLAB_ENTRY_CBITMAP: the bytes of the page in front of the first object, *)
(* or the one byte in the entry                                            *)
BitmapBytes(size) == IF IsSmall(size) THEN SLAB_ENTRY_DATAOFFSET(size) ELSE 1

MutFullAtLastBit(e) == SLAB_ENTRY_CAPACITY(e.size) - 1 \in e.bitmap
                       \/ SLAB_ENTRY_CAPACITY(e.size) - 2 \in e.bitmap

slab_entry_full(e) ==
    \A i \in 0 .. SLAB_ENTRY_CAPACITY(e.size) - 1 : i \in e.bitmap

(* whole bytes are searched; a clear bit behind the last one is no result *)
bit_ffc(bitmap, nbits) ==
    LET searched == 0 .. 8 * ((nbits - 1) \div 8) + 7
        clear == searched \ bitmap
    IN  IF nbits = 0 \/ clear = {} \/ Min(clear) >= nbits THEN -1 ELSE Min(clear)

-----------------------------------------------------------------------------

Init ==
    /\ \E i \in Ids : se = [id |-> i, size |-> NULL, bitmap |-> {}]
    /\ objs = {} /\ last = NULL
    /\ root = NULL /\ rootObj = NULL
    /\ dead = FALSE

(* slab_entry_init for the first request, then slab_entry_alloc_mem *)
EntryFor(size) == IF se.size = NULL THEN [se EXCEPT !.size = size] ELSE se

(* slab_palloc of a request that this entry serves.  The model stops       *)
(* allocating when the root is set, and when the page is full: the next    *)
(* object is another entry's.                                              *)
slab_palloc(request) ==
    LET e == EntryFor(ROUND8(request)) IN
    /\ ~dead /\ root = NULL
    /\ e.size = ROUND8(request) /\ ~slab_entry_full(e)
    /\ LET idx == bit_ffc(e.bitmap, SLAB_ENTRY_CAPACITY(e.size))
           offset == SLAB_ENTRY_DATAOFFSET(e.size) + idx * e.size
       IN  IF idx # -1
           THEN /\ se' = [e EXCEPT !.bitmap = @ \cup {idx}]
                /\ objs' = objs \cup {offset}
                /\ last' = offset
           ELSE /\ se' = e
                /\ last' = NULL
                /\ UNCHANGED objs
    /\ UNCHANGED <<root, rootObj, dead>>

(* A request for 0 bytes divides by the size of its objects; one for more  *)
(* than a page ends in handle_error.                                       *)
PallocDies(request) ==
    /\ ~dead /\ root = NULL
    /\ request = 0 \/ request > PAGE_SIZE
    /\ dead' = TRUE
    /\ UNCHANGED <<se, objs, last, root, rootObj>>

-----------------------------------------------------------------------------
(* The root, an unsigned number of 64 bits.  It is a sequence of four      *)
(* limbs of 16 bits, the lowest first; 16 is OFFSET_SIZE_BITS.             *)

Limb == 65536

(* The conversion of n to uint64_t, that of a negative n by adding 2^64 *)
AsWord(n) ==
    LET high == n \div Limb
        sign == high \div Limb
    IN  <<n % Limb, high % Limb, sign % Limb, sign % Limb>>

ShiftLeft(w) == <<0, w[1], w[2], w[3]>>
OrWords(v, w) == [k \in 1 .. 4 |-> v[k] | w[k]]


(* PACK_CONT_ROOT as slab_setroot calls it, with the start of the page     *)
(* minus the address in it: minus the offset, in all of the 64 bits        *)
PACK_CONT_ROOT(seid, offset) == OrWords(ShiftLeft(AsWord(seid)), AsWord(-offset))

(* UNPACK_CONT_ROOT: the offset is cut to 16 bits and the identifier, the  *)
(* word shifted right, to 32.  An identifier is two limbs here: TLC's      *)
(* numbers end at 2^31.                                                    *)
UNPACK_CONT_ROOT(w) == [id |-> <<w[2], w[3]>>, offset |-> w[1]]

(* The application makes the object it got last the root: every object is  *)
(* that one at some time, and what is stored depends on nothing else.  (A  *)
(* later root replaces it; the model ends with the first.)                 *)
slab_setroot ==
    /\ ~dead /\ root = NULL
    /\ last # NULL
    /\ root' = PACK_CONT_ROOT(se.id, last)
    /\ rootObj' = last
    /\ UNCHANGED <<se, objs, last, dead>>

(* slab_getroot: identifier of an entry, offset in its page *)
slab_getroot == UNPACK_CONT_ROOT(root)

Next ==
    \/ \E request \in 1 .. PAGE_SIZE : slab_palloc(request)
    \/ \E request \in {0, PAGE_SIZE + 1} : PallocDies(request)
    \/ slab_setroot

Spec == Init /\ [][Next]_vars

-----------------------------------------------------------------------------
(* Properties *)

TypeOK ==
    /\ se.id \in Ids
    /\ se.size \in {8 * i : i \in 1 .. PAGE_SIZE \div 8} \cup {NULL}
    /\ se.bitmap \subseteq 0 .. PAGE_SIZE
    /\ objs \subseteq Nat
    /\ last \in objs \cup {NULL}
    /\ dead \in BOOLEAN

(* The bits that are read and set are in the bitmap and no object is laid  *)
(* over it, though the length of the bitmap, its place and the number of   *)
(* objects come from three different macros (slabInt.h:37-60): at          *)
(* SLAB_LARGE_ALLOC, where the bitmap moves into one byte of the entry,    *)
(* eight objects need all of its bits.                                     *)
BitmapApart ==
    se.size # NULL =>
        /\ SLAB_ENTRY_CAPACITY(se.size) <= 8 * BitmapBytes(se.size)
        /\ IsSmall(se.size) => \A o \in objs : o >= BitmapBytes(se.size)

(* How far the objects of a full page reach over its end, in bytes, for    *)
(* the four sizes for which SLAB_ENTRY_CAPACITY counts objects that do not *)
(* fit: it sets the bytes of too short a bitmap aside.                     *)
Overrun(size) ==
    CASE size = 8 -> 56 [] size = 16 -> 16 [] size = 24 -> 6 [] size = 56 -> 2
      [] OTHER -> 0

(* Every object is inside its page, except for these four sizes, of which  *)
(* 8 and 16 place whole objects, seven and one, in the page that follows:  *)
(* no object of another size can overwrite that page (slabInt.h:37-60).    *)
ObjectsInPage == last # NULL => last + se.size <= PAGE_SIZE + Overrun(se.size)

(* slab_palloc looks whether the entry is full and, if it is not, takes    *)
(* what bit_ffc finds without looking again: an entry with room always     *)
(* yields a new object (alloc.c:138-158).                                  *)
RoomIsFound ==
    se.size # NULL /\ ~dead =>
        /\ slab_entry_full(se) <=> bit_ffc(se.bitmap, SLAB_ENTRY_CAPACITY(se.size)) = -1
        /\ last # NULL
        /\ Cardinality(objs) = Cardinality(se.bitmap)

RootAsSet ==
    slab_getroot = [id |-> <<se.id % Limb, se.id \div Limb>>, offset |-> rootObj]

(* an identifier of an entry that a tree can have *)
IsEntryId(id) ==
    \/ id[2] < TreeEntries \div Limb
    \/ id[2] = TreeEntries \div Limb /\ id[1] < TreeEntries % Limb


-----------------------------------------------------------------------------
(* A statement of the repository that the code does not keep *)

(* slab.h:25, "set/get root of the container": what was set is what is     *)
(* found.  It is not for any object that does not start its page.          *)
RootFound == root # NULL => RootAsSet
=============================================================================
