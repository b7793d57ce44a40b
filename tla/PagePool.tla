------------------------------ MODULE PagePool ------------------------------
(***************************************************************************)
(* What the slab layer expects of a page allocator (struct                 *)
(* page_allocator_ops): a container file of some number of pages, from     *)
(* which pages are handed out and taken back.  A page that is in use is    *)
(* never handed out a second time, the pages in use outlive the process    *)
(* that allocated them, and the file never shrinks.                        *)
(***************************************************************************)
EXTENDS Naturals

CONSTANT MaxPages       \* bound on the length of the container file

VARIABLES
    inUse,              \* the pages some client holds
    held,               \* how many pages were handed out and not taken back
    capacity            \* length of the container file, in pages

poolVars == <<inUse, held, capacity>>

PoolInit ==
    /\ inUse = {}
    /\ held = 0
    /\ capacity = 0

(* alloc_page: any page that is not in use, of the file or of its growth. *)
Alloc ==
    \E c \in capacity .. MaxPages :
        \E p \in (0 .. c - 1) \ inUse :
            /\ inUse' = inUse \cup {p}
            /\ held' = held + 1
            /\ capacity' = c

(* free_pages *)
Free ==
    \E p \in inUse :
        /\ inUse' = inUse \ {p}
        /\ held' = held - 1
        /\ UNCHANGED capacity

(* The file grows without a page being handed out (creation of the file,   *)
(* or an allocation that dies after it has extended the file).             *)
Grow ==
    \E c \in capacity .. MaxPages :
        /\ capacity' = c
        /\ UNCHANGED <<inUse, held>>

PoolNext == Alloc \/ Free \/ Grow

PoolSpec == PoolInit /\ [][PoolNext]_poolVars
=============================================================================
