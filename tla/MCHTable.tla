------------------------------ MODULE MCHTable ------------------------------
(***************************************************************************)
(* HTable for TLC: the smallest list has two chains, and five keys make it *)
(* grow twice.  Their hashes collide in every length, or only in some.     *)
(***************************************************************************)
EXTENDS HTable

HashOf == [k \in 1 .. 5 |-> CASE k = 1 -> 1 [] k = 2 -> 3 [] k = 3 -> 5
                              [] k = 4 -> 9 [] OTHER -> 2]
=============================================================================
