----------------------------- MODULE MCSlabTree -----------------------------
(***************************************************************************)
(* SlabTree for TLC: two entries to a bucket, four buckets to an inner, two*)
(* inners to an outer and two outers, filled until the directory is full.  *)
(***************************************************************************)
EXTENDS SlabTree
=============================================================================
