----------------------------- MODULE MCSlabPage -----------------------------
(***************************************************************************)
(* SlabPage for TLC: the page size and the limit of the code, and every    *)
(* request from 0 to more than a page.                                     *)
(***************************************************************************)
EXTENDS SlabPage
=============================================================================
