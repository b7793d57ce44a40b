----------------------------- MODULE MCClosure -----------------------------
(***************************************************************************)
(* Closure for TLC: two addresses of the heap, one pointer variable, two   *)
(* objects to a data page.                                                 *)
(***************************************************************************)
EXTENDS Closure
=============================================================================
