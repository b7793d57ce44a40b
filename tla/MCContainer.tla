---------------------------- MODULE MCContainer ----------------------------
(***************************************************************************)
(* Container for TLC: two slab entries, one L object or two S objects to a *)
(* page, and two values an application may store.                          *)
(***************************************************************************)
EXTENDS Container
=============================================================================
