---------------------------- MODULE MCFixedMapper ----------------------------
(***************************************************************************)
(* FixedMapper for TLC: a file of one or two pages that may be doubled     *)
(* until MaxPages, as the configurations say.                              *)
(***************************************************************************)
EXTENDS FixedMapper
=============================================================================
