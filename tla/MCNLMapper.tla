----------------------------- MODULE MCNLMapper -----------------------------
(***************************************************************************)
(* NLMapper for TLC: a file of one or two pages and two processes.         *)
(***************************************************************************)
EXTENDS NLMapper
=============================================================================
