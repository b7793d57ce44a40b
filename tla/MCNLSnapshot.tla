---------------------------- MODULE MCNLSnapshot ----------------------------
(***************************************************************************)
(* NLSnapshot for TLC: a bucket of two entries, in a file that is doubled  *)
(* while they are used.                                                    *)
(***************************************************************************)
EXTENDS NLSnapshot
=============================================================================
