----------------------------- MODULE MCNumbering -----------------------------
(***************************************************************************)
(* Document numbers for TLC.                                               *)
(***************************************************************************)
EXTENDS Numbering, TLC

Sessions == Permutations(Session)
==============================================================================
