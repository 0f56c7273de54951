-------------------------- MODULE MCSentinelExchange --------------------------
(***************************************************************************)
(* The exchange for TLC: two requests, one batch with one QC crucible.     *)
(* Neither requests nor certified values are told apart.                   *)
(***************************************************************************)
EXTENDS SentinelExchange, TLC

Alike == Permutations(Session) \cup Permutations(Certified)
=============================================================================
