---------------------------- MODULE MCFurnaceRaces ----------------------------
(***************************************************************************)
(* Two sessions at one furnace tray.                                       *)
(***************************************************************************)
EXTENDS FurnaceRaces, TLC

CONSTANTS s1, s2, b1, b2, p1, p2, x1, x2

AllPulp   == [s \in Sample |-> "pulp"]
OneClient == [s \in Sample |-> "client"]

Interchangeable == Permutations(Session) \cup Permutations(Position)
=============================================================================
