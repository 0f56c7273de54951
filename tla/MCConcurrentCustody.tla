------------------------- MODULE MCConcurrentCustody -------------------------
(***************************************************************************)
(* Small concurrent laboratories for TLC: two sessions are enough for      *)
(* every race between a decision and a write.                              *)
(***************************************************************************)
EXTENDS ConcurrentCustody, TLC

CONSTANTS s1, s2, b1, b2, p1, p2, x1, x2

AllPulp   == [s \in Sample |-> "pulp"]
OneClient == [s \in Sample |-> "client"]

\* Two charges in all: of two slots while there are no records, or of one slot
\* filled again.  No decision about a record reads a crucible but its own.
TwoCharges ==
    \/ \A b \in Batch, p, q \in Position : p # q => fills[b][p] = 0 \/ fills[b][q] = 0
    \/ /\ results = <<>> /\ readings = <<>>
       /\ \A b \in Batch, p \in Position : fills[b][p] <= 1

Interchangeable == Permutations(Session) \cup Permutations(Position)
=============================================================================
