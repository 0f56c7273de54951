--------------------------- MODULE MCSampleCustody ---------------------------
(***************************************************************************)
(* Small laboratories for TLC.  Each instance turns on the parts one       *)
(* question is about; a bound of 0 keeps the other records out.            *)
(***************************************************************************)
EXTENDS SampleCustody, TLC

CONSTANTS s1, s2, b1, b2, p1, p2

AllPulp     == [s \in Sample |-> "pulp"]
AllCore     == [s \in Sample |-> "core"]
OneClient   == [s \in Sample |-> "client"]
TwoClients  == [s \in Sample |-> s]

\* The questions about certificates do not depend on how far the furnace got: keep
\* it cold, and the office at five rows of any kind.
ColdAndSmall ==
    /\ \A b \in Batch : batch[b] # "in_fusion"
    /\ Len(results) + Len(readings) + Len(certificates) <= 5

FurnaceSymmetry == Permutations(Batch) \cup Permutations(Position)
SampleSymmetry  == Permutations(Sample)
==============================================================================
