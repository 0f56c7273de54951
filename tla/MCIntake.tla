------------------------------- MODULE MCIntake -------------------------------
(***************************************************************************)
(* Intake for TLC: two projects that may both register the one hole name,  *)
(* three intervals (one holds another and runs into the third), a surface  *)
(* label, and a total depth that one of the intervals exceeds.             *)
(***************************************************************************)
EXTENDS Intake, TLC

Labels4m == {"0_3", "1_2", "2_4", "soil"}
Holes    == [l \in Label |-> IF l = "soil" THEN NoHole ELSE "hole"]
Depths   == [l \in Label \ {"soil"} |->
                CASE l = "0_3" -> [from |-> 0, to |-> 3] [] l = "1_2" -> [from |-> 1, to |-> 2]
                  [] l = "2_4" -> [from |-> 2, to |-> 4]]

Alike == Permutations(Session) \cup Permutations(Project)
=============================================================================
