---------------------------- MODULE MCBenchFigures ----------------------------
(***************************************************************************)
(* One tray for TLC.  Beads of nothing, of the limit and of one and a half *)
(* of it, in portions of one and two assay tons; the middle bead puts a    *)
(* blank just at the threshold.                                            *)
(***************************************************************************)
EXTENDS BenchFigures, TLC

Beads       == {Whole(0), Ratio(1, 100), Ratio(3, 200)}
Portions    == {Ratio(175, 6), Ratio(175, 3)}
OneSilver   == {Ratio(1, 100)}
Limits      == {Ratio(1, 100)}
Lean        == [portion |-> Whole(30), amounts |-> [litharge |-> Whole(60), flour |-> Whole(2)]]
Rich        == [portion |-> Whole(25), amounts |-> [litharge |-> Whole(60), flour |-> Whole(3)]]
TwoRecipes  == {Lean, Rich}
First       == [value |-> Ratio(1, 3), uncertainty |-> Ratio(1, 50)]
Reissue     == [value |-> Ratio(1, 2), uncertainty |-> Ratio(1, 50)]
Certified   == {First, Reissue}
Flask       == Whole(10)
AtMiddle    == Ratio(12, 35)
Tolerance   == Whole(60)
Alike       == Permutations(Position)

\* A recipe matters while charging, a certified value when the dossier is read;
\* stock portions are all of the lighter weight.
EditsThatTell ==
    /\ phase # "charging" => recipe = Rich
    /\ phase # "completed" => certified = First
    /\ \A p \in Holding(Stock) : tray[p].portion = Ratio(175, 6)
=============================================================================
