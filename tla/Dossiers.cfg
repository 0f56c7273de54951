SPECIFICATION FiguresSpec
CONSTANTS
    Nothing = Nothing
    Position = {p1, p2}
    Gold <- Beads
    Weight <- Portions
    Silver <- OneSilver
    Limit <- Limits
    Recipes <- TwoRecipes
    Certificates <- Certified
    Volume <- Flask
    Threshold <- AtMiddle
    MaxRpd <- Tolerance
INVARIANTS GradeTellsTheTruth MoreGoldNeverReadsLower RowGivesItsGradeAgain FluxFollowsPortion FinishesAgree DossierAgreesWithResult FlagsFollowTheGold
SYMMETRY Alike
CONSTRAINT EditsThatTell
CHECK_DEADLOCK FALSE
