SPECIFICATION FiguresSpec
CONSTANTS
    Nothing = Nothing
    Position = {p1, p2}
    Gold <- Beads
    Weight <- Portions
    Silver <- OneSilver
    Limit <- Limits
    Recipes <- TwoRecipes
    Certificates <- Certified
    Volume <- Flask
    Threshold <- AtMiddle
    MaxRpd <- Tolerance
INVARIANT DossierCanBeRead
CONSTRAINT EditsThatTell
SYMMETRY Alike
CHECK_DEADLOCK FALSE
