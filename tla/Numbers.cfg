SPECIFICATION IntakeSpec
CONSTANTS
    Session = {x1, x2}
    MaxAttempts = 5
    MaxNumber = 3
    Label <- Labels4m
    HoleOf <- Holes
    Interval <- Depths
    Project = {p1, p2}
    Depth = {3, NoDepth}
    NoHole = NoHole
    NoDepth = NoDepth
    MaxItems = 2
INVARIANTS NumbersHaveNoGap OnlyARaceFails OverlapNeedsARace FindsEveryOverlap
SYMMETRY Alike
CHECK_DEADLOCK FALSE
