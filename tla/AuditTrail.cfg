SPECIFICATION LockFairSpec
CONSTANTS
    Session = {x1, x2, x3}
    Content = {c1}
    Edited = {e1}
    Null = Null
    Hash <- PerfectHash
    MaxEvents = 3
    MaxAnchors = 1
    Samples = 2
    Reports = {{2}, {1, 2}}
INVARIANTS OneWriter ChainVerifies EditIsFound AnchorIsInTheTrail DeadlockTakesBothSides
PROPERTIES GrowsAtTheEnd EveryRequestEnds
CONSTRAINT SamplesApart
CHECK_DEADLOCK FALSE
