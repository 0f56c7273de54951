SPECIFICATION Spec
CONSTANTS
    s1 = s1  s2 = s2  b1 = b1  b2 = b2  p1 = p1  p2 = p2
    Sample = {s1}
    SampleType <- AllCore
    ClientOf <- OneClient
    Batch = {b1, b2}
    Position = {p1, p2}
    Material = {}
    Bead = {w1}
    Element = {e1}
    Digest = {d1}
    Nothing = Nothing
    Staff = {"supervisor", "client"}
    MaxResults = 2
    MaxReadings = 0
    MaxCertificates = 0
INVARIANTS StatusHasItsRecord TrayFollowsBatch NamedCrucibleMadeTheBead
PROPERTY FiredTrayIsFrozen
SYMMETRY FurnaceSymmetry
CHECK_DEADLOCK FALSE
