SPECIFICATION RacesSpec
CONSTANTS
    s1 = s1  s2 = s2  b1 = b1  b2 = b2  p1 = p1  p2 = p2  x1 = x1  x2 = x2
    Sample = {s1}
    SampleType <- AllPulp
    ClientOf <- OneClient
    Batch = {b1}
    Position = {p1, p2}
    Material = {}
    Bead = {w1}
    Element = {}
    Digest = {d1}
    Nothing = Nothing
    Staff = {"analyst"}
    MaxResults = 1
    MaxReadings = 0
    MaxCertificates = 0
    Session = {x1, x2}
    MaxFills = 1
INVARIANT NamedCrucibleSurvives
PROPERTY UnracedTrayIsSettled
SYMMETRY Interchangeable
CHECK_DEADLOCK FALSE
