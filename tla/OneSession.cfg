SPECIFICATION ConcurrentSpec
CONSTANTS
    s1 = s1  s2 = s2  b1 = b1  b2 = b2  p1 = p1  p2 = p2  x1 = x1  x2 = x2
    Sample = {s1}
    SampleType <- AllPulp
    ClientOf <- OneClient
    Batch = {b1}
    Position = {p1, p2}
    Material = {m1}
    Bead = {w1}
    Element = {e1}
    Digest = {d1}
    Nothing = Nothing
    Staff = {"lab_manager"}
    MaxResults = 2
    MaxReadings = 2
    MaxCertificates = 1
    Session = {x1}
    MaxFills = 2
CONSTRAINT TwoCharges
SYMMETRY Interchangeable
PROPERTY OneAtATime

CHECK_DEADLOCK FALSE
