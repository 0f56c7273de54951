SPECIFICATION Spec
CONSTANTS
    s1 = s1  s2 = s2  b1 = b1  b2 = b2  p1 = p1  p2 = p2
    Sample = {s1, s2}
    SampleType <- AllPulp
    ClientOf <- TwoClients
    Batch = {b1}
    Position = {p1}
    Material = {m1}
    Bead = {w1}
    Element = {e1}
    Digest = {d1}
    Nothing = Nothing
    Staff = {"lab_manager"}
    MaxResults = 3
    MaxReadings = 2
    MaxCertificates = 3
INVARIANTS TypeOK ResultsFormOneChain CertificatesDoNotBranch StaleIffNotCurrent UntouchedBeforeReady
PROPERTIES TerminalStatuses ImplementsRegister
CONSTRAINT ColdAndSmall
SYMMETRY SampleSymmetry
CHECK_DEADLOCK FALSE
