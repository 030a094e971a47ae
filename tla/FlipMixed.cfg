SPECIFICATION FlipSpec
CONSTANTS
    m1 = m1
    m2 = m2
    c1 = c1
    c2 = c2
    Sealers = {m1, m2}
    Flippers = {c1, c2}
    MaxGen = 3
    ReadFaults = FALSE
    PutFaults = TRUE
    ServesETags = TRUE
    Deletes = TRUE
INVARIANTS FlipTypeOK AckedSurvives
PROPERTIES HeadExtends
SYMMETRY WriterSymmetry
CHECK_DEADLOCK FALSE
