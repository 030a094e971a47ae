SPECIFICATION LeaseSpec
CONSTANTS
    s1 = s1
    s2 = s2
    Sessions = {s1, s2}
    Stealers = {}
    NoLease = NoLease
    TTL = 2
    PutLag = 1
    MaxTime = 2
    MaxStep = 1
    StealAttempts = 2
    Faults = FALSE
    Operator = TRUE
INVARIANTS LeaseTypeOK 
 
SYMMETRY SessionSymmetry
CHECK_DEADLOCK FALSE
