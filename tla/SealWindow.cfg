SPECIFICATION SealSpec
CONSTANTS
    s1 = s1
    s2 = s2
    Sessions = {s1, s2}
    Stealers = {}
    NoLease = NoLease
    TTL = 1
    PutLag = 0
    MaxTime = 1
    MaxStep = 0
    StealAttempts = 2
    Faults = TRUE
    Operator = FALSE
    MaxGen = 3
INVARIANTS  ConflictIsReal
 
SYMMETRY SessionSymmetry
CHECK_DEADLOCK FALSE
