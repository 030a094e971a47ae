SPECIFICATION LeaseFairSpec
CONSTANTS
    s1 = s1
    s2 = s2
    Sessions = {s1, s2}
    Stealers = {s2}
    NoLease = NoLease
    TTL = 1
    PutLag = 0
    MaxTime = 1
    MaxStep = 0
    StealAttempts = 2
    Faults = FALSE
    Operator = FALSE
PROPERTIES LossIsNoticed
CHECK_DEADLOCK FALSE
