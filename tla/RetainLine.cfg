SPECIFICATION Spec
CONSTANTS
    main = main
    dev = dev
    c1 = c1
    v1 = v1
    Branches = {main, dev}
    Trunk = main
    Sealed = {main}
    Repacked = {main}
    Forked = FALSE
    Deletable = {dev}
    Tags = {v1}
    Chunks = {c1}
    Grace = 1
    RetainK = 2
    LedgerRoom = 1
    SealLimit = 1
    MaxPacks = 4
    MaxGens = 4
    MaxTime = 3
INVARIANTS  LedgerFits
CHECK_DEADLOCK FALSE
