SPECIFICATION Spec
CONSTANTS
    main = main
    dev = dev
    c1 = c1
    v1 = v1
    Branches = {main, dev}
    Trunk = main
    Sealed = {main, dev}
    Repacked = {main}
    Forked = TRUE
    Deletable = {}
    Tags = {}
    Chunks = {c1}
    Grace = 1
    RetainK = 2
    LedgerRoom = 1
    SealLimit = 1
    MaxPacks = 4
    MaxGens = 5
    MaxTime = 3
 
PROPERTY WindowKept
CHECK_DEADLOCK FALSE
