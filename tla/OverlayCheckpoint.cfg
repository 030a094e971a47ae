\* Checkpoints and rebases under users, and crashes.
CONSTANTS
    a = a
    b = b
    x = x
    y = y
    Names = {a, b}
    Data = {y}
    Trees <- Linked
    MaxInode = 4
    MaxOps = 2
    MaxGens = 3
    MaxFaults = 1
SPECIFICATION Spec
INVARIANTS TypeOK NamesServed LinksCounted
PROPERTIES ViewIsTree QuietCheckpointCleans
CHECK_DEADLOCK FALSE
