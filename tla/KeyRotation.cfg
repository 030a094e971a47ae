\* Two branches and one machine; one successor key, two stops, two sessions.
CONSTANTS
    NumBranches = 2
    Writer = w
    Readers = {}
    MaxKeys = 2
    MaxStops = 2
    MaxMounts = 2
    MaxSeals = 2
    MaxGens = 12
SPECIFICATION LiveSpec
INVARIANTS
    KeysKept
    CustodyUnbroken
    HeadsSignable
    WriterFollows
PROPERTIES
    PinNeverReturns
    
CHECK_DEADLOCK FALSE
