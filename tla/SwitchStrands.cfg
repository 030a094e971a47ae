SPECIFICATION SessionSpec
CONSTANTS
    Frontends = {"browse"}
    Conflicts = {}
    PressureAt = 2
    MaxWrites <- Writes
    MaxRepacks = 0
    MaxForeign = 0
    MaxFaults = 0
INVARIANTS NothingStrands
CHECK_DEADLOCK FALSE
