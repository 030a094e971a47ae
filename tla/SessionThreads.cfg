SPECIFICATION LiveSpec
CONSTANTS
    Frontends = {"mount", "browse"}
    Conflicts = {"mount"}
    PressureAt = 2
    MaxWrites <- Writes
    MaxRepacks = 1
    MaxForeign = 1
    MaxFaults = 1
INVARIANTS AcknowledgedIsKept SealShowsWhatIsServed AnchorIsHead
PROPERTIES ExitEnds IdleSealHappens
CHECK_DEADLOCK FALSE
