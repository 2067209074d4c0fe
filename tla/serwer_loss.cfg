SPECIFICATION Spec
CONSTANTS
    N = 2
    Tricks = 1
    GameFile <- OneTrick
    Inputs <- AnyTrick
    Connections = {c1, c2, c3}
    Droppers = {c1, c2}
    Garbage = Garbage
    MaxQueued = 0
    Free = Free
    c1 = c1
    c2 = c2
    c3 = c3
SYMMETRY LeaversAlike
INVARIANTS
    CardPlayedOnce
    ScanFindsBytes
    SeatExclusive
CHECK_DEADLOCK FALSE
