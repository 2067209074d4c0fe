SPECIFICATION Spec
CONSTANTS
    N = 2
    Tricks = 1
    GameFile <- OneTrick
    Inputs <- Silence
    Connections = {c1, c2, c3}
    Droppers = {c1, c2}
    Garbage = Garbage
    MaxQueued = 1
    Free = Free
    c1 = c1
    c2 = c2
    c3 = c3
INVARIANT SeatGivenBack
CHECK_DEADLOCK FALSE
