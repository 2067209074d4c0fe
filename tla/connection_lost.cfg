SPECIFICATION MCSpec
CONSTANTS
    N = 2
    Tricks = 1
    GameFile <- OneTrick
    Inputs <- TheirCards
    Connections = {c1, c2}
    Droppers = {}
    Setup = {"socket"}
    Garbage = Garbage
    MaxQueued = 0
    Free = Free
    c1 = c1
    c2 = c2
    MaxThreads = 0
PROPERTY FailureClosesServer
CHECK_DEADLOCK FALSE
