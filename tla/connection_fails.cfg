SPECIFICATION MCSpec
CONSTANTS
    N = 2
    Tricks = 1
    GameFile <- OneTrick
    Inputs <- TheirCards
    Connections = {c1, c2}
    Droppers = {c1}
    Setup = {"socket", "-1", "1"}
    Garbage = Garbage
    MaxQueued = 0
    Free = Free
    c1 = c1
    c2 = c2
    MaxThreads = 5
INVARIANT ThreadsAreJoined
PROPERTY PlayersAreDismissed
CHECK_DEADLOCK FALSE
