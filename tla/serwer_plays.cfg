SPECIFICATION Spec
CONSTANTS
    N = 2
    Tricks = 2
    GameFile <- TwoTricks
    Inputs <- AnyTrick
    Connections = {c1, c2, c3}
    Droppers = {}
    Garbage = Garbage
    MaxQueued = 1
    Free = Free
    c1 = c1
    c2 = c2
    c3 = c3
SYMMETRY AllAlike
INVARIANTS
    TypeOK
    NoCardLost
    PlayedInTurn
    RequestIsCurrent
    TakenIsCurrent
    BarrierSynchronises
    BarrierCounts
    NoAbort
PROPERTY GameSpec
CHECK_DEADLOCK FALSE
