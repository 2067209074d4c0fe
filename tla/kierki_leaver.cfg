SPECIFICATION KSpec
CONSTANTS
    N = 2
    Tricks = 2
    GameFile <- TwoTricks
    Inputs <- AnyTrickOrGarbage
    Connections = {c1, c2, c3}
    Droppers = {c1, c2, c3}
    Leavers = {c1}
    LeaveOnTurn = TRUE
    Automatic = {c2, c3}
    Wishes <- FirstReplaced
    MaxTyped = 1
    MaxResends = 1
    MaxQueued = 3
    Garbage = Garbage
    NoCard = NoCard
    Free = Free
    c1 = c1
    c2 = c2
    c3 = c3
INVARIANTS
    KTypeOK
    HandKept
    TricksAgree
CHECK_DEADLOCK FALSE
