SPECIFICATION KFairSpec
CONSTANTS
    N = 3
    Tricks = 1
    GameFile <- TwoDeals
    Inputs <- AnyTrickOrGarbage
    Connections = {c1, c2, c3}
    Droppers = {}
    Leavers = {}
    LeaveOnTurn = TRUE
    Automatic = {c1, c2, c3}
    Wishes <- OwnSeats
    MaxTyped = 0
    MaxResends = 0
    MaxQueued = 3
    Garbage = Garbage
    NoCard = NoCard
    Free = Free
    c1 = c1
    c2 = c2
    c3 = c3
PROPERTIES
    GameFinishes
    GameSpec
CHECK_DEADLOCK FALSE
