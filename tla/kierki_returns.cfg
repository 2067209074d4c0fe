SPECIFICATION KFairSpec
CONSTANTS
    N = 2
    Tricks = 2
    GameFile <- TwoTricks
    Inputs <- AnyTrickOrGarbage
    Connections = {c1, c2, c3}
    Droppers = {c1}
    Leavers = {c1}
    LeaveOnTurn = TRUE
    Automatic = {c1, c2, c3}
    Wishes <- FirstReplaced
    MaxTyped = 0
    MaxResends = 0
    MaxQueued = 3
    Garbage = Garbage
    NoCard = NoCard
    Free = Free
    c1 = c1
    c2 = c2
    c3 = c3
INVARIANTS
    AskedInStep
    AnswersAreLegal
PROPERTIES
    GameSpec
    ReplacedGameFinishes
CHECK_DEADLOCK FALSE
