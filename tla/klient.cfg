SPECIFICATION FairSpec
CONSTANTS
    N = 2
    Tricks = 2
    NoCard = NoCard
    Seats = {0, 1}
    Seat = 0
    Hand <- TwoCards
    Tables <- HeartLed
    TakenTables <- HeartsTaken
    MaxTyped = 2
    MaxSent = 4
    Unlocked = Unlocked
    Locked = Locked
INVARIANTS
    TypeOK
    CardForEveryByte
    TypedInOrder
    StatusTellsTheEnd
    AnswerIsRead
    ColourIsRead
    TakenIsRead
    HandIsRead
PROPERTY ClientEnds
CHECK_DEADLOCK FALSE
