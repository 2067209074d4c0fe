SPECIFICATION Spec
CONSTANTS
    Tricks = 3
    GameFile <- TwoDeals
    Deck <- SixCards
    SomeDeals <- UpToThree
INVARIANTS
    TypeOK
    ScoresMatchTricks
    TotalsAddUp
    WinnersTake
    AgreesWithRules
    
CHECK_DEADLOCK FALSE
