SPECIFICATION SeatsSpec
CONSTANTS
    a = a
    b = b
    c = c
    d = d
    Players <- FourPlayers
    Changing <- NoneChanging
    SeatSlots <- TwoSlots
    RatingMatch = FALSE
    MaxVersion = 5
    MaxEntries = 2
INVARIANTS
    OfferIsNeverStranded
CHECK_DEADLOCK FALSE
