SPECIFICATION SeatsSpec
CONSTANTS
    a = a
    b = b
    c = c
    d = d
    Players <- FourPlayers
    Changing <- OneChanging
    SeatSlots <- TwoSlots
    RatingMatch = FALSE
    MaxVersion = 5
    MaxEntries = 2
INVARIANTS
    SeatsTypeOK
    PlacesAreExclusive
    FreeSlotIsPassedOn
    MatchRowIsTrue
PROPERTIES
    QueueIsFair
CHECK_DEADLOCK FALSE
