SPECIFICATION BothSpec
CONSTANTS
    r1 = r1
    r2 = r2
    m1 = m1
    m2 = m2
    p1 = p1
    p2 = p2
    a = a
    a2 = a2
    b = b
    c = c
    Reservations <- TwoReservations
    Slots <- AllSlots
    NoSlot = NoSlot
    Overlap <- MCOverlap
    Matches <- TwoMatches
    Reads <- TwoReads
    MaxChanges = 2
    MaxTime = 1
SYMMETRY Symmetry
INVARIANTS
    TypeOK
    CourtFollowsRow
    NewsIsTrue
PROPERTIES
    LateReadsAreHarmless
    KeepsPromise
