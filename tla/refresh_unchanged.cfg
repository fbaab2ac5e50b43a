SPECIFICATION Spec
CONSTANTS
    r1 = r1
    r2 = r2
    m1 = m1
    m2 = m2
    p1 = p1
    p2 = p2
    a = a
    a2 = a2
    b = b
    c = c
    Reservations <- OneReservation
    Slots <- TwoSlots
    NoSlot = NoSlot
    Overlap <- MCOverlap
    Matches <- OneMatch
    Reads <- OneRead
    MaxChanges = 0
    MaxTime = 1
INVARIANTS
    UnchangedRefreshSucceeds
