SPECIFICATION Spec
CONSTANTS
    k1 = k1
    k2 = k2
    p1 = p1
    p2 = p2
    p3 = p3
    early = early
    late = late
    Keys <- TwoKeys
    Slots <- TwoSlots
    NoSlot = NoSlot
    Overlap <- MCOverlap
    Requests <- ThreeRequests
    KeysOf <- RaceKeysOf
    StaleAge = 1
SYMMETRY RetrySymmetry
INVARIANTS
    TypeOK
    RowsAreSound
    AtMostOnePost
    AnswersAreBacked
PROPERTIES
    CommitmentsStand
    KeepsPromise
CHECK_DEADLOCK FALSE
