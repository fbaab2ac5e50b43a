SPECIFICATION FairSpec
CONSTANTS
    k1 = k1
    k2 = k2
    p1 = p1
    p2 = p2
    p3 = p3
    early = early
    late = late
    Keys <- OneKey
    Slots <- TwoSlots
    NoSlot = NoSlot
    Overlap <- MCOverlap
    Requests <- TwoRequests
    KeysOf <- RetryKeysOf
    StaleAge = 2
PROPERTIES
    NobodyWaitsForEver
CHECK_DEADLOCK FALSE
