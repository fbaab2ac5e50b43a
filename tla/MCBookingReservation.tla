------------------------- MODULE MCBookingReservation -------------------------
(* Two overlapping slots of one court.                                       *)
EXTENDS BookingReservation, TLC
CONSTANTS k1, k2, p1, p2, p3, early, late
MCOverlap(s, t) == TRUE
TwoKeys == {k1, k2}
OneKey == {k1}
TwoSlots == {early, late}
\* A key sent twice, and a third request that sends it again or races it.
ThreeRequests == {p1, p2, p3}
RaceKeysOf == (p1 :> {k1}) @@ (p2 :> {k1}) @@ (p3 :> {k1, k2})
\* One key sent twice.
TwoRequests == {p1, p2}
RetryKeysOf == [p \in TwoRequests |-> {k1}]
RetrySymmetry == Permutations(TwoRequests)
=============================================================================
