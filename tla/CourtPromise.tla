----------------------------- MODULE CourtPromise -----------------------------
(***************************************************************************)
(* What the reservation code promises about the courts of the club: a      *)
(* holder is promised a slot that nobody else is promised, keeps it while  *)
(* the outcome is open, may be moved once it is booked, and gives it back  *)
(* for good.  This is the abstract specification that BookingReservation   *)
(* and CourtRefresh implement.                                             *)
(***************************************************************************)
CONSTANTS Holders, Slots, NoSlot, Overlap(_, _)

VARIABLES
    promise,    \* "none", "held", "booked" or "closed", by holder
    court       \* the promised slot, or NoSlot

vars == <<promise, court>>

Exclusive ==
    \A j, k \in Holders :
        j # k /\ court[j] # NoSlot /\ court[k] # NoSlot
            => ~Overlap(court[j], court[k])

Free(k, s) ==
    \A j \in Holders \ {k} : court[j] # NoSlot => ~Overlap(court[j], s)

\* Any consistent set of promises.
Init ==
    /\ promise \in [Holders -> {"none", "held", "booked", "closed"}]
    /\ court \in [Holders -> Slots \cup {NoSlot}]
    /\ \A k \in Holders : court[k] # NoSlot <=> promise[k] \in {"held", "booked"}
    /\ Exclusive

Hold(k, s) ==
    /\ promise[k] = "none"
    /\ Free(k, s)
    /\ promise' = [promise EXCEPT ![k] = "held"]
    /\ court' = [court EXCEPT ![k] = s]

Book(k) ==
    /\ promise[k] = "held"
    /\ promise' = [promise EXCEPT ![k] = "booked"]
    /\ UNCHANGED court

Move(k, s) ==
    /\ promise[k] = "booked"
    /\ Free(k, s)
    /\ court' = [court EXCEPT ![k] = s]
    /\ UNCHANGED promise

Close(k) ==
    /\ promise[k] \in {"held", "booked"}
    /\ promise' = [promise EXCEPT ![k] = "closed"]
    /\ court' = [court EXCEPT ![k] = NoSlot]

Next ==
    \E k \in Holders :
        \/ Book(k)
        \/ Close(k)
        \/ \E s \in Slots : Hold(k, s) \/ Move(k, s)

Spec == Init /\ [][Next]_vars
=============================================================================
