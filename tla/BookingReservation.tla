-------------------------- MODULE BookingReservation --------------------------
(***************************************************************************)
(* Booking a court: BookingReservationService.create, and the part of      *)
(* BookingReservationService.read that classifies an attempt without a     *)
(* provider record (backend/src/bookings/booking-reservation.service.ts),  *)
(* over the rows of PostgresCourtReservationRepository                     *)
(* (backend/src/database/postgres-court-reservation.repository.ts) and the *)
(* external YCLIENTS calendar.                                             *)
(*                                                                         *)
(* Several requests run at once, on any number of server instances; a      *)
(* client may send the same idempotency key again.  Every transaction is   *)
(* one action; between two of them other requests, the provider, the clock *)
(* and crashes take their steps.  A transaction may fail without effect,   *)
(* or commit and be reported as failed.                                    *)
(***************************************************************************)
EXTENDS ReservationRules, Integers

CONSTANTS
    Keys,           \* (owner, idempotency key): one operation, one reservation
    Slots,          \* a court from a start to an end
    NoSlot,         \* no slot
    Overlap(_, _),  \* the slots are on one court and share time
    Requests,       \* the POST requests ever received
    KeysOf,         \* the keys a request may carry
    StaleAge        \* STALE_PROVIDER_ATTEMPT_SECONDS, in clock ticks

ASSUME BookingAssumption ==
    /\ NoSlot \notin Slots
    /\ \A s \in Slots : Overlap(s, s)
    /\ \A s, t \in Slots : Overlap(s, t) => Overlap(t, s)
    /\ KeysOf \in [Requests -> SUBSET Keys]
    /\ StaleAge \in Nat \ {0}

VARIABLES
    status,     \* court_reservations.status by key; "unbooked": no row yet
    op,         \* the reservation_operations row by key
    hold,       \* the slot of the active reservation_slot_holds row, or NoSlot
    intents,    \* keys with a reservation_confirmed notification intent
    req,        \* the requests in progress
    post        \* external: the fate of the booking POST of each request

database == <<status, op, hold, intents>>
vars == <<status, op, hold, intents, req, post>>

-----------------------------------------------------------------------------
\* age: ticks since provider_attempt_started_at, or since created_at while the
\* attempt is not started; it counts up to StaleAge, where it is compared.
\* scans: reconciliation_attempts.
Operation ==
    [status : {"absent", "pending", "unknown", "confirmed", "rejected"},
     slot : Slots \cup {NoSlot}, started : BOOLEAN,
     age : 0..StaleAge, scans : 0..1]

Place ==
    {"idle", "lookup", "availability", "start", "preflight", "claim",
     "dispatch", "await", "confirm", "mark_unknown", "fallback", "reject",
     "stale_read", "stale_mark", "done", "crashed"}

Claim == {"not_attempted", "claimed", "already_started", "not_pending", "failed"}

Outcome ==
    {"none", "created", "idempotent_retry", "provider_rejected", "conflict",
     "not_bookable", "unavailable", "unknown"}

Request ==
    [pc : Place, key : Keys, slot : Slots, claim : Claim, outcome : Outcome]

\* external: the POST of a request; "created" once the calendar has a record.
Post == {"unsent", "sent", "created", "refused"}

TypeOK ==
    /\ status \in [Keys -> {"unbooked", "pending_confirmation", "unknown",
                            "confirmed", "rejected"}]
    /\ op \in [Keys -> Operation]
    /\ hold \in [Keys -> Slots \cup {NoSlot}]
    /\ intents \in SUBSET Keys
    /\ req \in [Requests -> Request]
    /\ post \in [Requests -> Post]

Init ==
    /\ status = [k \in Keys |-> "unbooked"]
    /\ op = [k \in Keys |-> [status |-> "absent", slot |-> NoSlot,
                             started |-> FALSE, age |-> 0, scans |-> 0]]
    /\ hold = [k \in Keys |-> NoSlot]
    /\ intents = {}
    /\ req \in [Requests -> {r \in Request :
                    /\ r.pc = "idle"
                    /\ r.claim = "not_attempted"
                    /\ r.outcome = "none"}]
    /\ \A p \in Requests : req[p].key \in KeysOf[p]
    /\ post = [p \in Requests |-> "unsent"]

-----------------------------------------------------------------------------
(* The rows.                                                               *)

\* mutant of SlotFree: only the very same slot counts as taken
SlotFreeExact(k, s) == \A j \in Keys \ {k} : hold[j] # s

\* The exclusion constraint reservation_slot_holds_no_overlap.
SlotFree(k, s) ==
    \A j \in Keys \ {k} : hold[j] # NoSlot => ~Overlap(hold[j], s)

\* mutant of HoldAfter: an uncertain reservation gives its court back
HoldUntilUncertain(k, next) == IF next = "confirmed" THEN hold[k] ELSE NoSlot

\* The hold of k once its reservation has the status next.
HoldAfter(k, next) == IF HoldsCourtSlot(next) THEN hold[k] ELSE NoSlot

\* persistTransition: the command on the create operation of k, its effect on
\* the reservation, and the release of the hold when the court is given back.
\* scans: reconciliation_attempts once the transaction is done.
Persist(k, command, scans) ==
    LET next == NextReservationStatus("create", command) IN
    /\ OperationMatches(status[k], "create", op[k].status)
    /\ Allowed(op[k].status, command)
    /\ HoldsCourtSlot(next) \/ hold[k] # NoSlot
    /\ op' = [op EXCEPT ![k].status = NextOperationStatus[command],
                        ![k].scans = scans]
    /\ status' = [status EXCEPT ![k] = next]
    /\ hold' = [hold EXCEPT ![k] = HoldAfter(k, next)]

\* finalizeStartedCreateOperation: only a pending operation whose attempt is
\* started, otherwise invalid_persisted_state.
Finalizable(k) == op[k].status = "pending" /\ op[k].started

\* mutant of Claimable: the attempt of another request is claimed again
ClaimableAgain(k) == op[k].status = "pending"

\* mutant of Claimable: whether the operation still pends is not looked at
ClaimableSettled(k) == ~op[k].started

\* claimProviderAttempt: the compare-and-set that lets one request dispatch.
Claimable(k) == op[k].status = "pending" /\ ~op[k].started

\* mutant of Stale: off by one
StaleLate(k) == op[k].age > StaleAge

\* The attempt is old enough to be given up.
Stale(k) == op[k].age >= StaleAge

\* external: the calendar has a record in a slot that overlaps s.
Occupied(s) ==
    \E q \in Requests : post[q] = "created" /\ Overlap(req[q].slot, s)

-----------------------------------------------------------------------------
(* BookingReservationService.create                                        *)

Go(p, place) == req' = [req EXCEPT ![p].pc = place]

Answer(p, outcome) ==
    req' = [req EXCEPT ![p].pc = "done", ![p].outcome = outcome]

\* The body is well formed and the profile has a complete contact.
Receive(p) ==
    /\ req[p].pc = "idle"
    /\ Go(p, "lookup")
    /\ UNCHANGED <<database, post>>

\* The stored operation decides: another digest is a conflict, an outcome is
\* answered again (terminalResult), a pending operation is tried again.
TerminalOutcome ==
    [confirmed |-> "idempotent_retry", rejected |-> "provider_rejected",
     unknown |-> "unknown"]

Retry(p, k) ==
    /\ op[k].status # "absent"
    /\ \/ op[k].slot # req[p].slot /\ Answer(p, "conflict")
       \/ /\ op[k].slot = req[p].slot
          /\ IF op[k].status = "pending" THEN Go(p, "preflight")
             ELSE Answer(p, TerminalOutcome[op[k].status])

Lookup(p) ==
    LET k == req[p].key IN
    /\ req[p].pc = "lookup"
    /\ \/ op[k].status = "absent" /\ Go(p, "availability")
       \/ Retry(p, k)
       \/ Answer(p, "unavailable")              \* the transaction failed
    /\ UNCHANGED <<database, post>>

\* A time is listed only while the calendar has it free; it may be missing
\* for a booking made elsewhere, and the call may fail.
Availability(p) ==
    /\ req[p].pc = "availability"
    /\ \/ ~Occupied(req[p].slot) /\ Go(p, "start")
       \/ \E outcome \in {"not_bookable", "unavailable"} : Answer(p, outcome)
    /\ UNCHANGED <<database, post>>

\* The second transaction looks the key up again; an overlapping active hold
\* makes the whole transaction fail.
Insert(p, k) ==
    /\ op[k].status = "absent"
    /\ CanStart(status[k], "create")
    /\ SlotFree(k, req[p].slot)
    /\ status' = [status EXCEPT ![k] = PendingStatus["create"]]
    /\ op' = [op EXCEPT ![k] = [status |-> "pending", slot |-> req[p].slot,
                                started |-> FALSE, age |-> 0, scans |-> 0]]
    /\ hold' = [hold EXCEPT ![k] = req[p].slot]
    /\ UNCHANGED intents
    /\ Go(p, "preflight") \/ Answer(p, "unavailable")  \* reported as failed

Start(p) ==
    LET k == req[p].key IN
    /\ req[p].pc = "start"
    /\ \/ Insert(p, k)
       \/ Retry(p, k) /\ UNCHANGED database
       \/ Answer(p, "unavailable") /\ UNCHANGED database
    /\ UNCHANGED post

\* YclientsBookingService.createBooking up to the dispatch guard.  Whatever
\* fails before the guard runs (a busy slot, a provider that is unavailable or
\* disabled, a saturated request queue) ends in the rejecting transaction.
Preflight(p) ==
    /\ req[p].pc = "preflight"
    /\ \/ ~Occupied(req[p].slot) /\ Go(p, "claim")
       \/ Go(p, "reject")
    /\ UNCHANGED <<database, post>>

\* The dispatch guard.
ClaimAttempt(p) ==
    LET k == req[p].key
        Claimed(claim, place, outcome) ==
            req' = [req EXCEPT ![p].claim = claim, ![p].pc = place,
                               ![p].outcome = outcome] IN
    /\ req[p].pc = "claim"
    /\ \/ /\ Claimable(k)
          /\ op' = [op EXCEPT ![k].started = TRUE, ![k].age = 0]
          /\ \/ Claimed("claimed", "dispatch", "none")
             \/ Claimed("failed", "done", "unavailable")   \* reported as failed
          /\ UNCHANGED <<status, hold, intents>>
       \/ /\ ~Claimable(k)
          /\ IF op[k].status = "pending"
             THEN Claimed("already_started", "stale_read", "none")
             ELSE Claimed("not_pending", "done", "unknown")
          /\ UNCHANGED database
       \/ Claimed("failed", "done", "unavailable") /\ UNCHANGED database
    /\ UNCHANGED post

\* The POST leaves, or fails before it leaves.
Dispatch(p) ==
    /\ req[p].pc = "dispatch"
    /\ \/ post' = [post EXCEPT ![p] = "sent"] /\ Go(p, "await")
       \/ UNCHANGED post /\ Go(p, "mark_unknown")
    /\ UNCHANGED database

\* mutant of Await: any answer to the POST counts as a booking
AwaitAnyAnswer(p) ==
    /\ req[p].pc = "await"
    /\ post[p] # "sent"
    /\ Go(p, "confirm")
    /\ UNCHANGED <<database, post>>

\* mutant of Await: no timeout
AwaitForEver(p) ==
    /\ req[p].pc = "await"
    /\ \/ post[p] = "created" /\ Go(p, "confirm")
       \/ post[p] = "refused" /\ Go(p, "mark_unknown")
    /\ UNCHANGED <<database, post>>

\* A 201 with a record, or anything else: a refusal, an error, a timeout.
Await(p) ==
    /\ req[p].pc = "await"
    /\ \/ post[p] = "created" /\ Go(p, "confirm")
       \/ Go(p, "mark_unknown")
    /\ UNCHANGED <<database, post>>

\* The binding and the notification intent are stored in one transaction.
Confirm(p) ==
    LET k == req[p].key IN
    /\ req[p].pc = "confirm"
    /\ \/ /\ Finalizable(k)
          /\ Persist(k, "confirm", op[k].scans)
          /\ intents' = intents \cup {k}
          /\ Answer(p, "created") \/ Go(p, "fallback")     \* reported as failed
       \/ Go(p, "fallback") /\ UNCHANGED database
    /\ UNCHANGED post

MarkUnknown(p) ==
    LET k == req[p].key IN
    /\ req[p].pc = "mark_unknown"
    /\ \/ /\ Finalizable(k)
          /\ Persist(k, "mark_unknown", op[k].scans)
          /\ UNCHANGED intents
          /\ Answer(p, "unknown") \/ Go(p, "fallback")     \* reported as failed
       \/ Go(p, "fallback") /\ UNCHANGED database
    /\ UNCHANGED post

\* persistUnknownAfterDispatch: one more try, whose failure is swallowed.
Fallback(p) ==
    LET k == req[p].key IN
    /\ req[p].pc = "fallback"
    /\ \/ Finalizable(k) /\ Persist(k, "mark_unknown", op[k].scans) /\ UNCHANGED intents
       \/ UNCHANGED database
    /\ Answer(p, "unknown")
    /\ UNCHANGED post

\* Nothing was claimed by this request: the operation is rejected and the
\* court given back, whatever another request claimed meanwhile.
Reject(p) ==
    LET k == req[p].key IN
    /\ req[p].pc = "reject"
    /\ \/ /\ Persist(k, "reject", op[k].scans)
          /\ UNCHANGED intents
          /\ \E outcome \in {"not_bookable", "unavailable", "unknown"} :
                Answer(p, outcome)
       \/ Answer(p, "unknown") /\ UNCHANGED database
    /\ UNCHANGED post

\* Another request claimed first: its attempt is read, ...
StaleRead(p) ==
    /\ req[p].pc = "stale_read"
    /\ \/ op[req[p].key].started /\ Stale(req[p].key) /\ Go(p, "stale_mark")
       \/ Answer(p, "unknown")
    /\ UNCHANGED <<database, post>>

\* ... and given up in a transaction of its own when it is old.
StaleMark(p) ==
    LET k == req[p].key IN
    /\ req[p].pc = "stale_mark"
    /\ \/ Persist(k, "mark_unknown", op[k].scans) /\ UNCHANGED intents
       \/ UNCHANGED database
    /\ Answer(p, "unknown")
    /\ UNCHANGED post

\* The process, or its host, dies.
Crash(p) ==
    /\ req[p].pc \notin {"idle", "done", "crashed"}
    /\ Go(p, "crashed")
    /\ UNCHANGED <<database, post>>

RequestStep(p) ==
    \/ Lookup(p) \/ Availability(p) \/ Start(p) \/ Preflight(p)
    \/ ClaimAttempt(p) \/ Dispatch(p) \/ Await(p) \/ Confirm(p)
    \/ MarkUnknown(p) \/ Fallback(p) \/ Reject(p) \/ StaleRead(p)
    \/ StaleMark(p)

-----------------------------------------------------------------------------
(* BookingReservationService.readCanonical without a provider binding.  The *)
(* first transaction of the read only selects which of the two follows, and *)
(* each of the two checks everything again under the row lock.  The listing *)
(* of provider records that comes after changes nothing: its result is not  *)
(* used.                                                                    *)

\* mutant of ReadClassify: an old attempt is rejected, dispatched or not
ReadClassifyRejects(k) ==
    /\ op[k].status = "pending"
    /\ Stale(k)
    /\ Persist(k, "reject", op[k].scans)
    /\ UNCHANGED <<intents, req, post>>

\* mutant of ReadClassify: an attempt that never started is left alone
ReadClassifyStarted(k) ==
    /\ op[k].status = "pending"
    /\ op[k].started
    /\ Stale(k)
    /\ Persist(k, "mark_unknown", 1)
    /\ UNCHANGED <<intents, req, post>>

\* An old pending attempt: rejected when the provider was never asked, and
\* otherwise unknown, with the only readback claimed.
ReadClassify(k) ==
    /\ op[k].status = "pending"
    /\ Stale(k)
    /\ IF op[k].started THEN Persist(k, "mark_unknown", 1)
                        ELSE Persist(k, "reject", op[k].scans)
    /\ UNCHANGED <<intents, req, post>>

\* claimUnknownCreateReconciliation
ReadClaimScan(k) ==
    /\ op[k].status = "unknown"
    /\ op[k].scans = 0
    /\ op' = [op EXCEPT ![k].scans = 1]
    /\ UNCHANGED <<status, hold, intents, req, post>>

-----------------------------------------------------------------------------
(* The surroundings.                                                       *)

\* external: the calendar handles a POST, whether or not anybody still waits.
ProviderCreates(p) ==
    /\ post[p] = "sent"
    /\ ~Occupied(req[p].slot)
    /\ post' = [post EXCEPT ![p] = "created"]
    /\ UNCHANGED <<database, req>>

ProviderRefuses(p) ==
    /\ post[p] = "sent"
    /\ post' = [post EXCEPT ![p] = "refused"]
    /\ UNCHANGED <<database, req>>

\* Time passes for every attempt that is not yet old.
Tick ==
    /\ \E k \in Keys : op[k].status = "pending" /\ ~Stale(k)
    /\ op' = [k \in Keys |->
                IF op[k].status = "pending" /\ ~Stale(k)
                THEN [op[k] EXCEPT !.age = @ + 1] ELSE op[k]]
    /\ UNCHANGED <<status, hold, intents, req, post>>

Next ==
    \/ \E p \in Requests :
          Receive(p) \/ RequestStep(p) \/ Crash(p)
             \/ ProviderCreates(p) \/ ProviderRefuses(p)
    \/ \E k \in Keys : ReadClassify(k) \/ ReadClaimScan(k)
    \/ Tick

Spec == Init /\ [][Next]_vars

\* A handler that is running takes its next step (every provider call has a
\* timeout and every transaction ends), the clock advances, and the player
\* opens the booking again while it is neither booked nor refused.
Fairness ==
    /\ \A p \in Requests : WF_vars(RequestStep(p))
    /\ \A k \in Keys : WF_vars(ReadClassify(k))
    /\ WF_vars(Tick)

FairSpec == Spec /\ Fairness

-----------------------------------------------------------------------------
(* Safety.                                                                 *)

\* The row of the reservation, the row of its operation and the row of its
\* hold are written by different statements of seven different transactions,
\* yet they always agree: the court is held exactly while the reservation says
\* so, and it is held for the slot the operation asked for.
RowsAgree ==
    \A k \in Keys :
        /\ OperationMatches(status[k], "create", op[k].status)
        /\ op[k].status = "absent" <=> status[k] = "unbooked"
        /\ op[k].status \in {"confirmed", "rejected"} => status[k] = op[k].status
        /\ hold[k] = IF HoldsCourtSlot(status[k]) THEN op[k].slot ELSE NoSlot

\* No two reservations ever hold overlapping slots.
NoDoubleHold ==
    \A j, k \in Keys :
        j # k /\ hold[j] # NoSlot /\ hold[k] # NoSlot => ~Overlap(hold[j], hold[k])

\* However often the client retries, whichever instances handle it and wherever
\* they crash, at most one booking POST ever leaves for one key.
AtMostOnePost ==
    \A p, q \in Requests :
        /\ post[p] # "unsent"
        /\ post[q] # "unsent"
        /\ req[p].key = req[q].key
        => p = q

\* A reservation is confirmed, and the player told so and notified, only on a
\* record that is in the calendar for exactly the slot that is held.
ConfirmedIsBooked ==
    \A k \in Keys :
        /\ op[k].status = "confirmed" =>
             \E p \in Requests : /\ post[p] = "created"
                                /\ req[p].key = k
                                /\ req[p].slot = hold[k]
        /\ k \in intents <=> op[k].status = "confirmed"
        /\ \A p \in Requests :
             /\ req[p].key = k
             /\ req[p].outcome \in {"created", "idempotent_retry"}
             => op[k].status = "confirmed"

\* While a POST of the key may still make a record, or has made one, the court
\* stays held for it.  It fails once a key is sent again (see README).
BookedIsHeld ==
    \A p \in Requests :
        post[p] \in {"sent", "created"} => hold[req[p].key] = req[p].slot

\* What holds of the promise above: once a request has claimed the attempt, no
\* reader, no late answer and no failed transaction gives the court back; only
\* the rejection of another request of the same key does.
ClaimStays ==
  \A p \in Requests :
     LET k == req[p].key IN
     req[p].claim = "claimed" /\ hold[k] # NoSlot /\ hold'[k] = NoSlot
       => \E q \in Requests \ {p} :
             req[q].key = k /\ req[q].pc = "reject" /\ req'[q].pc = "done"
ClaimedIsHeld == [][ClaimStays]_vars

\* A request that is answered with a refusal has sent no POST and never will;
\* "provider_rejected" is told only of an operation that is rejected, "conflict"
\* only of a key that stands for another request.  Of the player it says no
\* more: another request of his key may have been booked (see README).
RefusalIsBacked ==
    \A p \in Requests :
        LET k == req[p].key IN
        /\ req[p].outcome \in {"conflict", "not_bookable", "unavailable",
                               "provider_rejected"} => post[p] = "unsent"
        /\ req[p].outcome = "provider_rejected" => op[k].status = "rejected"
        /\ req[p].outcome = "conflict" =>
             op[k].status # "absent" /\ op[k].slot # req[p].slot

\* No request has claimed the attempt of k, and no POST of k has left.
Untouched(k) ==
    \A p \in Requests :
        req[p].key = k => req[p].claim # "claimed" /\ post[p] = "unsent"

\* An operation rejected before anybody claimed its attempt is rejected for
\* good: a request that stood between its preflight and its claim meanwhile, on
\* whatever instance, sends nothing any more.
RejectionStays ==
    \A k \in Keys :
        op[k].status = "rejected" /\ Untouched(k) => Untouched(k)'

\* An operation that reached its outcome never leaves it, an unknown one is
\* never rejected or confirmed by a late answer, and a used key stays used.
OutcomeStays ==
  \A k \in Keys :
     /\ op[k].status \in {"confirmed", "rejected", "unknown"}
           => op'[k].status = op[k].status
     /\ op[k].status # "absent" => op'[k].slot = op[k].slot
     /\ op[k].started => op'[k].started
OutcomeIsFinal == [][OutcomeStays]_vars

-----------------------------------------------------------------------------
(* Liveness.                                                               *)

\* Every request that was received is answered, unless its process dies.
EveryRequestAnswered ==
    \A p \in Requests :
        req[p].pc = "lookup" ~> req[p].pc \in {"done", "crashed"}

\* No crash leaves an attempt pending for ever: the court it holds is given
\* back, booked, or marked as uncertain.
NoAttemptPendsForever ==
    \A k \in Keys : op[k].status = "pending" ~> op[k].status # "pending"

\* Nobody waits for ever: not a request for its answer, whatever the provider
\* and the database do, and not an attempt for its outcome, whatever dies.
NobodyWaitsForEver == EveryRequestAnswered /\ NoAttemptPendsForever

-----------------------------------------------------------------------------
(* Refinement.                                                             *)

PromiseOf ==
    [unbooked |-> "none", pending_confirmation |-> "held", unknown |-> "held",
     confirmed |-> "booked", rejected |-> "closed"]

Ledger == INSTANCE CourtPromise WITH
    Holders <- Keys,
    promise <- [k \in Keys |-> PromiseOf[status[k]]],
    court <- hold

\* Booking keeps the promise: whatever requests, reads and crashes do, seen
\* through its rows the service only ever holds a free slot, books the held
\* slot, and gives a held slot back for good.
KeepsPromise == Ledger!Spec

\* The rows of a reservation, written by separate statements of seven
\* transactions, agree, and no court is held twice.
RowsAreSound == RowsAgree /\ NoDoubleHold

\* Answers rest on what happened: a confirmation, now or by a message, on a
\* record in the calendar, a refusal on a request that has sent nothing.
AnswersAreBacked == ConfirmedIsBooked /\ RefusalIsBacked

\* What was decided stays: outcomes are final, the court of a claimed attempt
\* is given back only by a retry that rejects it, and no POST follows the
\* rejection of an attempt that nobody had claimed.
CommitmentsStand == [][OutcomeStays /\ ClaimStays /\ RejectionStays]_vars
=============================================================================
