-------------------------- MODULE ReservationsProof -------------------------
(***************************************************************************)
(* What a court reservation, the cancellation of one, the payment of a     *)
(* training, the controlled run at the provider and the inbox of its       *)
(* signals keep, each with the inductive invariant its property needs.     *)
(***************************************************************************)
EXTENDS ReservationLifecycle, ReservationCancellation, Payments, ControlledRun,
        WebhookInbox, FiniteSetTheorems, TLAPS

-----------------------------------------------------------------------------
(* ReservationLifecycle.                                                   *)

\* An active operation explains the status of the reservation, and a booking
\* that is still being created has no record yet: what a failed or uncertain
\* change falls back to.
ActiveExplains ==
  \A o \in Operations : Active(o) =>
    /\ OperationMatches(reservation.status, operation[o].type, operation[o].status)
    /\ operation[o].type = "create" <=> reservation.binding = NoRecord

\* The inductive invariant.
LifecycleInv == TypeOK /\ ReservationIsExplained /\ ActiveExplains

USE DEF Active, ActiveOperationStatus, OperationMatches

\* A new reservation has no operation to explain it, and needs none.
LEMMA InitExplained == Init => LifecycleInv
<1> SUFFICES ASSUME Init PROVE LifecycleInv
  OBVIOUS
<1>1. PICK t \in Targets :
        /\ reservation = [status |-> "unbooked", target |-> t,
                          binding |-> NoRecord, updatedAt |-> 0, version |-> 1]
        /\ operation = [o \in Operations |-> [status |-> "absent", type |-> "create",
                                              target |-> t, createdAt |-> 0]]
  BY DEF Init
<1>2. 0 \in 0..MaxTime
  BY LifecycleAssumption
<1>3. TypeOK
  BY <1>1, <1>2
  DEF TypeOK, Reservation, Operation, ReservationStatus, OperationStatus, OperationType
<1>4. \A o \in Operations : ~Active(o)
  BY <1>1
<1>5. reservation.status = "unbooked" /\ reservation.binding = NoRecord
  BY <1>1
<1> QED BY <1>3, <1>4, <1>5
  DEF LifecycleInv, ReservationIsExplained, OneActiveOperation, StatusIsExplained,
      ConfirmedIsBound, ActiveExplains

\* What both functions leave in the rows: the operation o with its new status,
\* and a reservation with a new status, target and binding.
Left(o, row, status, target, binding, now) ==
  /\ operation' = [operation EXCEPT ![o] = row]
  /\ reservation' = [status |-> status, target |-> target, binding |-> binding,
                     updatedAt |-> now, version |-> reservation.version + 1]

\* Such a step keeps the invariant, if no other operation is active and the new
\* rows explain each other.
LEMMA LeftExplained ==
  ASSUME LifecycleInv,
         NEW o \in Operations, NEW row \in Operation, NEW status \in ReservationStatus,
         NEW target \in Targets, NEW binding \in Records \cup {NoRecord}, NEW now \in 0..MaxTime,
         Left(o, row, status, target, binding, now),
         \A q \in Operations : Active(q) => q = o,
         row.status \in {"pending", "unknown"} =>
           /\ OperationMatches(status, row.type, row.status)
           /\ row.type = "create" <=> binding = NoRecord,
         status \in {"unbooked", "rejected", "confirmed", "cancelled"}
           \/ row.status \in {"pending", "unknown"},
         status \in {"confirmed", "reschedule_pending", "cancel_pending", "cancelled"}
           => binding \in Records,
         status \in {"pending_confirmation", "rejected", "unbooked"} => binding = NoRecord
  PROVE  LifecycleInv'
<1>1. /\ reservation'.status = status /\ reservation'.binding = binding
      /\ reservation' \in Reservation
  <2>1. reservation.version + 1 \in Nat
    BY DEF LifecycleInv, TypeOK, Reservation
  <2> QED BY <2>1 DEF Left, Reservation
<1>2. /\ operation' \in [Operations -> Operation] /\ operation'[o] = row
      /\ \A q \in Operations : q # o => operation'[q] = operation[q]
  BY DEF Left, LifecycleInv, TypeOK
<1>3. TypeOK'
  BY <1>1, <1>2 DEF TypeOK
<1>4. \A q \in Operations : Active(q)' => q = o
  BY <1>2
<1>5. OneActiveOperation'
  BY <1>4 DEF OneActiveOperation
<1>6. ActiveExplains'
  BY <1>1, <1>2, <1>4 DEF ActiveExplains
<1>7. StatusIsExplained'
  BY <1>1, <1>2 DEF StatusIsExplained
<1>8. ConfirmedIsBound'
  BY <1>1 DEF ConfirmedIsBound
<1> QED BY <1>3, <1>5, <1>6, <1>7, <1>8 DEF LifecycleInv, ReservationIsExplained

\* An operation may start only where no other is active, and it leaves the
\* status that waits for it.
LEMMA StartExplained ==
  ASSUME LifecycleInv, NEW o \in Operations, NEW now \in 0..MaxTime,
         NEW type \in OperationType, NEW t \in Targets, Start(o, type, t, now)
  PROVE  LifecycleInv'
<1> DEFINE row == [status |-> "pending", type |-> type, target |-> t, createdAt |-> now]
<1>1. row \in Operation
  BY DEF Operation, OperationStatus
<1>2. /\ PendingStatus[type] \in ReservationStatus /\ StartTarget(type, t) \in Targets
      /\ reservation.binding \in Records \cup {NoRecord}
  BY DEF LifecycleInv, TypeOK, Reservation, PendingStatus, OperationType, ReservationStatus, StartTarget
<1>3. Left(o, row, PendingStatus[type], StartTarget(type, t), reservation.binding, now)
  <2>1. reservation \in Reservation
    BY DEF LifecycleInv, TypeOK
  <2>2. reservation' = [status |-> PendingStatus[type], target |-> StartTarget(type, t),
                        binding |-> reservation.binding, updatedAt |-> now,
                        version |-> reservation.version + 1]
    BY <2>1 DEF Start, Reservation
  <2> QED BY <2>2 DEF Start, Left
<1>4. \A q \in Operations : ~Active(q)
  BY DEF LifecycleInv, ActiveExplains, Start, CanStart, TypeOK, Operation, OperationType, PendingStatus
<1>5. /\ OperationMatches(PendingStatus[type], row.type, row.status)
      /\ row.type = "create" <=> reservation.binding = NoRecord
  BY LifecycleAssumption
  DEF LifecycleInv, ReservationIsExplained, ConfirmedIsBound, Start, CanStart
<1>6. /\ PendingStatus[type] \in {"confirmed", "reschedule_pending", "cancel_pending", "cancelled"}
           => reservation.binding \in Records
      /\ PendingStatus[type] \in {"pending_confirmation", "rejected", "unbooked"}
           => reservation.binding = NoRecord
  BY DEF LifecycleInv, ReservationIsExplained, ConfirmedIsBound, Start, CanStart, OperationType,
         PendingStatus
<1> HIDE DEF row
<1> QED BY <1>1, <1>2, <1>3, <1>4, <1>5, <1>6, LeftExplained DEF row

\* A command ends its operation, or leaves it uncertain; the reservation then
\* stands where it stood before, or where the proof puts it.
LEMMA TransitionExplained ==
  ASSUME LifecycleInv, NEW o \in Operations, NEW now \in 0..MaxTime,
         NEW command \in Command, Transition(o, command, now)
  PROVE  LifecycleInv'
<1> DEFINE row == [operation[o] EXCEPT !.status = NextOperationStatus[command]]
           type == operation[o].type
           status == NextReservationStatus(type, command)
           target == IF Moved(o, command) THEN operation[o].target ELSE reservation.target
<1>1. PICK proved \in Records \cup {NoRecord}, proofRecord \in Records \cup {NoRecord},
           proofOperation \in Operations :
        /\ IF command \in ConfirmingCommand
           THEN ValidProof(o, proved, proofRecord, proofOperation)
           ELSE proved = NoRecord /\ proofRecord = NoRecord /\ proofOperation = o
        /\ reservation' = [reservation EXCEPT
              !.status = status, !.target = IF Moved(o, command) THEN operation[o].target ELSE @,
              !.binding = IF Moved(o, command) THEN proved ELSE @,
              !.updatedAt = now, !.version = @ + 1]
  BY Zenon DEF Transition
<1> DEFINE binding == IF Moved(o, command) THEN proved ELSE reservation.binding
<1>2. /\ operation[o] \in Operation /\ type \in OperationType
      /\ reservation \in Reservation
  BY DEF LifecycleInv, TypeOK, Operation
<1>3. /\ row \in Operation /\ row.status = NextOperationStatus[command] /\ row.type = type
  BY <1>2 DEF Operation, OperationStatus, NextOperationStatus, Command
<1>4. status \in ReservationStatus /\ target \in Targets /\ binding \in Records \cup {NoRecord}
  BY <1>2 DEF NextReservationStatus, ReservationStatus, Operation, Reservation
<1>5. Left(o, row, status, target, binding, now)
  <2>1. operation' = [operation EXCEPT ![o] = row]
    BY <1>2 DEF Transition, LifecycleInv, TypeOK
  <2>2. reservation' = [status |-> status, target |-> target, binding |-> binding,
                        updatedAt |-> now, version |-> reservation.version + 1]
    BY <1>1, <1>2 DEF Reservation
  <2> QED BY <2>1, <2>2 DEF Left
<1>6. Active(o) /\ \A q \in Operations : Active(q) => q = o
  BY DEF Transition, Allowed, LifecycleInv, ReservationIsExplained, OneActiveOperation
<1>7. /\ operation[o].status \in {"pending", "unknown"}
      /\ operation[o].status = "pending" => reservation.status = PendingStatus[type]
      /\ type = "create" <=> reservation.binding = NoRecord
  BY <1>6 DEF LifecycleInv, ActiveExplains
<1>8. row.status \in {"pending", "unknown"} =>
        /\ OperationMatches(status, row.type, row.status)
        /\ row.type = "create" <=> binding = NoRecord
  BY <1>3, <1>7 DEF NextOperationStatus, Command, NextReservationStatus, Moved, ConfirmingCommand
<1>9. status \in {"unbooked", "rejected", "confirmed", "cancelled"} \/ row.status \in {"pending", "unknown"}
  BY <1>3 DEF NextOperationStatus, Command, NextReservationStatus, ConfirmingCommand
<1>10. /\ status \in {"confirmed", "reschedule_pending", "cancel_pending", "cancelled"}
            => binding \in Records
       /\ status \in {"pending_confirmation", "rejected", "unbooked"} => binding = NoRecord
  BY <1>1, <1>2, <1>7, LifecycleAssumption
  DEF NextReservationStatus, Moved, ConfirmingCommand, ValidProof, Reservation, OperationType
<1> HIDE DEF row, status, target, binding, type
<1> QED BY <1>3, <1>4, <1>5, <1>6, <1>8, <1>9, <1>10, LeftExplained

\* Every step keeps the invariant.
LEMMA StepExplained == LifecycleInv /\ [Next]_vars => LifecycleInv'
<1> SUFFICES ASSUME LifecycleInv, [Next]_vars PROVE LifecycleInv'
  OBVIOUS
<1>1. CASE Next
  <2>1. PICK o \in Operations, now \in 0..MaxTime :
          \/ \E type \in OperationType, t \in Targets : Start(o, type, t, now)
          \/ \E command \in Command : Transition(o, command, now)
    BY <1>1 DEF Next
  <2> QED BY <2>1, StartExplained, TransitionExplained
<1>2. CASE UNCHANGED vars
  BY <1>2 DEF vars, LifecycleInv, TypeOK, ReservationIsExplained, OneActiveOperation,
              StatusIsExplained, ConfirmedIsBound, ActiveExplains
<1> QED BY <1>1, <1>2

\* The invariant holds in every state of every behaviour.
THEOREM LifecycleInvariant == Spec => []LifecycleInv
  BY InitExplained, StepExplained, PTL DEF Spec

\* The rows of a reservation and of its operations stay well formed under
\* startReservationOperation and transitionReservationOperation.
THEOREM LifecycleIsTyped == Spec => []TypeOK
<1>1. LifecycleInv => TypeOK
  BY DEF LifecycleInv
<1> QED BY <1>1, LifecycleInvariant, PTL

\* Whatever callers present to the two functions, at most one operation is
\* active, it explains the status of the reservation, and a reservation that
\* has a court at the provider keeps the binding to its record.
THEOREM ReservationStaysExplained == Spec => []ReservationIsExplained
<1>1. LifecycleInv => ReservationIsExplained
  BY DEF LifecycleInv
<1> QED BY <1>1, LifecycleInvariant, PTL

\* A started operation is a new one, and the reservation is not cancelled.
LEMMA StartMovesNothing ==
  ASSUME LifecycleInv, NEW o \in Operations, NEW now \in 0..MaxTime,
         NEW type \in OperationType, NEW t \in Targets, Start(o, type, t, now)
  PROVE  OutcomeIsFinal /\ MovesOnlyWhenConfirmed
<1>1. OutcomeIsFinal
  BY DEF Start, OutcomeIsFinal, TerminalOperationStatus, CanStart, LifecycleInv, TypeOK
<1>2. reservation.binding \in Records => reservation'.target = reservation.target
  BY LifecycleAssumption
  DEF Start, StartTarget, CanStart, LifecycleInv, TypeOK, Reservation, ReservationIsExplained,
      ConfirmedIsBound
<1> QED BY <1>1, <1>2 DEF MovesOnlyWhenConfirmed

\* Only an active operation takes a command, and only a confirmed reschedule
\* puts a booked reservation elsewhere.
LEMMA TransitionMovesOnce ==
  ASSUME LifecycleInv, NEW o \in Operations, NEW now \in 0..MaxTime,
         NEW command \in Command, Transition(o, command, now)
  PROVE  OutcomeIsFinal /\ MovesOnlyWhenConfirmed
<1>1. /\ operation[o] \in Operation /\ operation[o].type \in OperationType
      /\ reservation \in Reservation /\ operation \in [Operations -> Operation]
  BY DEF LifecycleInv, TypeOK, Operation
<1>2. /\ operation[o].status \in {"pending", "unknown"} /\ Active(o)
      /\ operation' = [operation EXCEPT ![o].status = NextOperationStatus[command]]
      /\ OperationMatches(reservation.status, operation[o].type, operation[o].status)
  BY DEF Transition, Allowed
<1>3. OutcomeIsFinal
  BY <1>1, <1>2 DEF OutcomeIsFinal, TerminalOperationStatus, PendingStatus, OperationType
<1>4. reservation'.target = IF Moved(o, command) THEN operation[o].target ELSE reservation.target
  BY <1>1 DEF Transition, Reservation
<1>5. Moved(o, command) => operation'[o].status \in TerminalOperationStatus
  BY <1>1, <1>2 DEF Moved, ConfirmingCommand, NextOperationStatus, TerminalOperationStatus, Command, Operation
<1>6. reservation.binding \in Records /\ Moved(o, command) => operation[o].type = "reschedule"
  BY <1>1, <1>2, LifecycleAssumption
  DEF LifecycleInv, ActiveExplains, Moved, OperationType
<1> QED BY <1>2, <1>3, <1>4, <1>5, <1>6 DEF MovesOnlyWhenConfirmed

\* An operation keeps its outcome, a cancelled reservation never comes back,
\* and a booked one moves only when a reschedule to that place is confirmed.
THEOREM OnlyOutcomesEverMove == Spec => OnlyOutcomesMove
<1>1. LifecycleInv /\ [Next]_vars => [OutcomeIsFinal /\ MovesOnlyWhenConfirmed]_vars
  <2> SUFFICES ASSUME LifecycleInv, Next PROVE OutcomeIsFinal /\ MovesOnlyWhenConfirmed
    OBVIOUS
  <2>1. PICK o \in Operations, now \in 0..MaxTime :
          \/ \E type \in OperationType, t \in Targets : Start(o, type, t, now)
          \/ \E command \in Command : Transition(o, command, now)
    BY DEF Next
  <2> QED BY <2>1, StartMovesNothing, TransitionMovesOnce
<1> QED BY <1>1, LifecycleInvariant, PTL DEF Spec, OnlyOutcomesMove

-----------------------------------------------------------------------------
(* ReservationCancellation.                                                *)

-----------------------------------------------------------------------------
(* The inductive invariant.                                                *)

Names == (UNION {References[k] : k \in CancelKeys}) \cup {OwnReference}
Entry == [edit : Nat, deleted : BOOLEAN, named : BOOLEAN]
AskerRests == [pc : {"idle"}, answer : {"none", "cancelled", "rejected", "in_progress",
                                     "unknown", "blocked", "lost"}]
Steps == {"start", "delete", "reject", "read", "decide"}
AskerWorks == [pc : Steps, answer : {"none"}, key : CancelKeys, reference : Names, proof : BOOLEAN]

Typed ==
  /\ booked \in [status : {"confirmed", "cancel_pending", "cancelled", "unknown"},
                 version : Nat, edit : Nat, held : BOOLEAN]
  /\ cancelOp \in [CancelKeys -> [status : OperationStatus, reference : Names]]
  /\ asker \in [CancelRequests -> AskerRests \cup AskerWorks]
  /\ deletes \in [CancelKeys -> Nat]
  /\ entry \in Entry
  /\ reader \in [pc : {"idle"}] \cup [pc : {"record"}, version : Nat]
                \cup [pc : {"refresh"}, version : Nat, seen : Entry]

ActiveKey(k) == cancelOp[k].status \in ActiveOperationStatus

\* The row and its operations explain each other.
Explained ==
  /\ \A k \in CancelKeys : OperationMatches(booked.status, "cancel", cancelOp[k].status)
  /\ \A k, l \in CancelKeys : ActiveKey(k) /\ ActiveKey(l) => k = l
  /\ booked.status \in {"cancel_pending", "unknown"} => \E k \in CancelKeys : ActiveKey(k)

\* A request that got beyond its operation works for a pending one, alone.
AtWork(r) == asker[r].pc \in {"delete", "reject", "read", "decide"}

Alone ==
  /\ \A r \in CancelRequests : AtWork(r) => cancelOp[asker[r].key].status = "pending"
  /\ \A r, q \in CancelRequests : AtWork(r) /\ AtWork(q) /\ asker[r].key = asker[q].key => r = q

\* What has been deleted, and how often it was asked for.
DeletesCounted ==
  /\ \A r \in CancelRequests : asker[r].pc \in {"delete", "reject"} => deletes[asker[r].key] = 0
  /\ \A k \in CancelKeys :
       deletes[k] <= 1 /\ (cancelOp[k].status \in {"absent", "rejected"} => deletes[k] = 0)

\* A deletion that was seen has happened, and the court is kept until then.
Proved ==
  /\ \A r \in CancelRequests : asker[r].pc = "decide" /\ asker[r].proof => entry.deleted
  /\ reader.pc = "refresh" /\ reader.seen.deleted => entry.deleted
  /\ booked.held = HoldsCourtSlot(booked.status)
  /\ ~booked.held => entry.deleted
  /\ \A r \in CancelRequests : asker[r].answer = "cancelled" => booked.status = "cancelled"

CancelInv == Typed /\ Explained /\ Alone /\ DeletesCounted /\ Proved

USE DEF ActiveKey, ActiveOperationStatus, OperationMatches, AtWork, Steps

-----------------------------------------------------------------------------
(* The steps of a request.                                                 *)

\* A request that answers rests, and leaves the other requests alone.
LEMMA AnswersFacts ==
  ASSUME Typed, NEW r \in CancelRequests,
         NEW answer \in {"none", "cancelled", "rejected", "in_progress", "unknown", "blocked", "lost"},
         Answers(r, answer)
  PROVE  /\ asker' \in [CancelRequests -> AskerRests \cup AskerWorks]
         /\ asker'[r].pc = "idle" /\ asker'[r].answer = answer
         /\ \A q \in CancelRequests \ {r} : asker'[q] = asker[q]
<1>1. [pc |-> "idle", answer |-> answer] \in AskerRests
  BY DEF AskerRests
<1> QED BY <1>1 DEF Answers, Typed

\* A request that goes on keeps its key.
LEMMA EntersFacts ==
  ASSUME Typed, NEW r \in CancelRequests, asker[r].pc # "idle", NEW pc \in Steps, Enters(r, pc)
  PROVE  /\ asker' \in [CancelRequests -> AskerRests \cup AskerWorks]
         /\ asker'[r].pc = pc /\ asker'[r].answer = "none" /\ asker'[r].key = asker[r].key
         /\ \A q \in CancelRequests \ {r} : asker'[q] = asker[q]
<1>1. asker[r] \in AskerWorks
  BY DEF Typed, AskerRests, AskerWorks
<1>2. [asker[r] EXCEPT !.pc = pc] \in AskerWorks
  BY <1>1 DEF AskerWorks
<1> QED BY <1>1, <1>2 DEF Enters, Typed, AskerWorks

\* A request that only answers, with nothing untrue, keeps the invariant.
LEMMA AnsweredInv ==
  ASSUME CancelInv, NEW r \in CancelRequests,
         NEW answer \in {"none", "cancelled", "rejected", "in_progress", "unknown", "blocked", "lost"},
         Answers(r, answer), answer = "cancelled" => booked.status = "cancelled",
         UNCHANGED <<booked, cancelOp, deletes, entry, reader>>
  PROVE  CancelInv'
<1>1. /\ asker' \in [CancelRequests -> AskerRests \cup AskerWorks]
      /\ asker'[r].pc = "idle" /\ asker'[r].answer = answer
      /\ \A q \in CancelRequests \ {r} : asker'[q] = asker[q]
  BY AnswersFacts DEF CancelInv
<1>2. Typed' /\ Explained'
  BY <1>1 DEF CancelInv, Typed, Explained
<1>3. Alone'
  BY <1>1 DEF CancelInv, Alone
<1>4. DeletesCounted' /\ Proved'
  BY <1>1 DEF CancelInv, DeletesCounted, Proved
<1> QED BY <1>2, <1>3, <1>4 DEF CancelInv

\* Asking changes the request alone.
LEMMA AskInv ==
  ASSUME CancelInv, NEW r \in CancelRequests, NEW k \in CancelKeys, NEW reference \in References[k],
         AskCancel(r, k, reference)
  PROVE  CancelInv'
<1> DEFINE asked == [pc |-> "start", answer |-> "none", key |-> k, reference |-> reference,
                     proof |-> FALSE]
<1>1. asked \in AskerWorks
  BY DEF AskerWorks, Names
<1>2. /\ asker' \in [CancelRequests -> AskerRests \cup AskerWorks]
      /\ asker'[r].pc = "start" /\ asker'[r].answer = "none"
      /\ \A q \in CancelRequests \ {r} : asker'[q] = asker[q]
  BY <1>1 DEF AskCancel, CancelInv, Typed
<1>3. UNCHANGED <<booked, cancelOp, deletes, entry, reader>>
  BY DEF AskCancel
<1>4. Typed' /\ Explained'
  BY <1>2, <1>3 DEF CancelInv, Typed, Explained
<1>5. Alone'
  BY <1>2, <1>3 DEF CancelInv, Alone
<1>6. DeletesCounted' /\ Proved'
  BY <1>2, <1>3 DEF CancelInv, DeletesCounted, Proved
<1> QED BY <1>4, <1>5, <1>6 DEF CancelInv

\* The start of an operation: the booking is confirmed, so no other operation is
\* active, and no request works for the new one.
LEMMA StartedFacts ==
  ASSUME CancelInv, NEW k \in CancelKeys, NEW reference \in Names,
         MayStartCancel(k), Started(k, reference)
  PROVE  /\ booked' \in [status : {"cancel_pending"}, version : Nat, edit : Nat, held : BOOLEAN]
         /\ booked.status = "confirmed" /\ booked'.held = booked.held
         /\ cancelOp' \in [CancelKeys -> [status : OperationStatus, reference : Names]]
         /\ cancelOp[k].status = "absent" /\ cancelOp'[k].status = "pending"
         /\ \A l \in CancelKeys \ {k} : cancelOp'[l] = cancelOp[l]
         /\ \A l \in CancelKeys : ~ActiveKey(l)
         /\ \A q \in CancelRequests : ~AtWork(q)
<1>1. booked.status = "confirmed" /\ cancelOp[k].status = "absent"
  BY DEF MayStartCancel, CanStart
<1>2. [status |-> "pending", reference |-> reference] \in [status : OperationStatus, reference : Names]
  BY DEF OperationStatus
<1>3. \A l \in CancelKeys : ~ActiveKey(l)
  BY <1>1 DEF CancelInv, Explained, PendingStatus
<1>4. \A q \in CancelRequests : AtWork(q) => asker[q].key \in CancelKeys
  BY DEF CancelInv, Typed, AskerWorks, AskerRests
<1>5. \A q \in CancelRequests : ~AtWork(q)
  BY <1>3, <1>4 DEF CancelInv, Alone
<1>6. /\ cancelOp' \in [CancelKeys -> [status : OperationStatus, reference : Names]]
      /\ cancelOp'[k].status = "pending"
      /\ \A l \in CancelKeys \ {k} : cancelOp'[l] = cancelOp[l]
  BY <1>2 DEF Started, CancelInv, Typed
<1>7. booked' \in [status : {"cancel_pending"}, version : Nat, edit : Nat, held : BOOLEAN]
      /\ booked'.held = booked.held
  <2>1. booked \in [status : {"confirmed", "cancel_pending", "cancelled", "unknown"},
                    version : Nat, edit : Nat, held : BOOLEAN]
    BY DEF CancelInv, Typed
  <2>2. booked' = [booked EXCEPT !.status = "cancel_pending", !.version = @ + 1]
    BY DEF Started, PendingStatus
  <2>3. booked' = [status |-> "cancel_pending", version |-> booked.version + 1,
                   edit |-> booked.edit, held |-> booked.held]
    BY <2>1, <2>2
  <2>4. booked.version + 1 \in Nat /\ booked.edit \in Nat /\ booked.held \in BOOLEAN
    BY <2>1
  <2> QED BY <2>3, <2>4
<1> QED BY <1>1, <1>3, <1>5, <1>6, <1>7

\* The transaction that starts the operation, or answers from what it finds.
LEMMA StartCancellationInv ==
  ASSUME CancelInv, NEW r \in CancelRequests, StartCancel(r)
  PROVE  CancelInv'
<1> DEFINE k == asker[r].key
<1>1. asker[r] \in AskerWorks /\ k \in CancelKeys /\ asker[r].reference \in Names
  BY DEF StartCancel, CancelInv, Typed, AskerRests, AskerWorks
<1>2. UNCHANGED <<deletes, entry, reader>>
  BY DEF StartCancel
<1>3. CASE MayStartCancel(k) /\ Started(k, asker[r].reference)
           /\ (Answers(r, "blocked") \/ Enters(r, "delete"))
  <2>1. /\ booked' \in [status : {"cancel_pending"}, version : Nat, edit : Nat, held : BOOLEAN]
        /\ booked.status = "confirmed" /\ booked'.held = booked.held
        /\ cancelOp' \in [CancelKeys -> [status : OperationStatus, reference : Names]]
        /\ cancelOp[k].status = "absent" /\ cancelOp'[k].status = "pending"
        /\ \A l \in CancelKeys \ {k} : cancelOp'[l] = cancelOp[l]
        /\ \A l \in CancelKeys : ~ActiveKey(l)
        /\ \A q \in CancelRequests : ~AtWork(q)
    BY <1>1, <1>3, StartedFacts
  <2>2. /\ asker' \in [CancelRequests -> AskerRests \cup AskerWorks]
        /\ asker'[r].answer # "cancelled"
        /\ asker'[r].pc = "idle" \/ (asker'[r].pc = "delete" /\ asker'[r].key = k)
        /\ \A q \in CancelRequests \ {r} : asker'[q] = asker[q]
    <3>1. CASE Answers(r, "blocked")
      BY <3>1, AnswersFacts DEF CancelInv
    <3>2. CASE Enters(r, "delete")
      BY <3>2, EntersFacts DEF CancelInv, StartCancel
    <3> QED BY <1>3, <3>1, <3>2
  <2>3. Typed'
    BY <1>2, <2>1, <2>2 DEF CancelInv, Typed
  <2>4. Explained'
    BY <1>1, <2>1 DEF Explained, PendingStatus
  <2>5. Alone'
    BY <1>1, <2>1, <2>2 DEF Alone
  <2>6. DeletesCounted'
    BY <1>1, <1>2, <2>1, <2>2 DEF CancelInv, DeletesCounted
  <2>7. Proved'
    BY <1>2, <2>1, <2>2 DEF CancelInv, Proved, HoldsCourtSlot
  <2> QED BY <2>3, <2>4, <2>5, <2>6, <2>7 DEF CancelInv
<1>4. CASE UNCHANGED <<booked, cancelOp>> /\ \E answer \in {Remembered(k), "blocked"} : Answers(r, answer)
  <2>1. PICK answer \in {Remembered(k), "blocked"} : Answers(r, answer)
    BY <1>4
  <2>2. answer \in {"none", "cancelled", "rejected", "in_progress", "unknown", "blocked", "lost"}
        /\ (answer = "cancelled" => booked.status = "cancelled")
    BY <2>1 DEF Remembered
  <2> QED BY <1>2, <1>4, <2>1, <2>2, AnsweredInv
<1>5. \/ MayStartCancel(k) /\ Started(k, asker[r].reference)
           /\ (Answers(r, "blocked") \/ Enters(r, "delete"))
      \/ UNCHANGED <<booked, cancelOp>> /\ \E answer \in {Remembered(k), "blocked"} : Answers(r, answer)
  BY Zenon DEF StartCancel, MayDelete
<1> QED BY <1>3, <1>4, <1>5

\* The DELETE is sent for an operation that has sent none.
LEMMA DeleteInv ==
  ASSUME CancelInv, NEW r \in CancelRequests, Delete(r)
  PROVE  CancelInv'
<1> DEFINE k == asker[r].key
<1>1. asker[r] \in AskerWorks /\ k \in CancelKeys /\ asker[r].pc = "delete"
  BY DEF Delete, CancelInv, Typed, AskerRests, AskerWorks
<1>2. UNCHANGED <<booked, cancelOp, entry, reader>>
  BY DEF Delete
<1>3. PICK pc \in {"reject", "read"} : Enters(r, pc) /\ (pc = "reject" => UNCHANGED deletes)
        /\ (pc = "read" => deletes' = [deletes EXCEPT ![k] = @ + 1])
  BY DEF Delete
<1>4. /\ asker' \in [CancelRequests -> AskerRests \cup AskerWorks]
      /\ asker'[r].pc = pc /\ asker'[r].answer = "none" /\ asker'[r].key = k
      /\ \A q \in CancelRequests \ {r} : asker'[q] = asker[q]
  BY <1>1, <1>3, EntersFacts DEF CancelInv
<1>5. /\ deletes' \in [CancelKeys -> Nat] /\ deletes[k] = 0
      /\ \A l \in CancelKeys \ {k} : deletes'[l] = deletes[l]
      /\ deletes'[k] = IF pc = "read" THEN 1 ELSE 0
  BY <1>1, <1>3 DEF CancelInv, Typed, DeletesCounted
<1>6. Typed' /\ Explained'
  BY <1>2, <1>4, <1>5 DEF CancelInv, Typed, Explained
<1>7. Alone'
  BY <1>1, <1>2, <1>4 DEF CancelInv, Alone
<1>8. \A q \in CancelRequests \ {r} : AtWork(q) => asker[q].key # k /\ asker[q].key \in CancelKeys
  BY <1>1 DEF CancelInv, Alone, Typed, AskerRests, AskerWorks
<1>9. cancelOp[k].status = "pending"
  BY <1>1 DEF CancelInv, Alone
<1>10. DeletesCounted'
  BY <1>1, <1>2, <1>4, <1>5, <1>8, <1>9 DEF CancelInv, DeletesCounted
<1>11. Proved'
  BY <1>2, <1>4 DEF CancelInv, Proved
<1> QED BY <1>6, <1>7, <1>10, <1>11 DEF CancelInv

\* The read that follows sees a deletion only when there was one.
LEMMA ReadInv ==
  ASSUME CancelInv, NEW r \in CancelRequests, ReadExact(r)
  PROVE  CancelInv'
<1>1. asker[r] \in AskerWorks /\ asker[r].pc = "read"
  BY DEF ReadExact, CancelInv, Typed, AskerRests, AskerWorks
<1>2. UNCHANGED <<booked, cancelOp, deletes, entry, reader>>
  BY DEF ReadExact
<1>3. PICK proof \in BOOLEAN :
        /\ proof => entry.deleted
        /\ asker' = [asker EXCEPT ![r].pc = "decide", ![r].proof = proof]
  <2>1. PICK found \in BOOLEAN :
          asker' = [asker EXCEPT ![r].pc = "decide", ![r].proof = ProvesDeleted(r, found)]
    BY DEF ReadExact
  <2>2. ProvesDeleted(r, found) \in BOOLEAN /\ (ProvesDeleted(r, found) => entry.deleted)
    BY DEF ProvesDeleted
  <2> QED BY <2>1, <2>2
<1>4. [asker[r] EXCEPT !.pc = "decide", !.proof = proof] \in AskerWorks
  BY <1>1 DEF AskerWorks
<1>5. /\ asker' \in [CancelRequests -> AskerRests \cup AskerWorks]
      /\ asker'[r].pc = "decide" /\ asker'[r].answer = "none" /\ asker'[r].key = asker[r].key
      /\ asker'[r].proof = proof
      /\ \A q \in CancelRequests \ {r} : asker'[q] = asker[q]
  BY <1>1, <1>3, <1>4 DEF CancelInv, Typed, AskerWorks
<1>6. Typed' /\ Explained'
  BY <1>2, <1>5 DEF CancelInv, Typed, Explained
<1>7. Alone'
  BY <1>1, <1>2, <1>5 DEF CancelInv, Alone
<1>8. DeletesCounted'
  BY <1>2, <1>5 DEF CancelInv, DeletesCounted
<1>9. Proved'
  BY <1>2, <1>3, <1>5 DEF CancelInv, Proved
<1> QED BY <1>6, <1>7, <1>8, <1>9 DEF CancelInv

\* The last transaction of a request, for the command its proof allows.
LEMMA SettledInv ==
  ASSUME CancelInv, NEW r \in CancelRequests,
         NEW command \in {"reject", "confirm", "mark_unknown"},
         NEW answer \in {"rejected", "cancelled", "unknown"},
         asker[r].pc \in {"reject", "decide"}, Settles(r, command, answer),
         command = "reject" => asker[r].pc = "reject",
         command = "confirm" => entry.deleted,
         answer = "cancelled" => command = "confirm"
  PROVE  CancelInv'
<1> DEFINE k == asker[r].key
<1>1. k \in CancelKeys /\ AtWork(r) /\ cancelOp[k].status = "pending"
  BY DEF CancelInv, Typed, AskerRests, AskerWorks, Alone
<1>2. UNCHANGED <<deletes, entry, reader>>
  BY DEF Settles
<1>3. CASE UNCHANGED <<booked, cancelOp>> /\ Answers(r, "unknown")
  BY <1>2, <1>3, AnsweredInv
<1>4. CASE Transitioned(k, command) /\ (Answers(r, answer) \/ Answers(r, "unknown"))
  <2>1. PICK said \in {answer, "unknown"} : Answers(r, said)
    BY <1>4
  <2>2. /\ asker' \in [CancelRequests -> AskerRests \cup AskerWorks]
        /\ asker'[r].pc = "idle" /\ asker'[r].answer = said
        /\ \A q \in CancelRequests \ {r} : asker'[q] = asker[q]
    BY <2>1, AnswersFacts DEF CancelInv
  <2> DEFINE status == NextReservationStatus("cancel", command)
             opStatus == NextOperationStatus[command]
  <2>3. /\ status = CASE command = "reject" -> "confirmed" [] command = "confirm" -> "cancelled"
                      [] OTHER -> "unknown"
        /\ opStatus = CASE command = "reject" -> "rejected" [] command = "confirm" -> "confirmed"
                      [] OTHER -> "unknown"
    BY DEF NextReservationStatus, NextOperationStatus, ConfirmingCommand, Command
  <2>4. /\ booked' \in [status : {"confirmed", "cancelled", "unknown"},
                        version : Nat, edit : Nat, held : BOOLEAN]
        /\ booked'.status = status /\ booked'.held = HoldsCourtSlot(status)
    <3>1. booked \in [status : {"confirmed", "cancel_pending", "cancelled", "unknown"},
                      version : Nat, edit : Nat, held : BOOLEAN]
      BY DEF CancelInv, Typed
    <3>2. booked' = [booked EXCEPT !.status = status, !.version = @ + 1,
                                  !.held = HoldsCourtSlot(status)]
      BY <1>4 DEF Transitioned
    <3>3. status \in {"confirmed", "cancelled", "unknown"} /\ HoldsCourtSlot(status) \in BOOLEAN
      BY <2>3 DEF HoldsCourtSlot
    <3> HIDE DEF status
    <3>4. booked.version + 1 \in Nat /\ booked.edit \in Nat
      BY <3>1
    <3>5. booked' = [status |-> status, version |-> booked.version + 1, edit |-> booked.edit,
                     held |-> HoldsCourtSlot(status)]
      BY <3>1, <3>2
    <3> QED BY <3>3, <3>4, <3>5
  <2>5. /\ cancelOp' \in [CancelKeys -> [status : OperationStatus, reference : Names]]
        /\ cancelOp'[k].status = opStatus
        /\ \A l \in CancelKeys \ {k} : cancelOp'[l] = cancelOp[l]
    <3>1. [cancelOp[k] EXCEPT !.status = opStatus] \in [status : OperationStatus, reference : Names]
      BY <1>1, <2>3 DEF CancelInv, Typed, OperationStatus
    <3> QED BY <1>1, <1>4, <3>1 DEF Transitioned, CancelInv, Typed
  <2>6. \A l \in CancelKeys \ {k} : ~ActiveKey(l)
    BY <1>1 DEF CancelInv, Explained
  <2>7. booked.status = "cancel_pending"
    BY <1>1 DEF CancelInv, Explained, PendingStatus
  <2> HIDE DEF status, opStatus, k
  <2>8. Typed'
    BY <1>2, <2>2, <2>4, <2>5 DEF CancelInv, Typed
  <2>9. Explained'
    BY <1>1, <2>3, <2>4, <2>5, <2>6 DEF Explained, PendingStatus
  <2>10. \A q \in CancelRequests \ {r} : AtWork(q) => asker[q].key # k /\ asker[q].key \in CancelKeys
    BY <1>1 DEF CancelInv, Alone, Typed, AskerRests, AskerWorks, k
  <2>11. Alone'
    BY <2>2, <2>5, <2>10 DEF CancelInv, Alone
  <2>12. opStatus = "rejected" => deletes[k] = 0
    BY <2>3 DEF CancelInv, DeletesCounted, k
  <2>13. DeletesCounted'
    <3>1. \A q \in CancelRequests : asker'[q].pc \in {"delete", "reject"} => deletes'[asker'[q].key] = 0
      BY <1>2, <2>2 DEF CancelInv, DeletesCounted
    <3>2. \A l \in CancelKeys : deletes'[l] <= 1
      BY <1>2 DEF CancelInv, DeletesCounted
    <3>3. \A l \in CancelKeys : cancelOp'[l].status \in {"absent", "rejected"} => deletes'[l] = 0
      BY <1>2, <2>3, <2>5, <2>12 DEF CancelInv, DeletesCounted
    <3> QED BY <3>1, <3>2, <3>3 DEF DeletesCounted
  <2>14. Proved'
    BY <1>2, <2>2, <2>3, <2>4, <2>7 DEF CancelInv, Proved, HoldsCourtSlot
  <2> QED BY <2>8, <2>9, <2>11, <2>13, <2>14 DEF CancelInv
<1> QED BY <1>3, <1>4 DEF Settles

\* Both ends of a request settle its operation.
LEMMA DecideInv ==
  ASSUME CancelInv, NEW r \in CancelRequests, RejectCancel(r) \/ Decide(r)
  PROVE  CancelInv'
<1>1. CASE RejectCancel(r)
  BY <1>1, SettledInv DEF RejectCancel
<1>2. CASE Decide(r) /\ asker[r].proof
  <2>1. entry.deleted
    BY <1>2 DEF CancelInv, Proved, Decide
  <2> QED BY <1>2, <2>1, SettledInv DEF Decide
<1>3. CASE Decide(r) /\ ~asker[r].proof
  BY <1>3, SettledInv DEF Decide
<1> QED BY <1>1, <1>2, <1>3

-----------------------------------------------------------------------------
(* The calendar and the reader.                                            *)

\* A record that is deleted stays so, whatever arrives.
LEMMA EntryInv ==
  ASSUME CancelInv, entry' \in Entry, entry.deleted => entry'.deleted,
         UNCHANGED <<booked, cancelOp, asker, deletes, reader>>
  PROVE  CancelInv'
<1>1. Typed' /\ Explained' /\ Alone' /\ DeletesCounted'
  BY DEF CancelInv, Typed, Explained, Alone, DeletesCounted
<1>2. Proved'
  BY DEF CancelInv, Proved
<1> QED BY <1>1, <1>2 DEF CancelInv

\* A DELETE that arrives, and a change by staff.
LEMMA CalendarInv ==
  ASSUME CancelInv, (\E k \in CancelKeys : DeleteArrives(k)) \/ StaffEdits
  PROVE  CancelInv'
<1>1. entry \in Entry
  BY DEF CancelInv, Typed
<1>2. CASE \E k \in CancelKeys : DeleteArrives(k)
  <2>1. entry' \in Entry /\ (entry.deleted => entry'.deleted)
    BY <1>1, <1>2 DEF DeleteArrives, Entry
  <2>2. UNCHANGED <<booked, cancelOp, asker, deletes, reader>>
    BY <1>2 DEF DeleteArrives
  <2> QED BY <2>1, <2>2, EntryInv
<1>3. CASE StaffEdits
  <2>1. entry' \in Entry /\ (entry.deleted => entry'.deleted)
    BY <1>1, <1>3 DEF StaffEdits, Entry
  <2>2. UNCHANGED <<booked, cancelOp, asker, deletes, reader>>
    BY <1>3 DEF StaffEdits
  <2> QED BY <2>1, <2>2, EntryInv
<1> QED BY <1>2, <1>3

\* The reader cancels only what it saw deleted, when nothing is pending.
LEMMA ReaderInv ==
  ASSUME CancelInv, ReadBooking \/ ReadEntry \/ RefreshBooking
  PROVE  CancelInv'
<1>1. UNCHANGED <<cancelOp, asker, deletes, entry>>
  BY DEF ReadBooking, ReadEntry, RefreshBooking
<1>2. CASE UNCHANGED booked
  <2>1. Typed' /\ (reader'.pc = "refresh" /\ reader'.seen.deleted => entry.deleted)
    <3>1. CASE ReadBooking
      BY <1>1, <1>2, <3>1 DEF ReadBooking, CancelInv, Typed
    <3>2. CASE ReadEntry
      BY <1>1, <1>2, <3>2 DEF ReadEntry, CancelInv, Typed
    <3>3. CASE RefreshBooking
      BY <1>1, <1>2, <3>3 DEF RefreshBooking, NotReading, CancelInv, Typed
    <3> QED BY <3>1, <3>2, <3>3
  <2>2. Explained' /\ Alone' /\ DeletesCounted'
    BY <1>1, <1>2 DEF CancelInv, Explained, Alone, DeletesCounted
  <2>3. Proved'
    BY <1>1, <1>2, <2>1 DEF CancelInv, Proved
  <2> QED BY <2>1, <2>2, <2>3 DEF CancelInv
<1>3. CASE booked' # booked
  <2>1. RefreshBooking /\ MayRefresh /\ booked.status = "confirmed"
    BY <1>3 DEF ReadBooking, ReadEntry, RefreshBooking, MayRefresh
  <2>2. reader \in [pc : {"refresh"}, version : Nat, seen : Entry]
    BY <2>1 DEF RefreshBooking, CancelInv, Typed
  <2>3. booked' = [status |-> IF reader.seen.deleted THEN "cancelled" ELSE "confirmed",
                   version |-> booked.version + 1, edit |-> reader.seen.edit,
                   held |-> ~reader.seen.deleted] /\ reader' = [pc |-> "idle"]
    BY <1>3, <2>1 DEF RefreshBooking, NotReading
  <2>4. Typed'
    BY <1>1, <2>2, <2>3 DEF CancelInv, Typed, Entry
  <2>5. \A k \in CancelKeys : ~ActiveKey(k)
    BY <2>1 DEF CancelInv, Explained, PendingStatus
  <2>6. Explained'
    BY <1>1, <2>3, <2>5 DEF Explained
  <2>7. Alone' /\ DeletesCounted'
    BY <1>1 DEF CancelInv, Alone, DeletesCounted
  <2>8. Proved'
    BY <1>1, <2>1, <2>2, <2>3 DEF CancelInv, Proved, HoldsCourtSlot
  <2> QED BY <2>4, <2>6, <2>7, <2>8 DEF CancelInv
<1> QED BY <1>2, <1>3

-----------------------------------------------------------------------------
\* The invariant holds initially.
LEMMA CancelInitInv == CancellationInit => CancelInv
<1> SUFFICES ASSUME CancellationInit PROVE CancelInv
  OBVIOUS
<1>1. /\ booked = [status |-> "confirmed", version |-> 1, edit |-> 0, held |-> TRUE]
      /\ entry = [edit |-> 0, deleted |-> FALSE, named |-> TRUE]
      /\ reader = [pc |-> "idle"]
  BY DEF CancellationInit, NotReading
<1>2. /\ cancelOp \in [CancelKeys -> [status : OperationStatus, reference : Names]]
      /\ \A k \in CancelKeys : cancelOp[k].status = "absent"
  BY DEF CancellationInit, OperationStatus, Names
<1>3. /\ asker \in [CancelRequests -> AskerRests]
      /\ \A r \in CancelRequests : asker[r].pc = "idle" /\ asker[r].answer = "none"
  BY DEF CancellationInit, NotAsked, AskerRests
<1>4. deletes \in [CancelKeys -> Nat] /\ \A k \in CancelKeys : deletes[k] = 0
  BY DEF CancellationInit
<1>5. Typed
  BY <1>1, <1>2, <1>3, <1>4 DEF Typed, Entry
<1>6. Explained
  BY <1>1, <1>2 DEF Explained
<1>7. Alone /\ DeletesCounted
  BY <1>3, <1>4 DEF Alone, DeletesCounted
<1>8. Proved
  BY <1>1, <1>3 DEF Proved, HoldsCourtSlot
<1> QED BY <1>5, <1>6, <1>7, <1>8 DEF CancelInv

\* Every step keeps it.
LEMMA CancelStepInv == CancelInv /\ [CancellationNext]_cancelVars => CancelInv'
<1> SUFFICES ASSUME CancelInv, [CancellationNext]_cancelVars PROVE CancelInv'
  OBVIOUS
<1>1. CASE \E r \in CancelRequests :
             \E k \in CancelKeys : \E reference \in References[k] : AskCancel(r, k, reference)
  BY <1>1, AskInv
<1>2. CASE \E r \in CancelRequests : StartCancel(r) \/ Delete(r) \/ ReadExact(r)
  BY <1>2, StartCancellationInv, DeleteInv, ReadInv
<1>3. CASE \E r \in CancelRequests : RejectCancel(r) \/ Decide(r)
  BY <1>3, DecideInv
<1>4. CASE \E r \in CancelRequests : CancelCrash(r)
  <2>1. PICK r \in CancelRequests : CancelCrash(r)
    BY <1>4
  <2> QED BY <2>1, AnsweredInv DEF CancelCrash
<1>5. CASE (\E k \in CancelKeys : DeleteArrives(k)) \/ StaffEdits
  BY <1>5, CalendarInv
<1>6. CASE ReadBooking \/ ReadEntry \/ RefreshBooking
  BY <1>6, ReaderInv
<1>7. CASE UNCHANGED cancelVars
  BY <1>7 DEF cancelVars, CancelInv, Typed, Explained, Alone, DeletesCounted, Proved
<1> QED BY <1>1, <1>2, <1>3, <1>4, <1>5, <1>6, <1>7 DEF CancellationNext

\* The active operations are none, or one.
LEMMA OneOrNone == CancelInv => UnderOneOperation
<1> SUFFICES ASSUME CancelInv PROVE UnderOneOperation
  OBVIOUS
<1> DEFINE active == {k \in CancelKeys : cancelOp[k].status \in ActiveOperationStatus}
<1>1. CASE booked.status \in {"cancel_pending", "unknown"}
  <2>1. PICK k \in CancelKeys : ActiveKey(k)
    BY <1>1 DEF CancelInv, Explained
  <2>2. active = {k}
    BY <2>1 DEF CancelInv, Explained
  <2>3. Cardinality(active) = 1
    BY <2>2, FS_Singleton
  <2> QED BY <1>1, <2>3 DEF UnderOneOperation
<1>2. CASE booked.status \notin {"cancel_pending", "unknown"}
  <2>1. active = {}
    BY <1>2 DEF CancelInv, Explained, PendingStatus
  <2>2. Cardinality(active) = 0
    BY <2>1, FS_EmptySet
  <2> QED BY <1>2, <2>2 DEF UnderOneOperation
<1> QED BY <1>1, <1>2

\* However requests, lost answers, staff and readers cross: the court is given
\* back only on a deleted record, an operation sends one DELETE at most, and an
\* uncertain booking has one operation to explain it.
THEOREM CancellationStaysTrue == CancellationSpec => []CancellationIsTrue
<1>1. CancelInv => CancellationIsTrue
  <2> SUFFICES ASSUME CancelInv PROVE CancellationIsTrue
    OBVIOUS
  <2>1. ReleasedIsDeleted
    BY DEF CancelInv, Proved, ReleasedIsDeleted
  <2>2. AskedOnce
    BY DEF CancelInv, DeletesCounted, Alone, Proved, AskedOnce
  <2> QED BY <2>1, <2>2, OneOrNone DEF CancellationIsTrue
<1> QED BY <1>1, CancelInitInv, CancelStepInv, PTL DEF CancellationSpec

\* What the reservation, its calendar entry and its requests are made of.
CancelTyped ==
  /\ deleting \subseteq CancelKeys
  /\ \A k \in CancelKeys : cancelOp[k].reference \in References[k]
  /\ \A r \in CancelRequests :
       asker[r].pc \in Steps => asker[r].reference \in References[asker[r].key]

LEMMA CancelTypesHold ==
  ASSUME CancelInv, CancelTyped, [CancellationNext]_cancelVars PROVE CancelTyped'
<1> USE DEF CancelInv, Typed, CancelTyped, AskerRests, AskerWorks
<1>1. CASE UNCHANGED cancelVars
  BY <1>1 DEF cancelVars
<1>2. ASSUME NEW r \in CancelRequests, NEW k \in CancelKeys, NEW reference \in References[k],
             AskCancel(r, k, reference)
      PROVE  CancelTyped'
  <2>1. PICK row : row = [pc |-> "start", answer |-> "none", key |-> k,
                          reference |-> reference, proof |-> FALSE]
    OBVIOUS
  <2>2. asker' = [asker EXCEPT ![r] = row] /\ row.key = k /\ row.reference = reference
    BY <1>2, <2>1 DEF AskCancel
  <2> QED BY <1>2, <2>2 DEF AskCancel
<1> DEFINE Keep(q) == /\ asker'[q].pc \in Steps => asker[q].pc \in Steps
                      /\ asker'[q].reference = asker[q].reference
                      /\ asker'[q].key = asker[q].key
<1>0. ASSUME NEW r \in CancelRequests, asker[r].pc \in Steps,
             (\E answer : Answers(r, answer)) \/ Enters(r, "delete")
      PROVE  \A q \in CancelRequests : asker'[q].pc \in Steps => Keep(q)
  <2>1. ASSUME NEW answer, Answers(r, answer) PROVE \A q \in CancelRequests : asker'[q].pc \in Steps => Keep(q)
    <3>1. PICK row : row = [pc |-> "idle", answer |-> answer]
      OBVIOUS
    <3>2. asker' = [asker EXCEPT ![r] = row] /\ row.pc \notin Steps
      BY <2>1, <3>1 DEF Answers, Steps
    <3>3. \A q \in CancelRequests : q # r => asker'[q] = asker[q]
      BY <3>2
    <3>4. asker'[r].pc \notin Steps
      BY <3>2
    <3> QED BY <3>3, <3>4
  <2>2. CASE Enters(r, "delete")
    BY <1>0, <2>2 DEF Enters
  <2> QED BY <1>0, <2>1, <2>2
<1>3. ASSUME NEW r \in CancelRequests, StartCancel(r) PROVE CancelTyped'
  <2>1. asker[r].pc \in Steps /\ asker[r].key \in CancelKeys
    BY <1>3 DEF StartCancel
  <2>2. (\E answer : Answers(r, answer)) \/ Enters(r, "delete")
    BY <1>3 DEF StartCancel
  <2>3. deleting' = deleting
    BY <1>3 DEF StartCancel
  <2>4. CASE UNCHANGED cancelOp
    BY <1>0, <2>1, <2>2, <2>3, <2>4
  <2>5. CASE Started(asker[r].key, asker[r].reference)
    <3>1. PICK row : row = [status |-> "pending", reference |-> asker[r].reference]
      OBVIOUS
    <3>2. cancelOp' = [cancelOp EXCEPT ![asker[r].key] = row] /\ row.reference = asker[r].reference
      BY <2>5, <3>1 DEF Started
    <3> QED BY <1>0, <2>1, <2>2, <2>3, <3>2
  <2> QED BY <1>3, <2>4, <2>5 DEF StartCancel
<1>4. ASSUME NEW r \in CancelRequests, Delete(r) PROVE CancelTyped'
  BY <1>4 DEF Delete, Enters
<1>5. ASSUME NEW r \in CancelRequests, ReadExact(r) PROVE CancelTyped'
  BY <1>5 DEF ReadExact
<1>6. ASSUME NEW r \in CancelRequests, NEW command, NEW answer, asker[r].pc \in Steps,
             Settles(r, command, answer)
      PROVE  CancelTyped'
  <2>1. asker[r].key \in CancelKeys
    <3>1. asker[r] \in AskerRests \cup AskerWorks
      BY DEF AskerRests, AskerWorks
    <3> QED BY <1>6, <3>1 DEF Steps
  <2>4. \E word : Answers(r, word)
    BY <1>6 DEF Settles
  <2>2. deleting' = deleting
    BY <1>6 DEF Settles
  <2>3. \A k \in CancelKeys : cancelOp'[k].reference = cancelOp[k].reference
    BY <1>6 DEF Settles, Transitioned
  <2> QED BY <1>0, <1>6, <2>1, <2>2, <2>3, <2>4
<1>7. ASSUME NEW r \in CancelRequests, CancelCrash(r) PROVE CancelTyped'
  <2>1. asker[r].pc \in Steps /\ Answers(r, "lost")
    <3>1. asker[r] \in AskerRests \cup AskerWorks
      BY DEF AskerRests, AskerWorks
    <3> QED BY <1>7, <3>1 DEF CancelCrash, Steps
  <2>2. UNCHANGED <<cancelOp, deleting>>
    BY <1>7 DEF CancelCrash
  <2> QED BY <1>0, <2>1, <2>2
<1>8. ASSUME \/ \E k \in CancelKeys : DeleteArrives(k)
             \/ StaffEdits \/ ReadBooking \/ ReadEntry \/ RefreshBooking
      PROVE  CancelTyped'
  BY <1>8 DEF DeleteArrives, StaffEdits, ReadBooking, ReadEntry, RefreshBooking
<1> QED BY <1>1, <1>2, <1>3, <1>4, <1>5, <1>6, <1>7, <1>8 DEF CancellationNext, RejectCancel, Decide

\* CancellationTypeOK, of every number of requests, keys and references: no count
\* of edits passes its bound and a request keeps to the places of its code.
THEOREM CancellationIsTyped == CancellationSpec => []CancellationTypeOK
<1>1. CancellationInit => CancelTyped
  <2> SUFFICES ASSUME CancellationInit PROVE CancelTyped
    OBVIOUS
  <2>1. PICK op : op = [status |-> "absent", reference |-> OwnReference]
    OBVIOUS
  <2>2. \A k \in CancelKeys : cancelOp[k] = op /\ op.reference = OwnReference
    BY <2>1 DEF CancellationInit
  <2>3. PICK row : row = NotAsked
    OBVIOUS
  <2>4. \A r \in CancelRequests : asker[r] = row
    BY <2>3 DEF CancellationInit
  <2>5. row.pc \notin Steps
    BY <2>3 DEF NotAsked, Steps
  <2> QED BY <2>2, <2>4, <2>5, CancellationAssumption DEF CancellationInit, CancelTyped
<1>2. CancelInv /\ CancelTyped => CancellationTypeOK
  BY DEF CancelInv, Typed, CancelTyped, CancellationTypeOK, ReservationStatus
<1> QED BY <1>1, <1>2, CancelInitInv, CancelStepInv, CancelTypesHold, PTL DEF CancellationSpec

-----------------------------------------------------------------------------
(* Payments.                                                               *)

OpenStatus == {"pending", "unknown"}

\* The order names the attempt that is open, and the one that was charged.
OrderNames ==
  /\ order.status = "pending" =>
       order.active = NoAttempt
       \/ (order.active \in PaymentAttempts /\ attempt[order.active].status = "pending")
  /\ order.status \in Charged =>
       /\ order.active = NoAttempt /\ order.binding \in PaymentAttempts
       /\ charge[order.binding] = order.status

\* What an attempt says of its charge, and the order of the attempt.
Accounted(a) ==
  /\ attempt[a].status = "absent" => charge[a] = "none" /\ a \notin writes /\ a \notin answers
  /\ a \in answers => charge[a] # "none"
  /\ attempt[a].status \in OpenStatus => order.active = a /\ order.status = attempt[a].status
  /\ attempt[a].status \in {"confirmed", "rejected", "reconciled"} =>
       /\ attempt[a].result = charge[a] /\ charge[a] # "none"
       /\ charge[a] \in Charged =>
            order.active = NoAttempt /\ order.binding = a /\ order.status = charge[a]

PaymentInv ==
  /\ DOMAIN attempt = PaymentAttempts
  /\ \A a \in PaymentAttempts :
       attempt[a].status \in {"absent", "pending", "unknown", "confirmed", "rejected", "reconciled"}
  /\ charge \in [PaymentAttempts -> Settled \cup {"none"}]
  /\ writes \subseteq PaymentAttempts /\ answers \subseteq PaymentAttempts
  /\ OrderNames
  /\ \A a \in PaymentAttempts : Accounted(a)

LEMMA PaymentInitially == PaymentInit => PaymentInv
BY DEF PaymentInit, PaymentInv, OrderNames, Accounted, Settled, Charged, OpenStatus

\* A charge is of an open attempt, or of the one the order is bound to.
LEMMA ChargeIsNamed ==
  ASSUME PaymentInv, NEW a \in PaymentAttempts, charge[a] \in Charged
  PROVE  \/ attempt[a].status \in OpenStatus /\ order.active = a
         \/ order.active = NoAttempt /\ order.binding = a /\ order.status = charge[a]
BY DEF PaymentInv, Accounted, Charged, OpenStatus

LEMMA PaymentInvIsEnough == PaymentInv => MoneyIsAccountedFor
<1> SUFFICES ASSUME PaymentInv PROVE MoneyIsAccountedFor
  OBVIOUS
<1> DEFINE S == {a \in PaymentAttempts : charge[a] \in Charged}
<1>1. ASSUME NEW a \in S, NEW b \in S PROVE a = b
  BY ChargeIsNamed, PaymentAssumption
<1>2. Cardinality(S) <= 1
  <2>1. CASE S = {}
    BY <2>1, FS_EmptySet
  <2>2. CASE S # {}
    <3>1. PICK a : S = {a}
      BY <1>1, <2>2
    <3> QED BY <3>1, FS_Singleton
  <2> QED BY <2>1, <2>2
<1>3. order.status \in Charged => charge[order.binding] = order.status
  BY DEF PaymentInv, OrderNames
<1>4. ASSUME order.status = "pending", order.active = NoAttempt, NEW a \in PaymentAttempts
      PROVE  charge[a] \notin Charged
  BY <1>4, ChargeIsNamed, PaymentAssumption DEF Charged
<1>5. OpenAttemptIsNamed
  BY DEF OpenAttemptIsNamed, PaymentInv, Accounted, OpenStatus
<1> QED BY <1>2, <1>3, <1>4, <1>5 DEF MoneyIsAccountedFor, OrderTellsCharge

\* The order follows the attempt a, whose row is written with a status.
LEMMA AttemptWritten ==
  ASSUME PaymentInv, NEW a \in PaymentAttempts, NEW row, attempt' = [attempt EXCEPT ![a] = row],
         UNCHANGED <<charge, writes>>, answers' \subseteq answers,
         row.status \in {"pending", "unknown", "confirmed", "rejected", "reconciled"},
         \A b \in PaymentAttempts \ {a} : attempt[b].status \notin OpenStatus /\ charge[b] \notin Charged,
         OrderNames', Accounted(a)'
  PROVE  PaymentInv'
<1>1. \A b \in PaymentAttempts : attempt'[b] = IF b = a THEN row ELSE attempt[b]
  BY DEF PaymentInv
<1>2. ASSUME NEW b \in PaymentAttempts \ {a} PROVE Accounted(b)'
  BY <1>1 DEF PaymentInv, Accounted, OpenStatus
<1> QED BY <1>1, <1>2 DEF PaymentInv

\* While an attempt is open, or the order is free, no other has been charged.
LEMMA OthersAreIdle ==
  ASSUME PaymentInv, NEW a \in PaymentAttempts,
         \/ order.active = a /\ order.status \in OpenStatus
         \/ order.active = NoAttempt /\ order.status = "pending"
  PROVE  \A b \in PaymentAttempts \ {a} : attempt[b].status \notin OpenStatus /\ charge[b] \notin Charged
<1> SUFFICES ASSUME NEW b \in PaymentAttempts \ {a}
             PROVE  attempt[b].status \notin OpenStatus /\ charge[b] \notin Charged
  OBVIOUS
<1>1. attempt[b].status \notin OpenStatus
  BY PaymentAssumption DEF PaymentInv, Accounted
<1>2. charge[b] \notin Charged
  BY <1>1, ChargeIsNamed, PaymentAssumption DEF Charged, OpenStatus
<1> QED BY <1>1, <1>2

LEMMA StartInv ==
  ASSUME PaymentInv, NEW a \in PaymentAttempts, NEW now \in Readings, StartAttempt(a, now)
  PROVE  PaymentInv'
<1> DEFINE row == [status |-> "pending", createdAt |-> now]
<1>1. /\ order.active = NoAttempt /\ order.status = "pending" /\ attempt[a].status = "absent"
      /\ attempt' = [attempt EXCEPT ![a] = row] /\ UNCHANGED <<charge, writes, answers>>
      /\ order' = NextOrder("pending", now, a, NoAttempt)
  BY DEF StartAttempt, MayStart
<1>2. order'.status = "pending" /\ order'.active = a
  BY <1>1 DEF NextOrder
<1>3. row.status = "pending" /\ attempt'[a] = row
  BY <1>1 DEF PaymentInv
<1> HIDE DEF row
<1>4. OrderNames'
  BY <1>2, <1>3 DEF OrderNames, Charged
<1>5. Accounted(a)'
  BY <1>1, <1>2, <1>3 DEF PaymentInv, Accounted, OpenStatus
<1> QED BY <1>1, <1>3, <1>4, <1>5, OthersAreIdle, AttemptWritten

\* The outcome of an attempt is what the acquirer did.
LEMMA OutcomeInv ==
  ASSUME PaymentInv, NEW a \in PaymentAttempts, NEW now \in Readings, NEW row,
         attempt[a].status \in OpenStatus, charge[a] # "none",
         attempt' = [attempt EXCEPT ![a] = row],
         row.status \in {"confirmed", "rejected", "reconciled"}, row.result = charge[a],
         order' = OrderAfter(a, charge[a], now),
         UNCHANGED <<charge, writes>>, answers' \subseteq answers
  PROVE  PaymentInv'
<1>1. order.active = a /\ order.status \in OpenStatus
  BY DEF PaymentInv, Accounted
<1>2. attempt'[a] = row /\ charge[a] \in Settled
  BY DEF PaymentInv
<1>3. /\ order'.active = NoAttempt
      /\ charge[a] = "rejected" => order'.status = "pending"
      /\ charge[a] \in Charged => order'.status = charge[a] /\ order'.binding = a
  BY DEF OrderAfter, NextOrder, Charged
<1>4. charge[a] = "rejected" \/ charge[a] \in Charged
  BY <1>2 DEF Settled, Charged
<1>5. OrderNames'
  BY <1>3, <1>4 DEF OrderNames, Charged
<1>6. Accounted(a)'
  BY <1>2, <1>3, <1>4 DEF Accounted, OpenStatus
<1> QED BY <1>1, <1>5, <1>6, OthersAreIdle, AttemptWritten

LEMMA UnknownInv ==
  ASSUME PaymentInv, NEW a \in PaymentAttempts, NEW now \in Readings, MarkUnknown(a, now)
  PROVE  PaymentInv'
<1>1. PICK row : row = [status |-> "unknown", createdAt |-> attempt[a].createdAt, uncertainAt |-> now]
  OBVIOUS
<1>2. /\ attempt[a].status = "pending" /\ attempt' = [attempt EXCEPT ![a] = row]
      /\ order' = NextOrder("unknown", now, a, NoAttempt) /\ UNCHANGED <<charge, writes, answers>>
  BY <1>1 DEF MarkUnknown
<1>3. order.active = a /\ order.status \in OpenStatus
  BY <1>2 DEF PaymentInv, Accounted, OpenStatus
<1>4. row.status = "unknown" /\ attempt'[a] = row /\ order'.status = "unknown" /\ order'.active = a
  BY <1>1, <1>2 DEF NextOrder, PaymentInv
<1>5. OrderNames'
  BY <1>4 DEF OrderNames, Charged
<1>6. Accounted(a)'
  BY <1>2, <1>4 DEF PaymentInv, Accounted, OpenStatus
<1> QED BY <1>2, <1>3, <1>4, <1>5, <1>6, OthersAreIdle, AttemptWritten

LEMMA ReconcileInv ==
  ASSUME PaymentInv, NEW a \in PaymentAttempts, NEW now \in Readings, Reconcile(a, now)
  PROVE  PaymentInv'
<1>1. PICK row : row = [status |-> "reconciled", createdAt |-> attempt[a].createdAt,
                        uncertainAt |-> attempt[a].uncertainAt, terminalAt |-> now,
                        result |-> charge[a]]
  OBVIOUS
<1>2. /\ attempt[a].status \in OpenStatus /\ charge[a] # "none"
      /\ attempt' = [attempt EXCEPT ![a] = row] /\ order' = OrderAfter(a, charge[a], now)
      /\ UNCHANGED <<charge, writes, answers>>
  BY <1>1 DEF Reconcile, Reconcilable, Settled, OpenStatus
<1>3. row.status = "reconciled" /\ row.result = charge[a]
  BY <1>1
<1> QED BY <1>2, <1>3, OutcomeInv

LEMMA HearInv ==
  ASSUME PaymentInv, NEW a \in PaymentAttempts, NEW now \in Readings, HearResult(a, now)
  PROVE  PaymentInv'
<1>1. a \in answers /\ answers' = answers \ {a} /\ UNCHANGED <<charge, writes>>
  BY DEF HearResult
<1>2. CASE Answered(a, charge[a], now)
  <2>1. PICK row : row = [status |-> IF charge[a] = "rejected" THEN "rejected" ELSE "confirmed",
                          createdAt |-> attempt[a].createdAt, terminalAt |-> now,
                          result |-> charge[a]]
    OBVIOUS
  <2>2. /\ attempt[a].status \in OpenStatus /\ charge[a] # "none"
        /\ attempt' = [attempt EXCEPT ![a] = row] /\ order' = OrderAfter(a, charge[a], now)
    BY <1>1, <1>2, <2>1 DEF Answered, OpenStatus, PaymentInv, Accounted
  <2>3. row.status \in {"confirmed", "rejected"} /\ row.result = charge[a]
    BY <2>1
  <2> QED BY <1>1, <2>2, <2>3, OutcomeInv
<1>3. CASE UNCHANGED <<order, attempt>>
  BY <1>1, <1>3 DEF PaymentInv, OrderNames, Accounted, OpenStatus
<1> QED BY <1>2, <1>3 DEF HearResult

\* The acquirer settles an attempt once, while the order waits for it.
LEMMA TakeInv ==
  ASSUME PaymentInv, NEW a \in PaymentAttempts, TakeWrite(a)
  PROVE  PaymentInv'
<1>1. /\ a \in writes /\ writes' = writes \ {a} /\ answers' = answers \cup {a}
      /\ UNCHANGED <<order, attempt>> /\ attempt[a].status # "absent"
  BY DEF TakeWrite, PaymentInv, Accounted
<1>2. CASE charge[a] # "none"
  <2>1. charge' = charge
    BY <1>2 DEF TakeWrite
  <2> QED BY <1>1, <1>2, <2>1 DEF PaymentInv, OrderNames, Accounted, OpenStatus
<1>3. CASE charge[a] = "none"
  <2>1. PICK result \in Settled : charge' = [charge EXCEPT ![a] = result]
    BY <1>3 DEF TakeWrite
  <2>2. /\ charge' \in [PaymentAttempts -> Settled \cup {"none"}]
        /\ \A b \in PaymentAttempts : charge'[b] = IF b = a THEN result ELSE charge[b]
    BY <2>1 DEF PaymentInv
  <2>3. attempt[a].status \in OpenStatus /\ result # "none"
    BY <1>1, <1>3 DEF PaymentInv, Accounted, OpenStatus, Settled
  <2>4. order.active = a /\ a # NoAttempt
    BY <2>3, PaymentAssumption DEF PaymentInv, Accounted
  <2>5. OrderNames'
    BY <1>1, <2>2, <2>4 DEF PaymentInv, OrderNames
  <2>6. ASSUME NEW b \in PaymentAttempts PROVE Accounted(b)'
    BY <1>1, <2>2, <2>3 DEF PaymentInv, Accounted, OpenStatus
  <2> QED BY <1>1, <2>2, <2>5, <2>6 DEF PaymentInv
<1> QED BY <1>2, <1>3

LEMMA PaymentStep == PaymentInv /\ [PaymentNext]_paymentVars => PaymentInv'
<1> SUFFICES ASSUME PaymentInv, [PaymentNext]_paymentVars PROVE PaymentInv'
  OBVIOUS
<1>1. ASSUME NEW a \in PaymentAttempts, SendWrite(a) PROVE PaymentInv'
  BY <1>1 DEF SendWrite, PaymentInv, OrderNames, Accounted, OpenStatus
<1>2. ASSUME NEW a \in PaymentAttempts, LoseMessage(a) PROVE PaymentInv'
  BY <1>2 DEF LoseMessage, PaymentInv, OrderNames, Accounted, OpenStatus
<1>3. CASE UNCHANGED paymentVars
  BY <1>3 DEF paymentVars, PaymentInv, OrderNames, Accounted, OpenStatus
<1> QED BY <1>1, <1>2, <1>3, StartInv, UnknownInv, ReconcileInv, HearInv, TakeInv DEF PaymentNext

\* However answers are lost or late, an order is charged once at most, for the
\* attempt it names, and no open attempt is forgotten.
THEOREM MoneyIsAlwaysAccountedFor == PaymentSpec => []MoneyIsAccountedFor
BY PaymentInitially, PaymentStep, PaymentInvIsEnough, PTL DEF PaymentSpec

\* Orders and attempts stay what their validators accept.
LEMMA PaymentTypesHold ==
  ASSUME PaymentInv, PaymentTypeOK, [PaymentNext]_paymentVars PROVE PaymentTypeOK'
<1>1. CASE UNCHANGED paymentVars
  BY <1>1 DEF paymentVars, PaymentTypeOK, ValidOrder, ValidAttempt
<1>2. ASSUME NEW a \in PaymentAttempts, SendWrite(a) \/ TakeWrite(a) \/ LoseMessage(a)
      PROVE  PaymentTypeOK'
  BY <1>2 DEF SendWrite, TakeWrite, LoseMessage, PaymentTypeOK, ValidOrder, ValidAttempt, Settled
<1>3. ASSUME NEW a \in PaymentAttempts, NEW now \in Readings, StartAttempt(a, now) PROVE PaymentTypeOK'
  <2>1. PICK row : row = [status |-> "pending", createdAt |-> now]
    OBVIOUS
  <2>2. ValidAttempt(row) /\ attempt' = [attempt EXCEPT ![a] = row]
    BY <1>3, <2>1 DEF StartAttempt, ValidAttempt
  <2>3. ValidOrder(order)' /\ order'.at \in Readings
    BY <1>3 DEF StartAttempt, NextOrder, ValidOrder, Charged
  <2> QED BY <1>3, <2>2, <2>3 DEF StartAttempt, PaymentInv, PaymentTypeOK
<1>4. ASSUME NEW a \in PaymentAttempts, NEW now \in Readings, MarkUnknown(a, now) PROVE PaymentTypeOK'
  <2>1. PICK row : row = [status |-> "unknown", createdAt |-> attempt[a].createdAt, uncertainAt |-> now]
    OBVIOUS
  <2>2. ValidAttempt(row) /\ attempt' = [attempt EXCEPT ![a] = row]
    BY <1>4, <2>1 DEF MarkUnknown, InTime, ValidAttempt
  <2>3. ValidOrder(order)' /\ order'.at \in Readings
    BY <1>4 DEF MarkUnknown, NextOrder, ValidOrder, Charged
  <2> QED BY <1>4, <2>2, <2>3 DEF MarkUnknown, PaymentInv, PaymentTypeOK
<1>5. ASSUME NEW a \in PaymentAttempts, NEW now \in Readings, Reconcile(a, now) PROVE PaymentTypeOK'
  <2>1. PICK row : row = [status |-> "reconciled", createdAt |-> attempt[a].createdAt,
                          uncertainAt |-> attempt[a].uncertainAt, terminalAt |-> now,
                          result |-> Reconcilable(a)]
    OBVIOUS
  <2>2. ValidAttempt(row) /\ attempt' = [attempt EXCEPT ![a] = row]
    BY <1>5, <2>1 DEF Reconcile, InTime, ValidAttempt, PaymentTypeOK
  <2>3. ValidOrder(order)' /\ order'.at \in Readings
    BY <1>5, PaymentAssumption DEF Reconcile, OrderAfter, NextOrder, ValidOrder, Settled, Charged
  <2> QED BY <1>5, <2>2, <2>3 DEF Reconcile, PaymentInv, PaymentTypeOK
<1>6. ASSUME NEW a \in PaymentAttempts, NEW now \in Readings, HearResult(a, now) PROVE PaymentTypeOK'
  <2>1. charge[a] \in Settled
    BY <1>6 DEF HearResult, PaymentInv, Accounted
  <2>2. CASE Answered(a, charge[a], now)
    <3>1. PICK row : row = [status |-> IF charge[a] = "rejected" THEN "rejected" ELSE "confirmed",
                            createdAt |-> attempt[a].createdAt, terminalAt |-> now, result |-> charge[a]]
      OBVIOUS
    <3>2. ValidAttempt(row) /\ attempt' = [attempt EXCEPT ![a] = row]
      BY <2>2, <3>1 DEF Answered, InTime, ValidAttempt
    <3>3. ValidOrder(order)' /\ order'.at \in Readings
      BY <2>1, <2>2 DEF Answered, OrderAfter, NextOrder, ValidOrder, Settled, Charged
    <3> QED BY <1>6, <3>2, <3>3 DEF HearResult, PaymentInv, PaymentTypeOK
  <2>3. CASE UNCHANGED <<order, attempt>>
    BY <1>6, <2>3 DEF HearResult, PaymentTypeOK, ValidOrder, ValidAttempt
  <2> QED BY <1>6, <2>2, <2>3 DEF HearResult
<1> QED BY <1>1, <1>2, <1>3, <1>4, <1>5, <1>6 DEF PaymentNext

\* Every attempt and order that is stored passes the validators that read it.
THEOREM PaymentsAreTyped == PaymentSpec => []PaymentTypeOK
<1>1. PaymentInit => PaymentTypeOK
  <2> SUFFICES ASSUME PaymentInit PROVE PaymentTypeOK
    OBVIOUS
  <2>1. PICK row : row = [status |-> "absent"]
    OBVIOUS
  <2>2. ValidAttempt(row) /\ \A a \in PaymentAttempts : attempt[a] = row
    BY <2>1 DEF PaymentInit, ValidAttempt
  <2>3. PICK o : o = [status |-> "pending", active |-> NoAttempt, binding |-> NoAttempt, at |-> 0]
    OBVIOUS
  <2>4. order = o
    BY <2>3 DEF PaymentInit
  <2>5. order.at \in Readings
    BY <2>3, <2>4, PaymentAssumption DEF Readings
  <2>6. order.status = "pending" /\ order.binding = NoAttempt
    BY <2>3, <2>4
  <2>7. ValidOrder(order)
    BY <2>6 DEF ValidOrder, Charged
  <2> QED BY <2>2, <2>5, <2>7 DEF PaymentInit, PaymentTypeOK
<1> QED BY <1>1, PaymentInitially, PaymentStep, PaymentTypesHold, PTL DEF PaymentSpec

-----------------------------------------------------------------------------
(* ControlledRun.                                                          *)

BeforeBooking == {"availability_A", "preflight_A", "availability_B", "preflight_B", "create_A"}
Deleting == {"cancel_first", "exact_get_deleted", "bounded_list_deleted"}
AfterDeletion == {"cancel_repeat", "bounded_list_final"}
Testing == BeforeBooking \cup {"find_A", "exact_get_A", "bounded_list_A", "reschedule_B", "exact_get_B"}
             \cup Deleting \cup AfterDeletion
Cleaning == {"pre_delete_exact", "cancel_once", "post_delete_exact", "post_delete_list"}
RunPlaces == {"idle", "approve", "claim", "ended"} \cup Testing \cup Cleaning
Successes == {"passed", "cancelled_confirmed"}
Reports == {"unknown", "cleanup_required", "stopped"} \cup Successes

LaunchRow == [pc : RunPlaces, outcome : {"none", "blocked", "dead"} \cup Reports,
              holds : SUBSET Slots, unsure : BOOLEAN, gone : BOOLEAN]

ControlledTyped ==
  /\ record \in {"none", "A", "B", "deleted"}
  /\ flying \subseteq {"create", "move", "cancel"}
  /\ sent \in [create : Nat, clean : Nat]
  /\ launch \in [Programs -> LaunchRow]
  /\ \A l \in Programs : launch[l].pc # "ended" => launch[l].outcome = "none"

NoWriteFlies == "create" \notin flying /\ "move" \notin flying

\* The approval lets one program write; a booking is sent before it can move.
WritesAreRationed ==
  /\ sent.create <= 1 /\ sent.clean <= 1
  /\ sent.create = 0 => record = "none" /\ NoWriteFlies
  /\ "consumed" \notin files => sent.create = 0
  /\ "cleanup consumed" \notin files => sent.clean = 0
  /\ ~("create" \in flying /\ "move" \in flying)

\* Every slot the record is in, or may come to, is among these.
Covered(holds) ==
  /\ record \in Slots => record \in holds
  /\ "create" \in flying /\ record = "none" => "A" \in holds
  /\ "move" \in flying /\ record = "A" => "B" \in holds

\* The test in row x owns the approval; what it found out still holds.
Owns(x) == x.pc \in Testing \/ x.outcome \in Reports

TestStands(x) ==
  /\ x.pc \in BeforeBooking => sent.create = 0
  /\ x.pc = "find_A" => record # "B" /\ "move" \notin flying
  /\ x.pc \in {"exact_get_A", "bounded_list_A", "reschedule_B"} => NoWriteFlies /\ record \in {"A", "deleted"}
  /\ x.pc = "exact_get_B" /\ ~x.unsure => NoWriteFlies
  /\ x.pc \in Deleting => NoWriteFlies /\ record \in {"B", "deleted"}
  /\ x.pc = "bounded_list_deleted" /\ x.gone => record = "deleted"
  /\ x.pc \in AfterDeletion => NoWriteFlies /\ record = "deleted"
  /\ x.outcome \in Reports => Covered(x.holds)

SuccessStands(x) == x.outcome \in Successes => record = "deleted"

MayClean(x) == x.pc \in {"pre_delete_exact", "cancel_once"}
CleanupStands(x) ==
  /\ MayClean(x) => sent.clean = 0
  /\ x.pc = "post_delete_list" /\ x.gone => record = "deleted"

\* Each program keeps to its own places.
OneOwner ==
  /\ \A l \in Launches : Owns(launch[l]) => "consumed" \in files
  /\ \A l, k \in Launches : Owns(launch[l]) /\ Owns(launch[k]) => l = k
  /\ \A c \in Cleanups : MayClean(launch[c]) => "cleanup consumed" \in files
  /\ \A c, d \in Cleanups : MayClean(launch[c]) /\ MayClean(launch[d]) => c = d
  /\ \A l \in Launches : launch[l].pc \notin Cleaning
  /\ \A c \in Cleanups : launch[c].pc \notin Testing

ControlledInv ==
  /\ ControlledTyped /\ WritesAreRationed /\ OneOwner
  /\ \A l \in Launches : TestStands(launch[l])
  /\ \A c \in Cleanups : CleanupStands(launch[c])
  /\ \A p \in Programs : SuccessStands(launch[p])

LEMMA ControlledInitially == ControlledInit => ControlledInv
<1> SUFFICES ASSUME ControlledInit PROVE ControlledInv
  OBVIOUS
<1>1. PICK x : x = Running("idle")
  OBVIOUS
<1>2. x \in LaunchRow /\ x.pc = "idle" /\ x.outcome = "none"
  BY <1>1 DEF Running, LaunchRow, RunPlaces
<1>3. launch \in [Programs -> LaunchRow] /\ \A l \in Programs : launch[l] = x
  BY <1>1, <1>2 DEF ControlledInit
<1>4. ControlledTyped /\ WritesAreRationed
  BY <1>2, <1>3 DEF ControlledInit, ControlledTyped, WritesAreRationed, NoWriteFlies
<1>5. OneOwner
  BY <1>2, <1>3 DEF OneOwner, Owns, MayClean, Testing, BeforeBooking, Deleting, AfterDeletion, Reports, Successes,
                    Cleaning, Programs
<1>6. TestStands(x) /\ CleanupStands(x) /\ SuccessStands(x)
  BY <1>2 DEF TestStands, CleanupStands, SuccessStands, MayClean, BeforeBooking, Deleting, AfterDeletion, Reports,
              Successes
<1> QED BY <1>3, <1>4, <1>5, <1>6 DEF ControlledInv, Programs

LEMMA ControlledInvIsEnough == ControlledInv => HoldsAreHonest
<1> SUFFICES ASSUME ControlledInv PROVE HoldsAreHonest
  OBVIOUS
<1>1. ASSUME NEW l \in Launches, launch[l].outcome \notin {"none", "blocked", "dead"}
      PROVE  Endangered \subseteq launch[l].holds
  <2>1. launch[l].outcome \in Reports
    BY <1>1 DEF ControlledInv, ControlledTyped, LaunchRow, Programs
  <2>2. Covered(launch[l].holds)
    BY <2>1 DEF ControlledInv, TestStands
  <2> QED BY <2>2 DEF Endangered, Covered, Slots
<1>2. ASSUME NEW l \in Launches, launch[l].pc \in DOMAIN Writes
      PROVE  flying \cap {"create", "move"} = {}
  <2>1. launch[l].pc \in {"create_A", "reschedule_B", "cancel_first", "cancel_repeat", "cancel_once"}
    BY <1>2 DEF Writes
  <2>2. launch[l].pc # "cancel_once"
    BY DEF ControlledInv, OneOwner, Cleaning
  <2>3. TestStands(launch[l])
    BY DEF ControlledInv
  <2>4. NoWriteFlies
    BY <2>1, <2>2, <2>3
       DEF TestStands, BeforeBooking, Deleting, AfterDeletion, ControlledInv, WritesAreRationed
  <2> QED BY <2>4 DEF NoWriteFlies
<1> QED BY <1>1, <1>2 DEF HoldsAreHonest, ControlledInv, WritesAreRationed, SuccessStands, Successes

-----------------------------------------------------------------------------
\* The program l goes on in row q; the rows the others rely on stay true.
Turn(l, q) ==
  /\ launch' \in [Programs -> LaunchRow]
  /\ launch'[l] = q /\ \A k \in Programs \ {l} : launch'[k] = launch[k]
  /\ q.pc # "ended" => q.outcome = "none"

RowsTyped == record \in {"none", "A", "B", "deleted"} /\ flying \subseteq {"create", "move", "cancel"}
               /\ sent \in [create : Nat, clean : Nat]

LEMMA Turns ==
  ASSUME ControlledInv, NEW l \in Programs, NEW q, Turn(l, q), files \subseteq files',
         RowsTyped', WritesAreRationed', SuccessStands(q)',
         l \in Launches => q.pc \notin Cleaning /\ TestStands(q)',
         l \in Cleanups => q.pc \notin Testing /\ CleanupStands(q)',
         l \in Launches /\ Owns(q) =>
           "consumed" \in files' /\ \A k \in Launches \ {l} : ~Owns(launch[k]),
         l \in Cleanups /\ MayClean(q) =>
           "cleanup consumed" \in files' /\ \A k \in Cleanups \ {l} : ~MayClean(launch[k]),
         \A k \in Launches \ {l} : \A x \in LaunchRow :
           x = launch[k] => (TestStands(x) => TestStands(x)'),
         \A k \in Cleanups \ {l} : \A x \in LaunchRow :
           x = launch[k] => (CleanupStands(x) => CleanupStands(x)'),
         record = "deleted" => record' = "deleted"
  PROVE  ControlledInv'
<1>1. l \in Launches \/ l \in Cleanups
  BY DEF Programs
<1>2. ControlledTyped'
  BY DEF ControlledInv, ControlledTyped, Turn, RowsTyped
<1>3. OneOwner'
  BY <1>1, ControlledAssumption DEF ControlledInv, OneOwner, Turn, Programs, Owns, MayClean
<1>4. ASSUME NEW k \in Launches PROVE TestStands(launch[k])'
  <2>1. PICK x \in LaunchRow : x = launch'[k]
    BY DEF Turn, Programs
  <2>2. TestStands(x)'
    <3>1. CASE k = l
      BY <2>1, <3>1 DEF Turn
    <3>2. CASE k # l
      BY <2>1, <3>2 DEF Turn, Programs, ControlledInv
    <3> QED BY <3>1, <3>2
  <2> QED BY <2>1, <2>2 DEF TestStands
<1>5. ASSUME NEW k \in Cleanups PROVE CleanupStands(launch[k])'
  <2>1. PICK x \in LaunchRow : x = launch'[k]
    BY DEF Turn, Programs
  <2>2. CleanupStands(x)'
    <3>1. CASE k = l
      BY <2>1, <3>1 DEF Turn
    <3>2. CASE k # l
      BY <2>1, <3>2 DEF Turn, Programs, ControlledInv
    <3> QED BY <3>1, <3>2
  <2> QED BY <2>1, <2>2 DEF CleanupStands, MayClean
<1>6. ASSUME NEW p \in Programs PROVE SuccessStands(launch[p])'
  BY DEF SuccessStands, Turn, ControlledInv
<1> QED BY <1>2, <1>3, <1>4, <1>5, <1>6 DEF ControlledInv

\* A step that changes no row that a report depends on, except by deleting.
Benign ==
  /\ record' = record \/ (record \in Slots /\ record' = "deleted")
  /\ "create" \in flying' <=> "create" \in flying
  /\ "move" \in flying' <=> "move" \in flying
  /\ sent'.create = sent.create

LEMMA BenignStands ==
  ASSUME ControlledInv, Benign, NEW x
  PROVE  /\ TestStands(x) => TestStands(x)'
         /\ SuccessStands(x) => SuccessStands(x)'
         /\ sent'.clean = sent.clean /\ CleanupStands(x) => CleanupStands(x)'
         /\ record = "deleted" => record' = "deleted"
BY DEF Benign, TestStands, SuccessStands, CleanupStands, Covered, NoWriteFlies, Slots, MayClean

\* Nothing a test that does not own the approval has found out can change.
LEMMA StrangerStands ==
  ASSUME NEW x, ~Owns(x)
  PROVE  TestStands(x)'
BY DEF Owns, TestStands, Testing, BeforeBooking, Deleting, AfterDeletion

\* The rows of a program.
LEMMA RowIs ==
  ASSUME ControlledInv, NEW l \in Programs
  PROVE  /\ launch[l] \in LaunchRow /\ (launch[l].pc # "ended" => launch[l].outcome = "none")
         /\ l \in Launches \/ l \in Cleanups
         /\ l \in Launches => TestStands(launch[l]) /\ launch[l].pc \notin Cleaning
         /\ l \in Cleanups => CleanupStands(launch[l]) /\ launch[l].pc \notin Testing
         /\ SuccessStands(launch[l])
BY DEF ControlledInv, ControlledTyped, OneOwner, Programs

LEMMA EndedIs ==
  ASSUME NEW outcome \in {"blocked", "dead"} \cup Reports, NEW holds \in SUBSET Slots
  PROVE  /\ Ended(outcome, holds) \in LaunchRow /\ Ended(outcome, holds).pc = "ended"
         /\ Ended(outcome, holds).outcome = outcome /\ Ended(outcome, holds).holds = holds
<1> DEFINE r == Running("ended")
           x == [r EXCEPT !.outcome = outcome, !.holds = holds]
<1>1. r \in LaunchRow /\ r.pc = "ended"
  BY DEF Running, LaunchRow, RunPlaces
<1>2. Ended(outcome, holds) = x
  BY DEF Ended
<1> HIDE DEF r
<1>3. x \in LaunchRow /\ x.pc = "ended" /\ x.outcome = outcome /\ x.holds = holds
  BY <1>1 DEF LaunchRow
<1> QED BY <1>2, <1>3

LEMMA PlaceIs ==
  ASSUME NEW x \in LaunchRow, NEW pc \in RunPlaces
  PROVE  /\ [x EXCEPT !.pc = pc] \in LaunchRow /\ [x EXCEPT !.pc = pc].pc = pc
         /\ [x EXCEPT !.pc = pc].outcome = x.outcome /\ [x EXCEPT !.pc = pc].holds = x.holds
         /\ [x EXCEPT !.pc = pc].unsure = x.unsure /\ [x EXCEPT !.pc = pc].gone = x.gone
BY DEF LaunchRow

LEMMA MovesTo ==
  ASSUME ControlledInv, NEW l \in Programs, NEW q \in LaunchRow, launch' = [launch EXCEPT ![l] = q],
         q.pc # "ended" => q.outcome = "none"
  PROVE  Turn(l, q)
BY DEF ControlledInv, ControlledTyped, Turn

\* A run that cannot keep its evidence ends, and reports no success.
LEMMA EvidencedIs ==
  ASSUME ControlledInv, NEW l \in Programs, NEW next \in LaunchRow,
         next.pc # "ended" => next.outcome = "none", Evidenced(l, next)
  PROVE  \E q \in LaunchRow :
           /\ Turn(l, q)
           /\ \/ q = next
              \/ /\ q.pc = "ended" /\ q.outcome \in Reports \ Successes
                 /\ l \in Launches => q.holds = Slots
<1>1. CASE launch' = [launch EXCEPT ![l] = next]
  BY <1>1, MovesTo
<1>2. CASE launch' = [launch EXCEPT ![l] = Failed(l)]
  <2>1. PICK q : q = Failed(l)
    OBVIOUS
  <2>2. /\ q \in LaunchRow /\ q.pc = "ended" /\ q.outcome \in Reports \ Successes
        /\ l \in Launches => q.holds = Slots
    <3>1. PICK outcome \in {"unknown", "cleanup_required"}, holds \in SUBSET Slots :
            q = Ended(outcome, holds) /\ (l \in Launches => holds = Slots)
      <4>1. Slots \in SUBSET Slots /\ {"A"} \in SUBSET Slots
        BY DEF Slots
      <4>2. CASE l \in Launches
        <5>1. launch[l].pc # "pre_delete_exact"
          BY <4>2, RowIs DEF Cleaning
        <5> QED BY <2>1, <4>1, <4>2, <5>1 DEF Failed
      <4>3. CASE l \notin Launches /\ launch[l].pc = "pre_delete_exact"
        BY <2>1, <4>1, <4>3 DEF Failed
      <4>4. CASE l \notin Launches /\ launch[l].pc # "pre_delete_exact"
        BY <2>1, <4>1, <4>4 DEF Failed
      <4> QED BY <4>2, <4>3, <4>4
    <3>2. outcome \in Reports \ Successes
      BY DEF Reports, Successes
    <3> QED BY <3>1, <3>2, EndedIs
  <2>3. Turn(l, q)
    BY <1>2, <2>1, <2>2, MovesTo
  <2> QED BY <2>2, <2>3
<1> QED BY <1>1, <1>2 DEF Evidenced

\* A step of the test.
LEMMA TestGoes ==
  ASSUME ControlledInv, NEW l \in Launches, Owns(launch[l]), files \subseteq files',
         RowsTyped', WritesAreRationed', sent'.clean = sent.clean,
         record = "deleted" => record' = "deleted",
         NEW next \in LaunchRow, next.pc # "ended" => next.outcome = "none",
         Evidenced(l, next), next.pc \notin Cleaning, TestStands(next)', SuccessStands(next)'
  PROVE  ControlledInv'
<1>1. l \in Programs /\ l \notin Cleanups
  BY ControlledAssumption DEF Programs
<1>2. PICK q \in LaunchRow :
        /\ Turn(l, q)
        /\ \/ q = next
           \/ q.pc = "ended" /\ q.outcome \in Reports \ Successes /\ q.holds = Slots
  BY <1>1, EvidencedIs
<1>3. "consumed" \in files' /\ \A k \in Launches \ {l} : ~Owns(launch[k])
  BY DEF ControlledInv, OneOwner
<1>4. q.pc \notin Cleaning /\ TestStands(q)' /\ SuccessStands(q)'
  <2>1. CASE q = next
    BY <2>1
  <2>2. CASE q.pc = "ended" /\ q.outcome \in Reports \ Successes /\ q.holds = Slots
    BY <2>2 DEF Cleaning, TestStands, SuccessStands, Covered, Slots, BeforeBooking, Deleting, AfterDeletion
  <2> QED BY <1>2, <2>1, <2>2
<1>5. \A k \in Launches \ {l} : \A x \in LaunchRow : x = launch[k] => (TestStands(x) => TestStands(x)')
  BY <1>3, StrangerStands
<1>6. \A x : CleanupStands(x) => CleanupStands(x)'
  BY DEF CleanupStands, MayClean
<1> QED BY <1>1, <1>2, <1>3, <1>4, <1>5, <1>6, Turns

\* A step of the cleanup.
LEMMA CleanupGoes ==
  ASSUME ControlledInv, NEW c \in Cleanups, UNCHANGED files, RowsTyped', WritesAreRationed',
         \A k \in Cleanups \ {c} : \A x \in LaunchRow :
           x = launch[k] => (CleanupStands(x) => CleanupStands(x)'),
         record = "deleted" => record' = "deleted",
         \A x : TestStands(x) => TestStands(x)',
         NEW next \in LaunchRow, next.pc # "ended" => next.outcome = "none",
         Evidenced(c, next), next.pc \notin Testing, CleanupStands(next)', SuccessStands(next)',
         MayClean(next) => MayClean(launch[c])
  PROVE  ControlledInv'
<1>1. c \in Programs /\ c \notin Launches
  BY ControlledAssumption DEF Programs
<1>2. PICK q \in LaunchRow :
        Turn(c, q) /\ (q = next \/ (q.pc = "ended" /\ q.outcome \in Reports \ Successes))
  BY <1>1, EvidencedIs
<1>3. MayClean(q) => "cleanup consumed" \in files' /\ \A k \in Cleanups \ {c} : ~MayClean(launch[k])
  BY <1>2 DEF ControlledInv, OneOwner, MayClean
<1>4. q.pc \notin Testing /\ CleanupStands(q)' /\ SuccessStands(q)'
  <2>1. CASE q = next
    BY <2>1
  <2>2. CASE q.pc = "ended" /\ q.outcome \in Reports \ Successes
    BY <2>2 DEF Testing, CleanupStands, SuccessStands, MayClean, BeforeBooking, Deleting, AfterDeletion
  <2> QED BY <1>2, <2>1, <2>2
<1> QED BY <1>1, <1>2, <1>3, <1>4, Turns

LEMMA SameRows ==
  ASSUME ControlledInv, UNCHANGED <<record, flying, sent>>, files \subseteq files'
  PROVE  /\ Benign /\ RowsTyped' /\ WritesAreRationed'
BY DEF ControlledInv, ControlledTyped, RowsTyped, Benign, WritesAreRationed, NoWriteFlies

LEMMA TestReads ==
  ASSUME ControlledInv, NEW l \in Launches, NEW pc \in Testing, Reads(l, pc),
         NEW next \in LaunchRow, next.pc # "ended" => next.outcome = "none",
         Evidenced(l, next), next.pc \notin Cleaning, TestStands(next), SuccessStands(next)
  PROVE  ControlledInv'
<1>1. UNCHANGED <<files, record, flying, sent>> /\ Owns(launch[l])
  BY DEF Reads, At, Owns
<1>2. Benign /\ RowsTyped' /\ WritesAreRationed'
  BY <1>1, SameRows
<1>3. TestStands(next)' /\ SuccessStands(next)'
  BY <1>2, BenignStands
<1> QED BY <1>1, <1>2, <1>3, TestGoes

LEMMA CleanupReads ==
  ASSUME ControlledInv, NEW c \in Cleanups, NEW pc \in Cleaning, Reads(c, pc),
         NEW next \in LaunchRow, next.pc # "ended" => next.outcome = "none",
         Evidenced(c, next), next.pc \notin Testing, CleanupStands(next), SuccessStands(next),
         MayClean(next) => MayClean(launch[c])
  PROVE  ControlledInv'
<1>1. UNCHANGED <<files, record, flying, sent>>
  BY DEF Reads
<1>2. Benign /\ RowsTyped' /\ WritesAreRationed'
  BY <1>1, SameRows
<1>3. \A x : /\ TestStands(x) => TestStands(x)'
             /\ SuccessStands(x) => SuccessStands(x)'
             /\ CleanupStands(x) => CleanupStands(x)'
  BY <1>1, <1>2, BenignStands
<1> QED BY <1>1, <1>2, <1>3, CleanupGoes

-----------------------------------------------------------------------------
(* The steps of the test.                                                  *)

\* A program in a place of the test is a test, and owns the approval.
LEMMA AtTest ==
  ASSUME ControlledInv, NEW l \in Programs, launch[l].pc \in Testing
  PROVE  /\ l \in Launches /\ launch[l] \in LaunchRow /\ launch[l].outcome = "none"
         /\ TestStands(launch[l]) /\ Owns(launch[l]) /\ "consumed" \in files
<1>1. l \in Launches /\ launch[l].pc # "ended"
  BY RowIs DEF Testing, BeforeBooking, Deleting, AfterDeletion
<1> QED BY <1>1, RowIs DEF Owns, ControlledInv, OneOwner

LEMMA NoReport == "none" \notin Reports /\ "blocked" \notin Reports /\ "dead" \notin Reports
BY DEF Reports, Successes

LEMMA TestRuns ==
  ASSUME NEW pc, pc \in Testing
  PROVE  pc \in RunPlaces /\ pc \notin Cleaning /\ pc # "ended"
BY DEF Testing, RunPlaces, Cleaning, BeforeBooking, Deleting, AfterDeletion

LEMMA TestEnds ==
  ASSUME NEW outcome \in Reports, NEW holds \in SUBSET Slots
  PROVE  /\ Ended(outcome, holds) \in LaunchRow /\ Ended(outcome, holds).pc = "ended"
         /\ Ended(outcome, holds).outcome = outcome
         /\ Ended(outcome, holds).pc \notin Cleaning \cup Testing
         /\ Covered(holds) => TestStands(Ended(outcome, holds))
         /\ Covered(holds)' => TestStands(Ended(outcome, holds))'
         /\ outcome \notin Successes => SuccessStands(Ended(outcome, holds))
                                        /\ SuccessStands(Ended(outcome, holds))'
<1>1. PICK x : x = Ended(outcome, holds)
  OBVIOUS
<1>2. x \in LaunchRow /\ x.pc = "ended" /\ x.outcome = outcome /\ x.holds = holds
  BY <1>1, EndedIs
<1>3. x.pc \notin Cleaning \cup Testing
  BY <1>2 DEF Cleaning, Testing, BeforeBooking, Deleting, AfterDeletion
<1>4. /\ Covered(holds) => TestStands(x)
      /\ Covered(holds)' => TestStands(x)'
      /\ outcome \notin Successes => SuccessStands(x) /\ SuccessStands(x)'
  BY <1>2 DEF TestStands, SuccessStands, BeforeBooking, Deleting, AfterDeletion
<1> QED BY <1>1, <1>2, <1>3, <1>4 DEF Ended, Running

\* A read of the test: it goes on in next, or it ends with a report.
LEMMA TestMoves ==
  ASSUME ControlledInv, NEW l \in Programs, NEW pc \in Testing, Reads(l, pc),
         NEW next \in LaunchRow, next.pc \in Testing, next.outcome = "none", TestStands(next),
         Evidenced(l, next)
  PROVE  ControlledInv'
<1>1. l \in Launches
  BY AtTest DEF Reads, At
<1>2. SuccessStands(next)
  BY DEF SuccessStands, Successes
<1> QED BY <1>1, <1>2, TestRuns, TestReads

LEMMA TestReports ==
  ASSUME ControlledInv, NEW l \in Programs, NEW pc \in Testing, Reads(l, pc),
         NEW outcome \in Reports, NEW holds \in SUBSET Slots, Evidenced(l, Ended(outcome, holds)),
         Covered(holds), outcome \in Successes => record = "deleted"
  PROVE  ControlledInv'
<1>1. l \in Launches
  BY AtTest DEF Reads, At
<1>2. PICK next : next = Ended(outcome, holds)
  OBVIOUS
<1>3. /\ next \in LaunchRow /\ next.pc = "ended" /\ next.outcome = outcome /\ next.pc \notin Cleaning
      /\ TestStands(next)
  BY <1>2, TestEnds DEF TestStands
<1>4. SuccessStands(next)
  BY <1>3 DEF SuccessStands
<1> QED BY <1>1, <1>2, <1>3, <1>4, TestReads

LEMMA TestGoesOn ==
  ASSUME ControlledInv, NEW l \in Programs, NEW pc \in Testing, Reads(l, pc),
         NEW to \in Testing, Goes(l, to),
         to \in BeforeBooking => pc \in BeforeBooking,
         to # "find_A" /\ to # "exact_get_B" /\ to \notin {"bounded_list_deleted"},
         to \in {"exact_get_A", "bounded_list_A", "reschedule_B"} =>
           NoWriteFlies /\ record \in {"A", "deleted"},
         to \in Deleting => NoWriteFlies /\ record \in {"B", "deleted"},
         to \in AfterDeletion => NoWriteFlies /\ record = "deleted"
  PROVE  ControlledInv'
<1>1. launch[l].pc = pc
  BY DEF Reads, At
<1>2. launch[l] \in LaunchRow /\ launch[l].outcome = "none" /\ TestStands(launch[l])
  BY <1>1, AtTest
<1>3. PICK next : next = [launch[l] EXCEPT !.pc = to]
  OBVIOUS
<1>4. next \in LaunchRow /\ next.pc = to /\ next.outcome = "none"
  BY <1>2, <1>3, PlaceIs, TestRuns
<1>5. TestStands(next)
  BY <1>1, <1>2, <1>4, NoReport DEF TestStands
<1>6. Evidenced(l, next)
  BY <1>3 DEF Goes
<1> QED BY <1>4, <1>5, <1>6, TestMoves

LEMMA CheckSlotInv ==
  ASSUME ControlledInv, NEW l \in Programs, CheckSlot(l)
  PROVE  ControlledInv'
<1>1. PICK pc \in {"availability_A", "preflight_A", "availability_B", "preflight_B"} :
        /\ Reads(l, pc)
        /\ Goes(l, AfterRead[pc]) \/ launch' = [launch EXCEPT ![l] = Ended("stopped", Slots)]
        /\ AfterRead[pc] \in BeforeBooking
  BY DEF CheckSlot, AfterRead, BeforeBooking
<1>2. pc \in Testing /\ pc \in BeforeBooking /\ AfterRead[pc] \in Testing
  BY <1>1 DEF Testing, BeforeBooking
<1>3. CASE Goes(l, AfterRead[pc])
  BY <1>1, <1>2, <1>3, TestGoesOn DEF BeforeBooking, Deleting, AfterDeletion
<1>4. CASE launch' = [launch EXCEPT ![l] = Ended("stopped", Slots)]
  <2>1. "stopped" \in Reports /\ "stopped" \notin Successes /\ Slots \in SUBSET Slots /\ Covered(Slots)
    BY DEF Reports, Successes, Covered, Slots
  <2>2. Evidenced(l, Ended("stopped", Slots))
    BY <1>4 DEF Evidenced
  <2> QED BY <1>1, <1>2, <2>1, <2>2, TestReports
<1> QED BY <1>1, <1>3, <1>4

LEMMA ReadsOfA ==
  ASSUME ControlledInv, NEW l \in Programs,
         FindA(l) \/ ExactGetA(l) \/ BoundedListA(l)
  PROVE  ControlledInv'
<1>1. {"find_A", "exact_get_A", "bounded_list_A", "reschedule_B"} \subseteq Testing
      /\ {"unknown", "cleanup_required"} \subseteq Reports \ Successes /\ {"A"} \in SUBSET Slots
      /\ {"find_A", "exact_get_A", "bounded_list_A", "reschedule_B"}
           \cap (BeforeBooking \cup Deleting \cup AfterDeletion) = {}
  BY DEF Testing, Reports, Successes, Slots, BeforeBooking, Deleting, AfterDeletion
<1>2. ASSUME FindA(l) PROVE ControlledInv'
  <2>1. PICK outcome \in {"unknown", "cleanup_required"} :
          Reads(l, "find_A") /\ Evidenced(l, Ended(outcome, {"A"}))
    BY <1>2 DEF FindA
  <2>2. Covered({"A"})
    BY <1>1, <2>1, AtTest DEF Reads, At, TestStands, Covered, Slots
  <2> QED BY <1>1, <2>1, <2>2, TestReports
<1>3. ASSUME NEW pc \in {"exact_get_A", "bounded_list_A"}, Reads(l, pc),
             NEW to \in {"bounded_list_A", "reschedule_B"},
             Goes(l, to) \/ Evidenced(l, Ended("cleanup_required", {"A"}))
      PROVE  ControlledInv'
  <2>1. NoWriteFlies /\ record \in {"A", "deleted"}
    BY <1>1, <1>3, AtTest DEF Reads, At, TestStands
  <2>2. Covered({"A"})
    BY <2>1 DEF Covered, NoWriteFlies, Slots
  <2>3. CASE Goes(l, to)
    BY <1>1, <1>3, <2>1, <2>3, TestGoesOn
  <2>4. CASE Evidenced(l, Ended("cleanup_required", {"A"}))
    BY <1>1, <1>3, <2>2, <2>4, TestReports
  <2> QED BY <1>3, <2>3, <2>4
<1> QED BY <1>2, <1>3 DEF ExactGetA, BoundedListA

LEMMA ExactGetBInv ==
  ASSUME ControlledInv, NEW l \in Programs, ExactGetB(l)
  PROVE  ControlledInv'
<1>1. "exact_get_B" \in Testing /\ "cancel_first" \in Testing /\ "cancel_first" \in Deleting
      /\ "unknown" \in Reports \ Successes /\ Slots \in SUBSET Slots /\ Covered(Slots)
      /\ "cancel_first" \notin BeforeBooking \cup AfterDeletion
  BY DEF Testing, Reports, Successes, Slots, BeforeBooking, Deleting, AfterDeletion, Covered
<1>2. Reads(l, "exact_get_B") /\ launch[l].pc = "exact_get_B"
  BY DEF ExactGetB, Reads, At
<1>3. CASE record = "B" /\ ~launch[l].unsure /\ Goes(l, "cancel_first")
  <2>1. NoWriteFlies
    BY <1>1, <1>2, <1>3, AtTest DEF TestStands
  <2> QED BY <1>1, <1>2, <1>3, <2>1, TestGoesOn
<1>4. CASE Evidenced(l, Ended("unknown", Slots))
  BY <1>1, <1>2, <1>4, TestReports
<1> QED BY <1>3, <1>4 DEF ExactGetB, Proves, HeldAfterMove

LEMMA ReadsOfDeleted ==
  ASSUME ControlledInv, NEW l \in Programs,
         ExactGetDeleted(l) \/ BoundedListDeleted(l) \/ BoundedListFinal(l)
  PROVE  ControlledInv'
<1>1. /\ {"exact_get_deleted", "bounded_list_deleted", "cancel_repeat", "bounded_list_final"}
           \subseteq Testing \ BeforeBooking
      /\ {"exact_get_deleted", "bounded_list_deleted"} \subseteq Deleting \ AfterDeletion
      /\ {"cancel_repeat", "bounded_list_final"} \subseteq AfterDeletion \ Deleting
      /\ {"unknown", "cancelled_confirmed", "passed"} \subseteq Reports /\ "unknown" \notin Successes
      /\ {"B"} \in SUBSET Slots /\ {} \in SUBSET Slots
  BY DEF Testing, Reports, Successes, Slots, BeforeBooking, Deleting, AfterDeletion
<1>2. ASSUME ExactGetDeleted(l) PROVE ControlledInv'
  <2>1. PICK seen \in BOOLEAN :
          /\ Reads(l, "exact_get_deleted") /\ Proves(seen, "deleted")
          /\ Evidenced(l, [launch[l] EXCEPT !.pc = "bounded_list_deleted", !.gone = seen])
    BY <1>2 DEF ExactGetDeleted
  <2>2. /\ launch[l] \in LaunchRow /\ launch[l].outcome = "none"
        /\ NoWriteFlies /\ record \in {"B", "deleted"}
    BY <1>1, <2>1, AtTest DEF Reads, At, TestStands
  <2> DEFINE next == [launch[l] EXCEPT !.pc = "bounded_list_deleted", !.gone = seen]
  <2>3. Evidenced(l, next)
    BY <2>1
  <2>4. next \in LaunchRow /\ next.pc = "bounded_list_deleted" /\ next.gone = seen /\ next.outcome = "none"
    <3>1. "bounded_list_deleted" \in RunPlaces
      BY <1>1, TestRuns
    <3> QED BY ONLY <2>2, <3>1, seen \in BOOLEAN DEF LaunchRow
  <2> HIDE DEF next
  <2>5. TestStands(next)
    BY <1>1, <2>1, <2>2, <2>4, NoReport DEF TestStands, Proves
  <2> QED BY <1>1, <2>1, <2>3, <2>4, <2>5, TestMoves
<1>3. ASSUME BoundedListDeleted(l) PROVE ControlledInv'
  <2>1. PICK seen \in BOOLEAN :
          /\ Reads(l, "bounded_list_deleted") /\ Proves(seen, "deleted")
          /\ IF ~(seen /\ launch[l].gone) THEN Evidenced(l, Ended("unknown", {"B"}))
             ELSE IF launch[l].unsure THEN Evidenced(l, Ended("cancelled_confirmed", {}))
             ELSE Goes(l, "cancel_repeat")
    BY <1>3 DEF BoundedListDeleted
  <2>2. NoWriteFlies /\ record \in {"B", "deleted"}
    BY <1>1, <2>1, AtTest DEF Reads, At, TestStands
  <2>3. Covered({"B"}) /\ (record = "deleted" => Covered({}))
    BY <2>2 DEF Covered, NoWriteFlies, Slots
  <2>4. seen => record = "deleted"
    BY <2>1 DEF Proves
  <2>5. CASE Evidenced(l, Ended("unknown", {"B"}))
    BY <1>1, <2>1, <2>3, <2>5, TestReports
  <2>6. CASE seen /\ Evidenced(l, Ended("cancelled_confirmed", {}))
    BY <1>1, <2>1, <2>3, <2>4, <2>6, TestReports
  <2>7. CASE seen /\ Goes(l, "cancel_repeat")
    BY <1>1, <2>1, <2>2, <2>4, <2>7, TestGoesOn
  <2> QED BY <2>1, <2>5, <2>6, <2>7
<1>4. ASSUME BoundedListFinal(l) PROVE ControlledInv'
  <2>1. PICK outcome \in {"passed", "unknown"} :
          Reads(l, "bounded_list_final") /\ Evidenced(l, Ended(outcome, {}))
    BY <1>4 DEF BoundedListFinal
  <2>2. record = "deleted" /\ Covered({})
    BY <1>1, <2>1, AtTest DEF Reads, At, TestStands, Covered, Slots
  <2> QED BY <1>1, <2>1, <2>2, TestReports
<1> QED BY <1>2, <1>3, <1>4

\* A write of the test: what it may do to the record, and where it goes on.
LEMMA TestWrites ==
  ASSUME ControlledInv, NEW l \in Programs, launch[l].pc \in Testing, files \subseteq files',
         RowsTyped', WritesAreRationed', sent'.clean = sent.clean,
         record = "deleted" => record' = "deleted",
         NEW next \in LaunchRow, Evidenced(l, next), next.pc \notin Cleaning, TestStands(next)',
         \/ next.pc # "ended" /\ next.outcome = "none"
         \/ next.pc = "ended" /\ next.outcome \notin Successes
  PROVE  ControlledInv'
<1>1. l \in Launches /\ Owns(launch[l])
  BY AtTest
<1>2. SuccessStands(next)'
  BY NoReport DEF SuccessStands, Successes
<1> QED BY <1>1, <1>2, TestGoes

LEMMA CreateInv ==
  ASSUME ControlledInv, NEW l \in Programs, CreateA(l)
  PROVE  ControlledInv'
<1>1. /\ {"create_A", "exact_get_A", "find_A"} \subseteq Testing /\ "create_A" \in BeforeBooking
      /\ {"exact_get_A", "find_A"} \cap (BeforeBooking \cup Deleting \cup AfterDeletion) = {}
      /\ {"cleanup_required", "stopped"} \subseteq Reports \ Successes
      /\ {"A"} \in SUBSET Slots /\ Slots \in SUBSET Slots
  BY DEF Testing, Reports, Successes, Slots, BeforeBooking, Deleting, AfterDeletion
<1>2. launch[l].pc = "create_A" /\ launch[l].pc \in Testing
  BY <1>1 DEF CreateA, At
<1>3. /\ launch[l] \in LaunchRow /\ launch[l].outcome = "none" /\ "consumed" \in files
      /\ sent.create = 0 /\ record = "none" /\ NoWriteFlies
  BY <1>1, <1>2, AtTest DEF TestStands, ControlledInv, WritesAreRationed
<1>4. sent' \in [create : Nat, clean : Nat] /\ sent'.create = 1 /\ sent'.clean = sent.clean
  <2>1. sent' = [sent EXCEPT !.create = @ + 1] /\ sent \in [create : Nat, clean : Nat]
    BY DEF CreateA, ControlledInv, ControlledTyped
  <2> QED BY <2>1, <1>3
<1>5. files \subseteq files'
  BY DEF CreateA
<1>6. PICK answer \in {"created", "refused", "unknown"} :
        /\ Send("create", "created", answer)
        /\ \/ answer = "created" /\ Goes(l, "exact_get_A")
           \/ /\ answer = "created"
              /\ launch' = [launch EXCEPT ![l] = Ended("cleanup_required", {"A"})]
           \/ answer = "refused" /\ Evidenced(l, Ended("stopped", Slots))
           \/ answer = "unknown" /\ Goes(l, "find_A")
  BY DEF CreateA
<1>7. /\ record' \in {"none", "A"} /\ flying' \subseteq {"create", "cancel"}
      /\ answer = "created" => NoWriteFlies' /\ record' = "A"
      /\ answer = "refused" => NoWriteFlies' /\ record' = "none"
  <2>1. Effect("create") = "A"
    BY <1>3 DEF Effect
  <2> QED BY <1>3, <1>6, <2>1 DEF Send, NoWriteFlies, ControlledInv, ControlledTyped
<1>8. RowsTyped' /\ WritesAreRationed'
  <2>1. RowsTyped'
    BY <1>4, <1>7 DEF RowsTyped
  <2>2. /\ sent'.create <= 1 /\ sent'.create # 0 /\ sent'.clean <= 1
        /\ "consumed" \in files' /\ "move" \notin flying'
    <3>1. sent'.create <= 1 /\ sent'.create # 0
      BY <1>4
    <3>2. sent'.clean <= 1
      BY <1>4 DEF ControlledInv, WritesAreRationed
    <3> QED BY <1>3, <1>5, <1>7, <3>1, <3>2
  <2>3. "cleanup consumed" \notin files' => sent'.clean = 0
    BY <1>4, <1>5 DEF ControlledInv, WritesAreRationed
  <2> QED BY <2>1, <2>2, <2>3 DEF WritesAreRationed
<1>9. ASSUME NEW to \in {"exact_get_A", "find_A"}, Goes(l, to),
             to = "exact_get_A" => NoWriteFlies' /\ record' = "A"
      PROVE  ControlledInv'
  <2>1. PICK next : next = [launch[l] EXCEPT !.pc = to]
    OBVIOUS
  <2>2. next \in LaunchRow /\ next.pc = to /\ next.outcome = "none"
    BY <1>1, <1>3, <2>1, PlaceIs, TestRuns
  <2>3. TestStands(next)'
    BY <1>1, <1>7, <1>9, <2>2, NoReport DEF TestStands
  <2>4. Evidenced(l, next) /\ next.pc \notin Cleaning /\ next.pc # "ended"
    BY <1>1, <1>9, <2>1, <2>2, TestRuns DEF Goes
  <2> QED BY <1>2, <1>3, <1>4, <1>5, <1>8, <2>2, <2>3, <2>4, TestWrites
<1>10. ASSUME NEW outcome \in {"cleanup_required", "stopped"}, NEW holds \in SUBSET Slots,
              Evidenced(l, Ended(outcome, holds)), Covered(holds)'
       PROVE  ControlledInv'
  <2>1. PICK next : next = Ended(outcome, holds)
    OBVIOUS
  <2>2. /\ next \in LaunchRow /\ next.pc = "ended" /\ next.outcome = outcome
        /\ next.pc \notin Cleaning /\ TestStands(next)'
    BY <1>1, <1>10, <2>1, TestEnds DEF TestStands
  <2> QED BY <1>1, <1>2, <1>3, <1>4, <1>5, <1>8, <1>10, <2>1, <2>2, TestWrites
<1>11. Covered(Slots)' /\ (answer = "created" => Covered({"A"})')
  BY <1>7 DEF Covered, Slots, NoWriteFlies
<1>12. launch' = [launch EXCEPT ![l] = Ended("cleanup_required", {"A"})]
         => Evidenced(l, Ended("cleanup_required", {"A"}))
  BY DEF Evidenced
<1> QED BY <1>1, <1>6, <1>7, <1>9, <1>10, <1>11, <1>12

LEMMA RescheduleInv ==
  ASSUME ControlledInv, NEW l \in Programs, RescheduleB(l)
  PROVE  ControlledInv'
<1>1. /\ {"reschedule_B", "exact_get_B"} \subseteq Testing
      /\ "exact_get_B" \notin BeforeBooking \cup Deleting \cup AfterDeletion
      /\ "cleanup_required" \in Reports \ Successes /\ {"A"} \in SUBSET Slots
  BY DEF Testing, Reports, Successes, Slots, BeforeBooking, Deleting, AfterDeletion
<1>2. launch[l].pc = "reschedule_B" /\ launch[l].pc \in Testing
  BY <1>1 DEF RescheduleB, At
<1>3. /\ launch[l] \in LaunchRow /\ launch[l].outcome = "none"
      /\ record \in {"A", "deleted"} /\ NoWriteFlies
  BY <1>2, AtTest DEF TestStands
<1>4. UNCHANGED <<files, sent>>
  BY DEF RescheduleB
<1>5. PICK answer \in {"accepted", "refused", "unknown"} :
        /\ Send("move", "accepted", answer)
        /\ answer = "unknown" =>
             Evidenced(l, [launch[l] EXCEPT !.pc = "exact_get_B", !.unsure = TRUE])
        /\ answer = "accepted" => Goes(l, "exact_get_B")
        /\ answer = "refused" => Evidenced(l, Ended("cleanup_required", {"A"}))
  BY DEF RescheduleB
<1>6. /\ record' \in {"A", "B", "deleted"} /\ flying' \subseteq {"move", "cancel"}
      /\ answer # "unknown" => NoWriteFlies' 
      /\ answer = "refused" => record' = record
      /\ record = "deleted" => record' = "deleted"
  <2>1. Effect("move") = IF record = "A" THEN "B" ELSE "deleted"
    BY <1>3 DEF Effect, Slots
  <2> QED BY <1>3, <1>5, <2>1 DEF Send, NoWriteFlies, ControlledInv, ControlledTyped
<1>7. sent.create # 0
  BY <1>3 DEF ControlledInv, WritesAreRationed
<1>8. RowsTyped' /\ WritesAreRationed'
  BY <1>4, <1>6, <1>7 DEF RowsTyped, WritesAreRationed, ControlledInv, ControlledTyped
<1>9. CASE answer = "unknown"
  <2> DEFINE row == [launch[l] EXCEPT !.pc = "exact_get_B", !.unsure = TRUE]
  <2>1. "exact_get_B" \in RunPlaces
    BY <1>1, TestRuns
  <2>2. row \in LaunchRow /\ row.pc = "exact_get_B" /\ row.unsure = TRUE /\ row.outcome = "none"
    BY ONLY <1>3, <2>1 DEF LaunchRow
  <2>3. PICK next \in LaunchRow :
          /\ Evidenced(l, next)
          /\ next.pc = "exact_get_B" /\ next.unsure = TRUE /\ next.outcome = "none"
    BY <1>5, <1>9, <2>2
  <2>4. TestStands(next)'
    BY <1>1, <2>3, NoReport DEF TestStands
  <2>5. next.pc \notin Cleaning /\ next.pc # "ended"
    BY <1>1, <2>3, TestRuns
  <2> QED BY <1>2, <1>4, <1>6, <1>8, <2>3, <2>4, <2>5, TestWrites
<1>10. CASE answer = "accepted"
  <2>1. PICK next : next = [launch[l] EXCEPT !.pc = "exact_get_B"]
    OBVIOUS
  <2>2. next \in LaunchRow /\ next.pc = "exact_get_B" /\ next.outcome = "none"
    BY <1>1, <1>3, <2>1, PlaceIs, TestRuns
  <2>3. TestStands(next)'
    BY <1>1, <1>6, <1>10, <2>2, NoReport DEF TestStands
  <2>4. Evidenced(l, next) /\ next.pc \notin Cleaning /\ next.pc # "ended"
    BY <1>1, <1>5, <1>10, <2>1, <2>2, TestRuns DEF Goes
  <2> QED BY <1>2, <1>4, <1>6, <1>8, <2>2, <2>3, <2>4, TestWrites
<1>11. CASE answer = "refused"
  <2>1. PICK next : next = Ended("cleanup_required", {"A"})
    OBVIOUS
  <2>2. Covered({"A"})'
    BY <1>3, <1>6, <1>11 DEF Covered, Slots, NoWriteFlies
  <2>3. /\ next \in LaunchRow /\ next.pc = "ended" /\ next.outcome = "cleanup_required"
        /\ next.pc \notin Cleaning /\ TestStands(next)'
    BY <1>1, <2>1, <2>2, TestEnds DEF TestStands
  <2> QED BY <1>1, <1>2, <1>4, <1>5, <1>6, <1>8, <1>11, <2>1, <2>3, TestWrites
<1> QED BY <1>9, <1>10, <1>11

\* A deletion may only delete, at once or later.
LEMMA CancelIs ==
  ASSUME ControlledInv, NEW answer, NEW known, Send("cancel", known, answer)
  PROVE  /\ record' = record \/ (record \in Slots /\ record' = "deleted")
         /\ flying' = flying \/ flying' = flying \cup {"cancel"}
<1>1. Effect("cancel") = IF record \in Slots THEN "deleted" ELSE record
  BY DEF Effect
<1> QED BY <1>1 DEF Send

LEMMA CancelRows ==
  ASSUME ControlledInv, record' = record \/ (record \in Slots /\ record' = "deleted"),
         flying' = flying \/ flying' = flying \cup {"cancel"},
         sent' \in [create : Nat, clean : Nat], sent'.create = sent.create, sent'.clean <= 1,
         files \subseteq files', "cleanup consumed" \notin files' => sent'.clean = 0
  PROVE  /\ RowsTyped' /\ WritesAreRationed' /\ Benign
<1>1. RowsTyped'
  BY DEF ControlledInv, ControlledTyped, RowsTyped
<1>2. Benign
  BY DEF Benign
<1>3. ("create" \in flying' <=> "create" \in flying) /\ ("move" \in flying' <=> "move" \in flying)
  BY <1>2 DEF Benign
<1>4. WritesAreRationed'
  BY <1>3 DEF ControlledInv, WritesAreRationed, NoWriteFlies, Slots
<1> QED BY <1>1, <1>2, <1>4

LEMMA CancelFirstInv ==
  ASSUME ControlledInv, NEW l \in Programs, CancelFirst(l)
  PROVE  ControlledInv'
<1>1. /\ {"cancel_first", "exact_get_deleted"} \subseteq Testing
      /\ {"cancel_first", "exact_get_deleted"} \subseteq Deleting
      /\ "exact_get_deleted" \notin BeforeBooking \cup AfterDeletion
      /\ "cleanup_required" \in Reports \ Successes /\ {"B"} \in SUBSET Slots
  BY DEF Testing, Reports, Successes, Slots, BeforeBooking, Deleting, AfterDeletion
<1>2. launch[l].pc = "cancel_first" /\ launch[l].pc \in Testing
  BY <1>1 DEF CancelFirst, At
<1>3. /\ launch[l] \in LaunchRow /\ launch[l].outcome = "none"
      /\ record \in {"B", "deleted"} /\ NoWriteFlies
  BY <1>1, <1>2, AtTest DEF TestStands
<1>4. UNCHANGED <<files, sent>>
  BY DEF CancelFirst
<1>5. PICK answer \in {"deleted", "refused", "unknown"} :
        /\ Send("cancel", "deleted", answer)
        /\ IF answer = "refused" THEN Evidenced(l, Ended("cleanup_required", {"B"}))
           ELSE Evidenced(l, [launch[l] EXCEPT !.pc = "exact_get_deleted",
                                              !.unsure = answer = "unknown"])
  BY DEF CancelFirst
<1>6. /\ record' = record \/ (record \in Slots /\ record' = "deleted")
      /\ flying' = flying \/ flying' = flying \cup {"cancel"}
  BY <1>5, CancelIs
<1>7. RowsTyped' /\ WritesAreRationed'
  BY <1>4, <1>6, CancelRows DEF ControlledInv, ControlledTyped, WritesAreRationed
<1>8. record' \in {"B", "deleted"} /\ NoWriteFlies' /\ (record = "deleted" => record' = "deleted")
  BY <1>3, <1>6 DEF NoWriteFlies, Slots
<1>9. CASE answer = "refused"
  <2>1. PICK next : next = Ended("cleanup_required", {"B"})
    OBVIOUS
  <2>2. Covered({"B"})'
    BY <1>8 DEF Covered, Slots, NoWriteFlies
  <2>3. /\ next \in LaunchRow /\ next.pc = "ended" /\ next.outcome = "cleanup_required"
        /\ next.pc \notin Cleaning /\ TestStands(next)'
    BY <1>1, <2>1, <2>2, TestEnds DEF TestStands
  <2> QED BY <1>1, <1>2, <1>4, <1>5, <1>7, <1>8, <1>9, <2>1, <2>3, TestWrites
<1>10. CASE answer # "refused"
  <2> DEFINE row == [launch[l] EXCEPT !.pc = "exact_get_deleted", !.unsure = answer = "unknown"]
  <2>1. "exact_get_deleted" \in RunPlaces
    BY <1>1, TestRuns
  <2>2. row \in LaunchRow /\ row.pc = "exact_get_deleted" /\ row.outcome = "none"
    BY ONLY <1>3, <2>1 DEF LaunchRow
  <2>3. PICK next \in LaunchRow :
          Evidenced(l, next) /\ next.pc = "exact_get_deleted" /\ next.outcome = "none"
    BY <1>5, <1>10, <2>2
  <2>4. TestStands(next)'
    BY <1>1, <1>8, <2>3, NoReport DEF TestStands
  <2>5. next.pc \notin Cleaning /\ next.pc # "ended"
    BY <1>1, <2>3, TestRuns
  <2> QED BY <1>2, <1>4, <1>7, <1>8, <2>3, <2>4, <2>5, TestWrites
<1> QED BY <1>9, <1>10

LEMMA CancelRepeatInv ==
  ASSUME ControlledInv, NEW l \in Programs, CancelRepeat(l)
  PROVE  ControlledInv'
<1>1. /\ {"cancel_repeat", "bounded_list_final"} \subseteq Testing
      /\ {"cancel_repeat", "bounded_list_final"} \subseteq AfterDeletion
      /\ "bounded_list_final" \notin BeforeBooking \cup Deleting
  BY DEF Testing, BeforeBooking, Deleting, AfterDeletion
<1>2. launch[l].pc = "cancel_repeat" /\ launch[l].pc \in Testing
  BY <1>1 DEF CancelRepeat, At
<1>3. /\ launch[l] \in LaunchRow /\ launch[l].outcome = "none"
      /\ record = "deleted" /\ NoWriteFlies
  BY <1>1, <1>2, AtTest DEF TestStands
<1>4. UNCHANGED <<files, sent>>
  BY DEF CancelRepeat
<1>5. PICK answer \in {"deleted", "refused", "unknown"} :
        /\ Send("cancel", "deleted", answer)
        /\ Evidenced(l, [launch[l] EXCEPT !.pc = "bounded_list_final", !.unsure = answer # "deleted"])
  BY DEF CancelRepeat
<1>6. /\ record' = record \/ (record \in Slots /\ record' = "deleted")
      /\ flying' = flying \/ flying' = flying \cup {"cancel"}
  BY <1>5, CancelIs
<1>7. RowsTyped' /\ WritesAreRationed'
  BY <1>4, <1>6, CancelRows DEF ControlledInv, ControlledTyped, WritesAreRationed
<1>8. record' = "deleted" /\ NoWriteFlies'
  BY <1>3, <1>6 DEF NoWriteFlies
<1> DEFINE row == [launch[l] EXCEPT !.pc = "bounded_list_final", !.unsure = answer # "deleted"]
<1>9. "bounded_list_final" \in RunPlaces
  BY <1>1, TestRuns
<1>10. row \in LaunchRow /\ row.pc = "bounded_list_final" /\ row.outcome = "none"
  BY ONLY <1>3, <1>9 DEF LaunchRow
<1>11. PICK next \in LaunchRow :
         Evidenced(l, next) /\ next.pc = "bounded_list_final" /\ next.outcome = "none"
  BY <1>5, <1>10
<1>12. TestStands(next)'
  BY <1>1, <1>8, <1>11, NoReport DEF TestStands
<1>13. next.pc \notin Cleaning /\ next.pc # "ended"
  BY <1>1, <1>11, TestRuns
<1> QED BY <1>2, <1>4, <1>7, <1>8, <1>11, <1>12, <1>13, TestWrites

-----------------------------------------------------------------------------
(* The steps of the cleanup.                                               *)

LEMMA AtCleanup ==
  ASSUME ControlledInv, NEW c \in Programs, launch[c].pc \in Cleaning
  PROVE  /\ c \in Cleanups /\ launch[c] \in LaunchRow /\ launch[c].outcome = "none"
         /\ CleanupStands(launch[c])
<1>1. c \in Cleanups /\ launch[c].pc # "ended"
  BY RowIs DEF Cleaning
<1> QED BY <1>1, RowIs

LEMMA CleaningRuns ==
  ASSUME NEW pc, pc \in Cleaning
  PROVE  pc \in RunPlaces /\ pc \notin Testing /\ pc # "ended"
BY DEF Testing, RunPlaces, Cleaning, BeforeBooking, Deleting, AfterDeletion

LEMMA CleanupReports ==
  ASSUME ControlledInv, NEW c \in Programs, NEW pc \in Cleaning, Reads(c, pc),
         NEW outcome \in Reports, NEW holds \in SUBSET Slots, Evidenced(c, Ended(outcome, holds)),
         outcome \in Successes => record = "deleted"
  PROVE  ControlledInv'
<1>1. c \in Cleanups
  BY AtCleanup DEF Reads, At
<1>2. PICK next : next = Ended(outcome, holds)
  OBVIOUS
<1>3. /\ next \in LaunchRow /\ next.pc = "ended" /\ next.outcome = outcome /\ next.pc \notin Testing
  BY <1>2, TestEnds
<1>4. SuccessStands(next) /\ CleanupStands(next) /\ ~MayClean(next)
  BY <1>3 DEF SuccessStands, CleanupStands, MayClean
<1> QED BY <1>1, <1>2, <1>3, <1>4, CleanupReads

LEMMA PreDeleteInv ==
  ASSUME ControlledInv, NEW c \in Programs, PreDeleteExact(c)
  PROVE  ControlledInv'
<1>1. {"pre_delete_exact", "cancel_once"} \subseteq Cleaning /\ "cleanup_required" \in Reports \ Successes
      /\ {"A"} \in SUBSET Slots
  BY DEF Cleaning, Reports, Successes, Slots
<1>2. Reads(c, "pre_delete_exact") /\ launch[c].pc = "pre_delete_exact" /\ launch[c].pc \in Cleaning
  BY <1>1 DEF PreDeleteExact, Reads, At
<1>3. CASE Goes(c, "cancel_once")
  <2>1. c \in Cleanups /\ launch[c] \in LaunchRow /\ launch[c].outcome = "none"
        /\ CleanupStands(launch[c])
    BY <1>2, AtCleanup
  <2>2. PICK next : next = [launch[c] EXCEPT !.pc = "cancel_once"]
    OBVIOUS
  <2>3. next \in LaunchRow /\ next.pc = "cancel_once" /\ next.outcome = "none"
    BY <1>1, <2>1, <2>2, PlaceIs, CleaningRuns
  <2>4. CleanupStands(next) /\ MayClean(launch[c]) /\ SuccessStands(next) /\ next.pc \notin Testing
    BY <1>1, <1>2, <2>1, <2>3, CleaningRuns DEF CleanupStands, MayClean, SuccessStands, Successes
  <2>5. Evidenced(c, next)
    BY <1>3, <2>2 DEF Goes
  <2> QED BY <1>1, <1>2, <2>1, <2>3, <2>4, <2>5, CleanupReads
<1>4. CASE Evidenced(c, Ended("cleanup_required", {"A"}))
  BY <1>1, <1>2, <1>4, CleanupReports
<1> QED BY <1>3, <1>4 DEF PreDeleteExact

LEMMA CancelOnceInv ==
  ASSUME ControlledInv, NEW c \in Programs, CancelOnce(c)
  PROVE  ControlledInv'
<1>1. {"cancel_once", "post_delete_exact"} \subseteq Cleaning
      /\ "cleanup_required" \in Reports \ Successes /\ {"A"} \in SUBSET Slots
  BY DEF Cleaning, Reports, Successes, Slots
<1>2. launch[c].pc = "cancel_once" /\ launch[c].pc \in Cleaning
  BY <1>1 DEF CancelOnce, At
<1>3. /\ c \in Cleanups /\ launch[c] \in LaunchRow /\ launch[c].outcome = "none"
      /\ MayClean(launch[c]) /\ CleanupStands(launch[c])
  BY <1>2, AtCleanup DEF MayClean
<1>4. /\ sent.clean = 0 /\ "cleanup consumed" \in files /\ files' = files
      /\ \A k \in Cleanups \ {c} : ~MayClean(launch[k])
  BY <1>3 DEF CleanupStands, ControlledInv, OneOwner, CancelOnce
<1>5. sent' \in [create : Nat, clean : Nat] /\ sent'.clean = 1 /\ sent'.create = sent.create
  <2>1. sent' = [sent EXCEPT !.clean = @ + 1] /\ sent \in [create : Nat, clean : Nat]
    BY DEF CancelOnce, ControlledInv, ControlledTyped
  <2>2. sent.clean = 0
    BY <1>4
  <2> QED BY ONLY <2>1, <2>2
<1>6. PICK answer \in {"deleted", "refused", "unknown"} :
        /\ Send("cancel", "deleted", answer)
        /\ IF answer = "refused" THEN Evidenced(c, Ended("cleanup_required", {"A"}))
           ELSE Goes(c, "post_delete_exact")
  BY DEF CancelOnce
<1>7. /\ record' = record \/ (record \in Slots /\ record' = "deleted")
      /\ flying' = flying \/ flying' = flying \cup {"cancel"}
  BY <1>6, CancelIs
<1>8. RowsTyped' /\ WritesAreRationed' /\ Benign
  <2>1. sent'.clean <= 1 /\ files \subseteq files' /\ "cleanup consumed" \in files'
    <3>1. sent'.clean <= 1
      BY <1>5
    <3>2. files' = files /\ "cleanup consumed" \in files
      BY <1>4
    <3> QED BY ONLY <3>1, <3>2
  <2> QED BY <1>5, <1>7, <2>1, CancelRows
<1>9. \A x : (TestStands(x) => TestStands(x)') /\ (record = "deleted" => record' = "deleted")
  BY <1>8, BenignStands
<1>10. \A k \in Cleanups \ {c} : \A x \in LaunchRow :
         x = launch[k] => (CleanupStands(x) => CleanupStands(x)')
  BY <1>4, <1>9 DEF CleanupStands, MayClean
<1>11. CASE answer = "refused"
  <2>1. PICK next : next = Ended("cleanup_required", {"A"})
    OBVIOUS
  <2>2. /\ next \in LaunchRow /\ next.pc = "ended" /\ next.outcome = "cleanup_required"
        /\ next.pc \notin Testing
    BY <1>1, <2>1, TestEnds
  <2>3. SuccessStands(next)' /\ CleanupStands(next)' /\ ~MayClean(next)
    BY <1>1, <2>2 DEF SuccessStands, CleanupStands, MayClean
  <2> QED BY <1>3, <1>4, <1>6, <1>8, <1>9, <1>10, <1>11, <2>1, <2>2, <2>3, CleanupGoes
<1>12. CASE answer # "refused"
  <2>1. PICK next : next = [launch[c] EXCEPT !.pc = "post_delete_exact"]
    OBVIOUS
  <2>2. next \in LaunchRow /\ next.pc = "post_delete_exact" /\ next.outcome = "none"
    BY <1>1, <1>3, <2>1, PlaceIs, CleaningRuns
  <2>3. SuccessStands(next)' /\ CleanupStands(next)' /\ ~MayClean(next) /\ next.pc \notin Testing
    BY <1>1, <2>2, CleaningRuns DEF SuccessStands, CleanupStands, MayClean, Successes
  <2>4. Evidenced(c, next)
    BY <1>6, <1>12, <2>1 DEF Goes
  <2> QED BY <1>3, <1>4, <1>8, <1>9, <1>10, <2>2, <2>3, <2>4, CleanupGoes
<1> QED BY <1>11, <1>12

LEMMA ReadsOfCleanup ==
  ASSUME ControlledInv, NEW c \in Programs, PostDeleteExact(c) \/ PostDeleteList(c)
  PROVE  ControlledInv'
<1>1. {"post_delete_exact", "post_delete_list"} \subseteq Cleaning
      /\ {"unknown", "cancelled_confirmed"} \subseteq Reports /\ "unknown" \notin Successes
      /\ {"A"} \in SUBSET Slots /\ {} \in SUBSET Slots
  BY DEF Cleaning, Reports, Successes, Slots
<1>2. ASSUME PostDeleteExact(c) PROVE ControlledInv'
  <2>1. PICK seen \in BOOLEAN :
          /\ Reads(c, "post_delete_exact") /\ Proves(seen, "deleted")
          /\ Evidenced(c, [launch[c] EXCEPT !.pc = "post_delete_list", !.gone = seen])
    BY <1>2 DEF PostDeleteExact
  <2>2. c \in Cleanups /\ launch[c] \in LaunchRow /\ launch[c].outcome = "none"
    BY <1>1, <2>1, AtCleanup DEF Reads, At
  <2> DEFINE row == [launch[c] EXCEPT !.pc = "post_delete_list", !.gone = seen]
  <2>3. "post_delete_list" \in RunPlaces
    BY <1>1, CleaningRuns
  <2>4. row \in LaunchRow /\ row.pc = "post_delete_list" /\ row.gone = seen /\ row.outcome = "none"
    BY ONLY <2>2, <2>3, seen \in BOOLEAN DEF LaunchRow
  <2>5. PICK next \in LaunchRow :
          /\ Evidenced(c, next)
          /\ next.pc = "post_delete_list" /\ next.gone = seen /\ next.outcome = "none"
    BY <2>1, <2>4
  <2>6. SuccessStands(next) /\ CleanupStands(next) /\ ~MayClean(next) /\ next.pc \notin Testing
    BY <1>1, <2>1, <2>5, CleaningRuns DEF SuccessStands, CleanupStands, MayClean, Successes, Proves
  <2> QED BY <1>1, <2>1, <2>2, <2>5, <2>6, CleanupReads
<1>3. ASSUME PostDeleteList(c) PROVE ControlledInv'
  <2>1. PICK seen \in BOOLEAN :
          /\ Reads(c, "post_delete_list") /\ Proves(seen, "deleted")
          /\ Evidenced(c, IF Cleaned(c, seen) THEN Ended("cancelled_confirmed", {})
                          ELSE Ended("unknown", {"A"}))
    BY <1>3 DEF PostDeleteList
  <2>2. CASE Cleaned(c, seen)
    BY <1>1, <2>1, <2>2, CleanupReports DEF Cleaned, Proves
  <2>3. CASE ~Cleaned(c, seen)
    BY <1>1, <2>1, <2>3, CleanupReports
  <2> QED BY <2>2, <2>3
<1> QED BY <1>2, <1>3

-----------------------------------------------------------------------------
(* Approvals, deaths, late writes.                                         *)

LEMMA ApproveInv ==
  ASSUME ControlledInv, files \subseteq files', UNCHANGED <<record, flying, sent, launch>>
  PROVE  ControlledInv'
<1>1. Benign /\ WritesAreRationed'
  BY SameRows
<1>2. ControlledTyped' /\ OneOwner'
  BY DEF ControlledInv, ControlledTyped, OneOwner, Owns, MayClean
<1>3. ASSUME NEW p \in Programs
      PROVE  /\ p \in Launches => TestStands(launch[p])'
             /\ p \in Cleanups => CleanupStands(launch[p])'
             /\ SuccessStands(launch[p])'
  <2>1. PICK x : x = launch[p]
    OBVIOUS
  <2>2. /\ TestStands(x) => TestStands(x)'
        /\ CleanupStands(x) => CleanupStands(x)'
        /\ SuccessStands(x) => SuccessStands(x)'
    BY <1>1, BenignStands
  <2> QED BY <2>1, <2>2, RowIs DEF TestStands, CleanupStands, SuccessStands, MayClean
<1> QED BY <1>1, <1>2, <1>3 DEF ControlledInv, Programs

\* A program that does not own the approval, or does not go on.
LEMMA Unowned ==
  ASSUME ControlledInv, NEW l \in Programs, files \subseteq files',
         UNCHANGED <<record, flying, sent>>,
         NEW q \in LaunchRow, launch' = [launch EXCEPT ![l] = q],
         \/ q.pc \in {"approve", "claim"} /\ q.outcome = "none"
         \/ q.pc = "ended" /\ q.outcome \in {"blocked", "dead"}
  PROVE  ControlledInv'
<1>1. Turn(l, q)
  BY MovesTo
<1>2. /\ ~Owns(q) /\ ~MayClean(q) /\ q.pc \notin Cleaning /\ q.pc \notin Testing
      /\ SuccessStands(q)' /\ CleanupStands(q)'
  BY NoReport DEF Owns, MayClean, Cleaning, Testing, BeforeBooking, Deleting, AfterDeletion, SuccessStands,
                  CleanupStands, Successes
<1>3. TestStands(q)'
  BY <1>2, StrangerStands
<1>4. Benign /\ RowsTyped' /\ WritesAreRationed'
  BY SameRows
<1>5. \A x : (TestStands(x) => TestStands(x)') /\ (CleanupStands(x) => CleanupStands(x)')
  BY <1>4, BenignStands
<1> QED BY <1>1, <1>2, <1>3, <1>4, <1>5, Turns

LEMMA BlockIs ==
  ASSUME ControlledInv, NEW l \in Programs, files \subseteq files',
         UNCHANGED <<record, flying, sent>>, Block(l)
  PROVE  ControlledInv'
<1>1. PICK q : q = Ended("blocked", {})
  OBVIOUS
<1>2. q \in LaunchRow /\ q.pc = "ended" /\ q.outcome = "blocked"
  BY <1>1, EndedIs DEF Slots
<1>3. launch' = [launch EXCEPT ![l] = q]
  BY <1>1 DEF Block
<1> QED BY <1>2, <1>3, Unowned

LEMMA StartRunInv ==
  ASSUME ControlledInv, NEW l \in Programs, StartRun(l) \/ ReadApproval(l)
  PROVE  ControlledInv'
<1>1. /\ launch[l].pc \in {"idle", "approve"} /\ UNCHANGED <<files, record, flying, sent>>
      /\ \/ Block(l)
         \/ \E pc \in {"approve", "claim"} : launch' = [launch EXCEPT ![l].pc = pc]
  BY DEF StartRun, ReadApproval, Reads, At
<1>2. ASSUME NEW pc \in {"approve", "claim"}, launch' = [launch EXCEPT ![l].pc = pc]
      PROVE  ControlledInv'
  <2>1. launch[l] \in LaunchRow /\ launch[l].outcome = "none" /\ launch \in [Programs -> LaunchRow]
    BY <1>1, RowIs DEF ControlledInv, ControlledTyped
  <2>2. PICK q : q = [launch[l] EXCEPT !.pc = pc]
    OBVIOUS
  <2>3. pc \in RunPlaces
    BY DEF RunPlaces
  <2>4. q \in LaunchRow /\ q.pc = pc /\ q.outcome = "none"
    BY <2>1, <2>2, <2>3, PlaceIs
  <2>5. launch' = [launch EXCEPT ![l] = q]
    BY <1>2, <2>1, <2>2
  <2> QED BY <1>1, <2>4, <2>5, Unowned
<1> QED BY <1>1, <1>2, BlockIs

\* One link of the consumed file succeeds: the owner.
LEMMA ClaimInv ==
  ASSUME ControlledInv, NEW l \in Programs, ClaimApproval(l)
  PROVE  ControlledInv'
<1>1. /\ launch[l].pc = "claim" /\ files' = files \cup {ConsumedFile(l)}
      /\ UNCHANGED <<record, flying, sent>>
  BY DEF ClaimApproval, At
<1>2. CASE Block(l)
  BY <1>1, <1>2, BlockIs
<1>3. CASE /\ Claimed(l)
           /\ launch' = [launch EXCEPT ![l].pc =
                           IF l \in Launches THEN "availability_A" ELSE "pre_delete_exact"]
  <2>1. PICK pc \in {"availability_A", "pre_delete_exact"} :
          /\ launch' = [launch EXCEPT ![l].pc = pc]
          /\ pc = IF l \in Launches THEN "availability_A" ELSE "pre_delete_exact"
    BY <1>3
  <2>2. launch[l] \in LaunchRow /\ launch[l].outcome = "none" /\ launch \in [Programs -> LaunchRow]
        /\ (l \in Launches \/ l \in Cleanups)
    BY <1>1, RowIs DEF ControlledInv, ControlledTyped
  <2>3. PICK q : q = [launch[l] EXCEPT !.pc = pc]
    OBVIOUS
  <2>4. pc \in RunPlaces /\ pc # "ended"
    BY DEF RunPlaces, Testing, BeforeBooking, Cleaning
  <2>5. q \in LaunchRow /\ q.pc = pc /\ q.outcome = "none"
    BY <2>2, <2>3, <2>4, PlaceIs
  <2>6. Turn(l, q)
    <3>1. launch' = [launch EXCEPT ![l] = q]
      BY <2>1, <2>2, <2>3
    <3> QED BY <2>4, <2>5, <3>1, MovesTo
  <2>7. Benign /\ RowsTyped' /\ WritesAreRationed' /\ files \subseteq files'
    BY <1>1, SameRows
  <2>8. /\ \A x : (TestStands(x) => TestStands(x)') /\ (CleanupStands(x) => CleanupStands(x)')
        /\ record = "deleted" => record' = "deleted"
    BY <1>1, <2>7, BenignStands
  <2>9. SuccessStands(q)'
    BY <2>5 DEF SuccessStands, Successes
  <2>10. CASE l \in Launches
    <3>1. pc = "availability_A" /\ "consumed" \notin files /\ "consumed" \in files' /\ l \notin Cleanups
      BY <1>1, <1>3, <2>1, <2>10, ControlledAssumption DEF ConsumedFile, Claimed
    <3>2. sent.create = 0 /\ \A k \in Launches : ~Owns(launch[k])
      BY <3>1 DEF ControlledInv, WritesAreRationed, OneOwner
    <3>3. q.pc \notin Cleaning /\ TestStands(q)'
      BY <1>1, <2>5, <3>1, <3>2, NoReport DEF Cleaning, TestStands, Deleting, AfterDeletion
    <3> QED BY <2>6, <2>7, <2>8, <2>9, <3>1, <3>2, <3>3, Turns
  <2>11. CASE l \notin Launches
    <3>1. /\ pc = "pre_delete_exact" /\ "cleanup consumed" \notin files
          /\ "cleanup consumed" \in files' /\ l \in Cleanups
      BY <1>1, <1>3, <2>1, <2>2, <2>11 DEF ConsumedFile, Claimed
    <3>2. sent.clean = 0 /\ \A k \in Cleanups : ~MayClean(launch[k])
      BY <3>1 DEF ControlledInv, WritesAreRationed, OneOwner
    <3>3. q.pc \notin Testing /\ CleanupStands(q)'
      BY <1>1, <2>5, <3>1, <3>2 DEF Testing, BeforeBooking, Deleting, AfterDeletion, CleanupStands
    <3> QED BY <2>6, <2>7, <2>8, <2>9, <2>11, <3>1, <3>2, <3>3, Turns
  <2> QED BY <2>10, <2>11
<1> QED BY <1>2, <1>3 DEF ClaimApproval

\* The rows a process that dies leaves: the write it was about to send may be
\* on its way.
LEMMA DieRows ==
  ASSUME ControlledInv, NEW l \in Programs, Die(l)
  PROVE  /\ RowsTyped' /\ WritesAreRationed' /\ record' = record /\ files' = files
         /\ \/ Benign /\ sent'.clean = sent.clean
            \/ launch[l].pc = "cancel_once" /\ Benign
            \/ launch[l].pc \in Testing /\ sent'.clean = sent.clean
<1>1. record' = record /\ files' = files
  BY DEF Die
<1>2. CASE UNCHANGED <<flying, sent>>
  BY <1>1, <1>2, SameRows
<1>3. CASE launch[l].pc = "create_A" /\ flying' = flying \cup {"create"}
           /\ sent' = [sent EXCEPT !.create = @ + 1]
  <2>1. "create_A" \in Testing /\ "create_A" \in BeforeBooking
    BY DEF Testing, BeforeBooking
  <2>2. sent.create = 0 /\ "consumed" \in files
    BY <1>3, <2>1, AtTest DEF TestStands
  <2>3. record = "none" /\ NoWriteFlies
    BY <2>2 DEF ControlledInv, WritesAreRationed
  <2>4. sent \in [create : Nat, clean : Nat]
    BY DEF ControlledInv, ControlledTyped
  <2>5. sent' \in [create : Nat, clean : Nat] /\ sent'.create = 1 /\ sent'.clean = sent.clean
    <3>1. sent.create = 0
      BY <2>2
    <3> QED BY ONLY <1>3, <2>4, <3>1
  <2>6. RowsTyped'
    BY <1>1, <1>3, <2>5 DEF ControlledInv, ControlledTyped, RowsTyped
  <2>7. sent'.create <= 1 /\ sent'.create # 0
    BY <2>5
  <2>8. sent'.clean <= 1 /\ ("cleanup consumed" \notin files' => sent'.clean = 0)
    BY <1>1, <2>5 DEF ControlledInv, WritesAreRationed
  <2>9. "consumed" \in files' /\ "move" \notin flying'
    BY <1>1, <1>3, <2>2, <2>3 DEF NoWriteFlies
  <2>10. WritesAreRationed'
    BY <2>7, <2>8, <2>9 DEF WritesAreRationed
  <2> QED BY <1>1, <1>3, <2>1, <2>5, <2>6, <2>10
<1>4. CASE launch[l].pc = "reschedule_B" /\ flying' = flying \cup {"move"} /\ sent' = sent
  <2>1. "reschedule_B" \in Testing
    BY DEF Testing
  <2>2. NoWriteFlies /\ record \in {"A", "deleted"}
    BY <1>4, <2>1, AtTest DEF TestStands
  <2>3. RowsTyped'
    BY <1>1, <1>4 DEF ControlledInv, ControlledTyped, RowsTyped
  <2>4. WritesAreRationed'
    BY <1>1, <1>4, <2>2 DEF ControlledInv, WritesAreRationed, NoWriteFlies
  <2> QED BY <1>1, <1>4, <2>1, <2>3, <2>4
<1>5. CASE launch[l].pc \in {"cancel_first", "cancel_repeat"} /\ flying' = flying \cup {"cancel"}
           /\ sent' = sent
  <2>1. RowsTyped' /\ WritesAreRationed' /\ Benign
    BY <1>1, <1>5, CancelRows DEF ControlledInv, ControlledTyped, WritesAreRationed
  <2> QED BY <1>1, <1>5, <2>1
<1>6. CASE launch[l].pc = "cancel_once" /\ flying' = flying \cup {"cancel"}
           /\ sent' = [sent EXCEPT !.clean = @ + 1]
  <2>1. launch[l].pc \in Cleaning /\ MayClean(launch[l])
    BY <1>6 DEF Cleaning, MayClean
  <2>2. sent.clean = 0 /\ "cleanup consumed" \in files
    BY <2>1, AtCleanup DEF CleanupStands, ControlledInv, OneOwner
  <2>3. sent \in [create : Nat, clean : Nat]
    BY DEF ControlledInv, ControlledTyped
  <2>4. sent' \in [create : Nat, clean : Nat] /\ sent'.clean = 1 /\ sent'.create = sent.create
    <3>1. sent.clean = 0
      BY <2>2
    <3> QED BY ONLY <1>6, <2>3, <3>1
  <2>5. sent'.clean <= 1
    BY <2>4
  <2>6. files \subseteq files' /\ "cleanup consumed" \in files'
    BY <1>1, <2>2
  <2>7. RowsTyped' /\ WritesAreRationed' /\ Benign
    BY <1>1, <1>6, <2>4, <2>5, <2>6, CancelRows
  <2> QED BY <1>1, <1>6, <2>7
<1> QED BY <1>1, <1>2, <1>3, <1>4, <1>5, <1>6 DEF Die, Writes, At

LEMMA DieInv ==
  ASSUME ControlledInv, NEW l \in Programs, Die(l)
  PROVE  ControlledInv'
<1>1. PICK q : q = Ended("dead", {})
  OBVIOUS
<1>2. q \in LaunchRow /\ q.pc = "ended" /\ q.outcome = "dead"
  BY <1>1, EndedIs DEF Slots
<1>3. launch' = [launch EXCEPT ![l] = q]
  BY <1>1 DEF Die
<1>4. Turn(l, q)
  BY <1>2, <1>3, MovesTo
<1>5. /\ ~Owns(q) /\ ~MayClean(q) /\ q.pc \notin Cleaning /\ q.pc \notin Testing
      /\ SuccessStands(q)' /\ CleanupStands(q)'
  BY <1>2, NoReport DEF Owns, MayClean, Cleaning, Testing, BeforeBooking, Deleting, AfterDeletion, SuccessStands,
                        CleanupStands, Successes
<1>6. TestStands(q)'
  BY <1>5, StrangerStands
<1>7. /\ RowsTyped' /\ WritesAreRationed' /\ record' = record /\ files \subseteq files'
  BY DieRows
<1>8. \A k \in Launches \ {l} : \A x \in LaunchRow : x = launch[k] => (TestStands(x) => TestStands(x)')
  <2>1. CASE Benign
    BY <2>1, BenignStands
  <2>2. CASE launch[l].pc \in Testing
    <3>1. \A k \in Launches \ {l} : ~Owns(launch[k])
      BY <2>2, AtTest DEF ControlledInv, OneOwner
    <3> QED BY <3>1, StrangerStands
  <2> QED BY <2>1, <2>2, DieRows
<1>9. \A k \in Cleanups \ {l} : \A x \in LaunchRow :
        x = launch[k] => (CleanupStands(x) => CleanupStands(x)')
  <2>1. CASE sent'.clean = sent.clean
    BY <1>7, <2>1 DEF CleanupStands
  <2>2. CASE launch[l].pc = "cancel_once"
    <3>1. launch[l].pc \in Cleaning /\ MayClean(launch[l])
      BY <2>2 DEF Cleaning, MayClean
    <3>2. \A k \in Cleanups \ {l} : ~MayClean(launch[k])
      BY <3>1, AtCleanup DEF ControlledInv, OneOwner
    <3> QED BY <1>7, <3>2 DEF CleanupStands
  <2> QED BY <2>1, <2>2, DieRows
<1> QED BY <1>4, <1>5, <1>6, <1>7, <1>8, <1>9, Turns

LEMMA ArriveInv ==
  ASSUME ControlledInv, NEW write \in {"create", "move", "cancel"}, Arrive(write)
  PROVE  ControlledInv'
<1>1. /\ write \in flying /\ flying' = flying \ {write} /\ UNCHANGED <<files, sent, launch>>
      /\ record' = Effect(write)
  BY DEF Arrive
<1>2. \/ record' = record
      \/ write = "create" /\ record = "none" /\ record' = "A"
      \/ write = "move" /\ record = "A" /\ record' = "B"
      \/ write = "cancel" /\ record \in Slots /\ record' = "deleted"
  BY <1>1 DEF Effect
<1>3. ControlledTyped'
  BY <1>1, <1>2 DEF ControlledInv, ControlledTyped, Slots
<1>4. NoWriteFlies => NoWriteFlies' /\ write = "cancel"
  BY <1>1 DEF NoWriteFlies
<1>5. WritesAreRationed'
  BY <1>1, <1>2, <1>4 DEF ControlledInv, WritesAreRationed, Slots
<1>6. OneOwner'
  BY <1>1 DEF ControlledInv, OneOwner, Owns, MayClean
<1>7. \A holds : Covered(holds) => Covered(holds)'
  BY <1>1, <1>2 DEF Covered, Slots, ControlledInv, WritesAreRationed
<1>8. ASSUME NEW p \in Programs
      PROVE  /\ p \in Launches => TestStands(launch[p])'
             /\ p \in Cleanups => CleanupStands(launch[p])'
             /\ SuccessStands(launch[p])'
  <2>1. PICK x : x = launch[p]
    OBVIOUS
  <2>2. /\ CleanupStands(x) => CleanupStands(x)'
        /\ SuccessStands(x) => SuccessStands(x)'
    BY <1>1, <1>2 DEF CleanupStands, SuccessStands, MayClean, Slots
  <2>3. TestStands(x) => TestStands(x)'
    BY <1>1, <1>2, <1>4, <1>7 DEF TestStands, Slots
  <2> QED BY <1>1, <2>1, <2>2, <2>3, RowIs DEF TestStands, CleanupStands, SuccessStands, MayClean
<1> QED BY <1>3, <1>5, <1>6, <1>8 DEF ControlledInv, Programs

LEMMA ControlledStep == ControlledInv /\ [ControlledNext]_controlledVars => ControlledInv'
<1> SUFFICES ASSUME ControlledInv, [ControlledNext]_controlledVars PROVE ControlledInv'
  OBVIOUS
<1>1. ASSUME NEW l \in Programs, Step(l) PROVE ControlledInv'
  <2>1. CASE Approve(l)
    BY <2>1, ApproveInv DEF Approve
  <2> QED BY <1>1, <2>1, StartRunInv, ClaimInv, DieInv, CheckSlotInv, CreateInv, ReadsOfA, RescheduleInv,
             ExactGetBInv, CancelFirstInv, ReadsOfDeleted, CancelRepeatInv, PreDeleteInv,
             CancelOnceInv, ReadsOfCleanup DEF Step
<1>2. ASSUME UNCHANGED controlledVars PROVE ControlledInv'
  BY <1>2, ApproveInv DEF controlledVars
<1> QED BY <1>1, <1>2, ArriveInv DEF ControlledNext

\* A test that reports an end names every slot its record is in or may still
\* get into; one approval books and deletes once; and a report of success
\* leaves no record behind.
THEOREM HoldsAreAlwaysHonest == ControlledSpec => []HoldsAreHonest
BY ControlledInitially, ControlledStep, ControlledInvIsEnough, PTL DEF ControlledSpec

\* The files the scripts leave, and no other.
Artefacts == {"approval", "consumed", "binding", "cleanup approval", "cleanup consumed"}

FilesAreKnown == files \subseteq Artefacts

LEMMA FilesStay ==
  ASSUME FilesAreKnown, [ControlledNext]_controlledVars PROVE FilesAreKnown'
BY DEF FilesAreKnown, ControlledNext, Step, controlledVars, Artefacts, Approve, Approval, ClaimApproval, ConsumedFile,
       StartRun, ReadApproval, Die, CheckSlot, CreateA, FindA, ExactGetA, BoundedListA, RescheduleB,
       ExactGetB, CancelFirst, ExactGetDeleted, BoundedListDeleted, CancelRepeat, BoundedListFinal,
       PreDeleteExact, CancelOnce, PostDeleteExact, PostDeleteList, Reads, Arrive

\* ControlledTypeOK, of every number of launches and cleanups: the runs keep to
\* their places, and leave no file but those the script writes.
THEOREM ControlledIsTyped == ControlledSpec => []ControlledTypeOK
<1>1. ControlledInit => FilesAreKnown
  BY DEF ControlledInit, FilesAreKnown
<1>2. ControlledInv /\ FilesAreKnown => ControlledTypeOK
  BY DEF FilesAreKnown, ControlledInv, ControlledTyped, LaunchRow, Artefacts, ControlledTypeOK
<1> QED BY <1>1, <1>2, ControlledInitially, ControlledStep, FilesStay, PTL DEF ControlledSpec

-----------------------------------------------------------------------------
(* WebhookInbox.                                                           *)

Delivery ==
  [pc : {"unsent"}]
    \cup [pc : {"lock", "insert", "recorded", "unanswered", "refused", "failed"},
          record : SignalRecords]
    \cup [pc : {"commit"}, record : SignalRecords, sees : SUBSET SignalRecords]

\* The delivery that works on the table holds the lock, so what its statement
\* sees is what there is.
InboxInv ==
  /\ inbox \in [SignalRecords -> Nat]
  /\ delivery \in [Deliveries -> Delivery]
  /\ \A d \in Deliveries : delivery[d].pc \in {"insert", "commit"} <=> inboxLock = d
  /\ \A d \in Deliveries : delivery[d].pc = "commit" => delivery[d].sees = Kept
  /\ IsFiniteSet(Kept) /\ Cardinality(Kept) <= MaxSignals

LEMMA InboxInitially == InboxInit => InboxInv
<1> SUFFICES ASSUME InboxInit PROVE InboxInv
  OBVIOUS
<1>1. Kept = {}
  BY DEF InboxInit, Kept
<1>2. IsFiniteSet(Kept) /\ Cardinality(Kept) <= MaxSignals
  BY <1>1, FS_EmptySet, InboxAssumption
<1> QED BY <1>2, InboxAssumption DEF InboxInit, InboxInv, Delivery

LEMMA DoneFacts ==
  ASSUME InboxInv, NEW d \in Deliveries, delivery[d].pc \in {"lock", "insert", "commit"},
         NEW pc \in {"recorded", "unanswered", "refused", "failed"}, SignalDone(d, pc)
  PROVE  /\ delivery' \in [Deliveries -> Delivery]
         /\ \A e \in Deliveries : e # d => delivery'[e] = delivery[e]
         /\ delivery'[d].pc = pc
         /\ \A e \in Deliveries : delivery'[e].pc \in {"insert", "commit"} <=> inboxLock' = e
<1>1. delivery[d] \in Delivery /\ delivery[d].record \in SignalRecords
  BY DEF InboxInv, Delivery
<1> DEFINE x == [pc |-> pc, record |-> delivery[d].record]
<1>2. x \in Delivery /\ x.pc = pc
  BY <1>1 DEF Delivery
<1>3. delivery' = [delivery EXCEPT ![d] = x]
  BY DEF SignalDone
<1> HIDE DEF x
<1>4. delivery' \in [Deliveries -> Delivery]
      /\ \A e \in Deliveries : delivery'[e] = IF e = d THEN x ELSE delivery[e]
  BY <1>2, <1>3 DEF InboxInv
<1>5. \A e \in Deliveries : delivery'[e].pc \in {"insert", "commit"} <=> inboxLock' = e
  BY <1>2, <1>4, InboxAssumption DEF SignalDone, InboxInv
<1> QED BY <1>2, <1>4, <1>5

\* A committed signal counts one record more; a new one has room.
LEMMA CommitFacts ==
  ASSUME InboxInv, NEW d \in Deliveries, CommitSignal(d)
  PROVE  /\ inbox' \in [SignalRecords -> Nat]
         /\ IsFiniteSet(Kept') /\ Cardinality(Kept') <= MaxSignals
         /\ delivery'[d].pc = "refused" => delivery[d].record \notin Kept
<1>1. /\ delivery[d].pc = "commit" /\ delivery[d].record \in SignalRecords
      /\ delivery[d].sees = Kept
  BY DEF CommitSignal, InboxInv, Delivery
<1> DEFINE r == delivery[d].record
<1>2. CASE Admitted(d)
  <2>1. inbox' = [inbox EXCEPT ![r] = inbox[r] + 1]
    BY <1>2 DEF CommitSignal, Counted
  <2>2. SignalDone(d, "recorded") \/ SignalDone(d, "unanswered")
    BY <1>2 DEF CommitSignal
  <2>3. delivery'[d].pc # "refused"
    BY <1>1, <2>2, DoneFacts
  <2>4. inbox' \in [SignalRecords -> Nat] /\ Kept' = Kept \cup {r}
    BY <1>1, <2>1 DEF InboxInv, Kept
  <2>5. r \in Kept \/ Cardinality(Kept) < MaxSignals
    BY <1>1, <1>2 DEF Admitted
  <2>6. Cardinality(Kept) \in Nat /\ MaxSignals \in Nat
    BY InboxAssumption, FS_CardinalityType DEF InboxInv
  <2> HIDE DEF r
  <2>7. /\ IsFiniteSet(Kept \cup {r})
        /\ Cardinality(Kept \cup {r}) = IF r \in Kept THEN Cardinality(Kept) ELSE Cardinality(Kept) + 1
    BY FS_AddElement DEF InboxInv
  <2>8. IsFiniteSet(Kept') /\ Cardinality(Kept') <= MaxSignals
    BY <2>4, <2>5, <2>6, <2>7 DEF InboxInv
  <2> QED BY <2>3, <2>4, <2>8
<1>3. CASE ~Admitted(d)
  <2>1. inbox' = inbox /\ r \notin Kept
    BY <1>1, <1>3 DEF CommitSignal, Admitted
  <2>2. Kept' = Kept
    BY <2>1 DEF Kept
  <2> QED BY <2>1, <2>2 DEF InboxInv
<1> QED BY <1>2, <1>3

LEMMA InboxStep == InboxInv /\ [InboxNext]_inboxVars => InboxInv' /\ KnownRecordIsCounted
<1> SUFFICES ASSUME InboxInv, [InboxNext]_inboxVars PROVE InboxInv' /\ KnownRecordIsCounted
  OBVIOUS
<1>1. ASSUME NEW d \in Deliveries, NEW r \in SignalRecords, SendSignal(d, r)
      PROVE  InboxInv' /\ KnownRecordIsCounted
  <2>1. [pc |-> "lock", record |-> r] \in Delivery
    BY DEF Delivery
  <2>2. Kept' = Kept
    BY <1>1 DEF SendSignal, Kept
  <2> QED BY <1>1, <2>1, <2>2 DEF SendSignal, InboxInv, KnownRecordIsCounted
<1>2. ASSUME NEW d \in Deliveries, LockInbox(d) PROVE InboxInv' /\ KnownRecordIsCounted
  <2>1. delivery[d] \in Delivery /\ delivery[d].pc = "lock"
    BY <1>2 DEF LockInbox, InboxInv
  <2>2. [delivery[d] EXCEPT !.pc = "insert"] \in Delivery
        /\ [delivery[d] EXCEPT !.pc = "insert"].pc = "insert"
    BY <2>1 DEF Delivery
  <2>3. delivery' = [delivery EXCEPT ![d] = [delivery[d] EXCEPT !.pc = "insert"]]
        /\ inboxLock' = d /\ inboxLock = Nobody /\ inbox' = inbox
    BY <1>2 DEF LockInbox, LockFree
  <2>4. Kept' = Kept
    BY <2>3 DEF Kept
  <2> QED BY <2>1, <2>2, <2>3, <2>4, InboxAssumption DEF InboxInv, KnownRecordIsCounted
<1>3. ASSUME NEW d \in Deliveries, BeginInsert(d) PROVE InboxInv' /\ KnownRecordIsCounted
  <2> DEFINE x == [pc |-> "commit", record |-> delivery[d].record, sees |-> Kept]
  <2>1. delivery[d] \in Delivery /\ delivery[d].pc = "insert"
    BY <1>3 DEF BeginInsert, InboxInv
  <2>2. x \in Delivery /\ x.pc = "commit" /\ x.sees = Kept
    BY <2>1 DEF Delivery, Kept
  <2>3. delivery' = [delivery EXCEPT ![d] = x] /\ inboxLock' = inboxLock /\ inbox' = inbox
    BY <1>3 DEF BeginInsert
  <2>4. Kept' = Kept
    BY <2>3 DEF Kept
  <2> HIDE DEF x
  <2> QED BY <2>1, <2>2, <2>3, <2>4 DEF InboxInv, KnownRecordIsCounted
<1>4. ASSUME NEW d \in Deliveries, CommitSignal(d) PROVE InboxInv' /\ KnownRecordIsCounted
  <2>1. delivery[d].pc = "commit"
    BY <1>4 DEF CommitSignal
  <2>2. \E pc \in {"recorded", "unanswered", "refused"} : SignalDone(d, pc)
    BY <1>4 DEF CommitSignal
  <2>3. PICK pc \in {"recorded", "unanswered", "refused"} : SignalDone(d, pc)
    BY <2>2
  <2>4. /\ delivery' \in [Deliveries -> Delivery]
        /\ \A e \in Deliveries : e # d => delivery'[e] = delivery[e]
        /\ delivery'[d].pc = pc
        /\ \A e \in Deliveries : delivery'[e].pc \in {"insert", "commit"} <=> inboxLock' = e
    BY <2>1, <2>3, DoneFacts
  <2>5. \A e \in Deliveries : delivery'[e].pc # "commit"
    BY <2>1, <2>4 DEF InboxInv
  <2>6. KnownRecordIsCounted
    BY <1>4, <2>4, CommitFacts DEF KnownRecordIsCounted
  <2> QED BY <1>4, <2>4, <2>5, <2>6, CommitFacts DEF InboxInv
<1>5. ASSUME NEW d \in Deliveries, RollBackSignal(d) PROVE InboxInv' /\ KnownRecordIsCounted
  <2>1. /\ delivery[d].pc \in {"lock", "insert", "commit"} /\ inbox' = inbox
        /\ SignalDone(d, "failed")
    BY <1>5 DEF RollBackSignal
  <2>2. /\ delivery' \in [Deliveries -> Delivery]
        /\ \A e \in Deliveries : e # d => delivery'[e] = delivery[e]
        /\ delivery'[d].pc = "failed"
        /\ \A e \in Deliveries : delivery'[e].pc \in {"insert", "commit"} <=> inboxLock' = e
    BY <2>1, DoneFacts
  <2>3. Kept' = Kept
    BY <2>1 DEF Kept
  <2> QED BY <2>1, <2>2, <2>3 DEF InboxInv, KnownRecordIsCounted
<1>6. CASE UNCHANGED inboxVars
  BY <1>6 DEF inboxVars, InboxInv, Kept, KnownRecordIsCounted
<1> QED BY <1>1, <1>2, <1>3, <1>4, <1>5, <1>6 DEF InboxNext

\* Deliveries side by side never fill the inbox beyond its bound, and a signal
\* about a record the inbox knows is never refused for lack of room.
THEOREM InboxAlwaysKeepsItsBound == InboxSpec => InboxKeepsItsBound
<1>1. InboxInv' => InboxIsBounded'
  BY DEF InboxInv, InboxIsBounded
<1> QED BY <1>1, InboxInitially, InboxStep, PTL DEF InboxSpec, InboxKeepsItsBound

\* The deliveries that a row counts.
CountedFor(r) == {d \in Deliveries :
                    delivery[d].pc \in {"recorded", "unanswered"} /\ delivery[d].record = r}
InboxCounts ==
  /\ inboxLock \in Deliveries \cup {Nobody}
  /\ \A r \in SignalRecords :
       IsFiniteSet(CountedFor(r)) /\ inbox[r] = Cardinality(CountedFor(r))

LEMMA InboxCountsBegin == InboxInit => InboxCounts
<1> SUFFICES ASSUME InboxInit PROVE InboxCounts
  OBVIOUS
<1>1. ASSUME NEW r \in SignalRecords
      PROVE  IsFiniteSet(CountedFor(r)) /\ inbox[r] = Cardinality(CountedFor(r))
  <2>1. CountedFor(r) = {}
    BY DEF InboxInit, CountedFor
  <2> QED BY <2>1, FS_EmptySet DEF InboxInit
<1> QED BY <1>1 DEF InboxCounts, InboxInit

LEMMA InboxCountsHold ==
  ASSUME InboxInv, InboxCounts, [InboxNext]_inboxVars PROVE InboxCounts'
<1>1. ASSUME inbox' = inbox, inboxLock' \in Deliveries \cup {Nobody},
             \A d \in Deliveries : \/ delivery'[d] = delivery[d]
                                   \/ /\ delivery[d].pc \notin {"recorded", "unanswered"}
                                      /\ delivery'[d].pc \notin {"recorded", "unanswered"}
      PROVE  InboxCounts'
  <2>1. \A r \in SignalRecords : CountedFor(r)' = CountedFor(r)
    BY <1>1 DEF CountedFor
  <2> QED BY <1>1, <2>1 DEF InboxCounts
<1>2. delivery \in [Deliveries -> Delivery] /\ inbox \in [SignalRecords -> Nat]
      /\ inboxLock \in Deliveries \cup {Nobody}
  BY DEF InboxInv, InboxCounts
<1>3. ASSUME NEW d \in Deliveries, NEW r \in SignalRecords, SendSignal(d, r) PROVE InboxCounts'
  <2>1. PICK pc, x : pc = "lock" /\ x = [pc |-> pc, record |-> r]
    OBVIOUS
  <2>2. delivery' = [delivery EXCEPT ![d] = x] /\ x.pc = "lock" /\ delivery[d].pc = "unsent"
    BY <1>3, <2>1 DEF SendSignal
  <2>3. \A e \in Deliveries : delivery'[e] = IF e = d THEN x ELSE delivery[e]
    BY <1>2, <2>2
  <2> QED BY <1>1, <1>2, <1>3, <2>2, <2>3 DEF SendSignal
<1>4. ASSUME NEW d \in Deliveries, LockInbox(d) PROVE InboxCounts'
  <2>1. PICK pc, x : pc = "insert" /\ x = [delivery[d] EXCEPT !.pc = pc]
    OBVIOUS
  <2>2. delivery' = [delivery EXCEPT ![d] = x] /\ delivery[d].pc = "lock" /\ inboxLock' = d
        /\ inbox' = inbox
    BY <1>4, <2>1 DEF LockInbox
  <2>3. x.pc = "insert"
    BY <1>2, <2>1, <2>2 DEF Delivery
  <2>4. \A e \in Deliveries : delivery'[e] = IF e = d THEN x ELSE delivery[e]
    BY <1>2, <2>2
  <2> QED BY <1>1, <2>2, <2>3, <2>4
<1>5. ASSUME NEW d \in Deliveries, BeginInsert(d) PROVE InboxCounts'
  <2>1. PICK pc, x : pc = "commit" /\ x = [pc |-> pc, record |-> delivery[d].record, sees |-> Kept]
    OBVIOUS
  <2>2. delivery' = [delivery EXCEPT ![d] = x] /\ delivery[d].pc = "insert" /\ x.pc = "commit"
    BY <1>5, <2>1 DEF BeginInsert
  <2>3. \A e \in Deliveries : delivery'[e] = IF e = d THEN x ELSE delivery[e]
    BY <1>2, <2>2
  <2> QED BY <1>1, <1>2, <1>5, <2>2, <2>3 DEF BeginInsert
<1>6. ASSUME NEW d \in Deliveries, NEW pc, SignalDone(d, pc)
      PROVE  /\ \A e \in Deliveries : e # d => delivery'[e] = delivery[e]
             /\ delivery'[d].pc = pc /\ delivery'[d].record = delivery[d].record
             /\ inboxLock' \in Deliveries \cup {Nobody}
  BY <1>2, <1>6 DEF SignalDone
<1>7. ASSUME NEW d \in Deliveries, RollBackSignal(d) PROVE InboxCounts'
  BY <1>1, <1>6, <1>7 DEF RollBackSignal
<1>8. ASSUME NEW d \in Deliveries, CommitSignal(d) PROVE InboxCounts'
  <2>1. delivery[d].pc = "commit" /\ delivery[d].record \in SignalRecords
    BY <1>2, <1>8 DEF CommitSignal, Delivery
  <2>2. CASE ~Admitted(d)
    BY <1>1, <1>6, <1>8, <2>1, <2>2 DEF CommitSignal
  <2>3. CASE Admitted(d)
    <3>1. PICK x : x = delivery[d].record /\ x \in SignalRecords
      BY <2>1
    <3>2. inbox' = [inbox EXCEPT ![x] = inbox[x] + 1]
      BY <1>8, <2>3, <3>1 DEF CommitSignal, Counted
    <3>3. PICK pc \in {"recorded", "unanswered"} : SignalDone(d, pc)
      BY <1>8, <2>3 DEF CommitSignal
    <3>4. /\ \A e \in Deliveries : e # d => delivery'[e] = delivery[e]
          /\ delivery'[d].pc \in {"recorded", "unanswered"} /\ delivery'[d].record = x
          /\ inboxLock' \in Deliveries \cup {Nobody}
      BY <1>6, <3>1, <3>3
    <3>5. ASSUME NEW r \in SignalRecords
          PROVE  IsFiniteSet(CountedFor(r)') /\ inbox'[r] = Cardinality(CountedFor(r)')
      <4>1. IsFiniteSet(CountedFor(r)) /\ inbox[r] = Cardinality(CountedFor(r)) /\ d \notin CountedFor(r)
        BY <2>1 DEF InboxCounts, CountedFor
      <4>2. CASE r # x
        <5>1. CountedFor(r)' = CountedFor(r)
          BY <2>1, <3>1, <3>4, <4>2 DEF CountedFor
        <5> QED BY <1>2, <3>2, <4>1, <4>2, <5>1
      <4>3. CASE r = x
        <5>1. CountedFor(r)' = CountedFor(r) \cup {d}
          BY <3>1, <3>4, <4>3 DEF CountedFor
        <5>2. IsFiniteSet(CountedFor(r) \cup {d})
              /\ Cardinality(CountedFor(r) \cup {d}) = Cardinality(CountedFor(r)) + 1
          BY <4>1, FS_AddElement
        <5>3. inbox'[r] = inbox[r] + 1
          BY <1>2, <3>2, <4>3
        <5> QED BY <4>1, <5>1, <5>2, <5>3
      <4> QED BY <4>2, <4>3
    <3> QED BY <3>4, <3>5 DEF InboxCounts
  <2> QED BY <2>2, <2>3
<1>9. CASE UNCHANGED inboxVars
  BY <1>1, <1>2, <1>9 DEF inboxVars
<1> QED BY <1>3, <1>4, <1>5, <1>7, <1>8, <1>9 DEF InboxNext

\* InboxTypeOK, of every number of deliveries and records: the inbox counts a
\* record exactly as often as its deliveries were recorded, answered or not.
THEOREM InboxIsTyped == InboxSpec => []InboxTypeOK
<1>1. InboxInv /\ InboxCounts => InboxTypeOK
  <2> SUFFICES ASSUME InboxInv, InboxCounts PROVE InboxTypeOK
    OBVIOUS
  <2>1. ASSUME NEW d \in Deliveries
        PROVE  delivery[d].pc \in {"unsent", "lock", "insert", "commit", "recorded", "unanswered",
                                   "refused", "failed"}
    <3>1. delivery[d] \in Delivery
      BY DEF InboxInv
    <3> QED BY <3>1 DEF Delivery
  <2> QED BY <2>1 DEF InboxCounts, CountedFor, InboxTypeOK
<1>2. InboxInv /\ [InboxNext]_inboxVars => InboxInv'
  BY InboxStep
<1> QED BY <1>1, <1>2, InboxInitially, InboxCountsBegin, InboxCountsHold, PTL DEF InboxSpec
=============================================================================
