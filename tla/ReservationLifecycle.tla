------------------------- MODULE ReservationLifecycle -------------------------
(***************************************************************************)
(* One court reservation and every operation ever asked of it, driven      *)
(* through startReservationOperation and transitionReservationOperation    *)
(* (backend/src/reservations/reservation.state-machine.ts).  The callers   *)
(* are arbitrary: any operation, any command, any claimed proof and any    *)
(* clock reading may be presented at any time.                             *)
(***************************************************************************)
EXTENDS ReservationRules, Integers, FiniteSets

CONSTANTS
    Operations,     \* operation identifiers; also their keys and external ids
    Targets,        \* courts at times
    Records,        \* provider record identifiers
    NoRecord,       \* the missing provider binding
    MaxTime         \* bound on the clock readings

ASSUME LifecycleAssumption ==
    /\ NoRecord \notin Records
    /\ MaxTime \in Nat

VARIABLES
    reservation,    \* the CourtReservation
    operation       \* the ReservationOperations by identifier

vars == <<reservation, operation>>

Reservation ==
    [status : ReservationStatus, target : Targets,
     binding : Records \cup {NoRecord}, updatedAt : 0..MaxTime, version : Nat]

Operation ==
    [status : OperationStatus, type : OperationType, target : Targets,
     createdAt : 0..MaxTime]

TypeOK ==
    /\ reservation \in Reservation
    /\ operation \in [Operations -> Operation]

\* createCourtReservation
Init ==
    /\ \E t \in Targets :
          /\ reservation = [status |-> "unbooked", target |-> t,
                            binding |-> NoRecord, updatedAt |-> 0, version |-> 1]
          /\ operation = [o \in Operations |->
                            [status |-> "absent", type |-> "create",
                             target |-> t, createdAt |-> 0]]

\* A create states the target from the start; other operations do not touch it.
StartTarget(type, t) == IF type = "create" THEN t ELSE reservation.target

\* startReservationOperation for a key not seen before.  With a key already
\* used it returns the stored operation, or a conflict, and changes nothing.
Start(o, type, t, now) ==
    /\ operation[o].status = "absent"
    /\ now >= reservation.updatedAt
    /\ CanStart(reservation.status, type)
    /\ reservation' = [reservation EXCEPT
            !.status = PendingStatus[type],
            !.target = StartTarget(type, t),
            !.updatedAt = now,
            !.version = @ + 1]
    /\ operation' = [operation EXCEPT
            ![o] = [status |-> "pending", type |-> type,
                    target |-> t, createdAt |-> now]]

\* hasValidBindingForConfirmation: a create or a reschedule brings the binding
\* of the record the provider made; a cancel brings the exact deleted record,
\* which must be the bound one under the external id of this very operation.
ValidProof(o, binding, proofRecord, proofOperation) ==
    IF operation[o].type = "cancel"
    THEN /\ binding = NoRecord
         /\ reservation.binding \in Records
         /\ proofRecord = reservation.binding
         /\ proofOperation = o
    ELSE /\ binding \in Records
         /\ proofRecord = NoRecord

\* The reservation after a command; only a confirmed create or reschedule
\* moves the target and replaces the binding.
Moved(o, command) ==
    command \in ConfirmingCommand /\ operation[o].type # "cancel"

\* transitionReservationOperation, when it answers "transitioned"; a proof
\* presented with any other command is ignored.
Transition(o, command, now) ==
    LET type == operation[o].type IN
    /\ operation[o].status # "absent"
    /\ now >= reservation.updatedAt
    /\ now >= operation[o].createdAt
    /\ OperationMatches(reservation.status, type, operation[o].status)
    /\ Allowed(operation[o].status, command)
    /\ \E binding, proofRecord \in Records \cup {NoRecord}, proofOperation \in Operations :
          /\ IF command \in ConfirmingCommand
             THEN ValidProof(o, binding, proofRecord, proofOperation)
             ELSE binding = NoRecord /\ proofRecord = NoRecord /\ proofOperation = o
          /\ reservation' = [reservation EXCEPT
                !.status = NextReservationStatus(type, command),
                !.target = IF Moved(o, command) THEN operation[o].target ELSE @,
                !.binding = IF Moved(o, command) THEN binding ELSE @,
                !.updatedAt = now,
                !.version = @ + 1]
    /\ operation' = [operation EXCEPT ![o].status = NextOperationStatus[command]]

Next ==
    \E o \in Operations, now \in 0..MaxTime :
        \/ \E type \in OperationType, t \in Targets : Start(o, type, t, now)
        \/ \E command \in Command : Transition(o, command, now)

Spec == Init /\ [][Next]_vars

-----------------------------------------------------------------------------
Active(o) == operation[o].status \in ActiveOperationStatus

\* Nothing stores "the current operation" of a reservation, yet at most one
\* operation is ever pending or unknown: the statuses alone keep a second one
\* from starting while the first may still reach the provider.
OneActiveOperation ==
    \A o, q \in Operations : Active(o) /\ Active(q) => o = q

\* A reservation in an intermediate status is explained by exactly the
\* operation that put it there, so every command finds its operation: there is
\* no status from which neither a new operation nor a command can leave,
\* except "cancelled".
StatusIsExplained ==
    \/ reservation.status \in {"unbooked", "rejected", "confirmed", "cancelled"}
    \/ \E o \in Operations :
          /\ Active(o)
          /\ OperationMatches(reservation.status, operation[o].type,
                              operation[o].status)

\* Whatever was tried and failed on a confirmed reservation, it keeps the
\* binding to its provider record: without it, it could never be refreshed or
\* cancelled again.
ConfirmedIsBound ==
    /\ reservation.status \in {"confirmed", "reschedule_pending",
                               "cancel_pending", "cancelled"}
          => reservation.binding \in Records
    /\ reservation.status \in {"pending_confirmation", "rejected", "unbooked"}
          => reservation.binding = NoRecord

\* An operation that reached an outcome keeps it, whatever is presented later,
\* and a cancelled reservation never comes back.
OutcomeIsFinal ==
  /\ \A o \in Operations :
        operation[o].status \in TerminalOperationStatus =>
            operation'[o] = operation[o]
  /\ reservation.status = "cancelled" => reservation' = reservation

\* A confirmed reservation moves to another court or time only when a
\* reschedule of exactly that target is confirmed; a rejected or uncertain
\* reschedule leaves it where it was.
MovesOnlyWhenConfirmed ==
  (reservation.binding \in Records /\ reservation'.target # reservation.target)
    => \E o \in Operations :
          /\ operation[o].type = "reschedule"
          /\ Active(o)
          /\ operation'[o].status \in TerminalOperationStatus
          /\ reservation'.target = operation[o].target

\* Any series of operations, of which some fail or stay uncertain, leaves a
\* reservation whose status, operation and binding explain each other.
ReservationIsExplained == OneActiveOperation /\ StatusIsExplained /\ ConfirmedIsBound

\* Only the outcome of an operation moves a reservation, and once.
OnlyOutcomesMove == [][OutcomeIsFinal /\ MovesOnlyWhenConfirmed]_vars
=============================================================================
