---------------------------- MODULE ReservationRules ----------------------------
(***************************************************************************)
(* The rules of the court-reservation domain                               *)
(* (backend/src/reservations/reservation.state-machine.ts) as operators    *)
(* on statuses: which operation may start, which command an operation      *)
(* accepts, and what each command makes of the operation and of its        *)
(* reservation.  Every module about reservations is built from them.       *)
(***************************************************************************)

ReservationStatus ==
    {"unbooked", "pending_confirmation", "confirmed", "reschedule_pending",
     "cancel_pending", "cancelled", "rejected", "unknown"}

OperationType == {"create", "reschedule", "cancel"}

\* "absent" is the operation row that does not exist.
OperationStatus ==
    {"absent", "pending", "unknown", "confirmed", "rejected", "reconciled"}

ActiveOperationStatus == {"pending", "unknown"}
TerminalOperationStatus == {"confirmed", "rejected", "reconciled"}

Command ==
    {"mark_unknown", "confirm", "reject",
     "reconcile_confirmed", "reconcile_rejected"}

\* The commands that carry the outcome "confirmed", and so need a proof.
ConfirmingCommand == {"confirm", "reconcile_confirmed"}

PendingStatus ==
    [create |-> "pending_confirmation",
     reschedule |-> "reschedule_pending",
     cancel |-> "cancel_pending"]

\* mutant of CanStart: a booking may be cancelled while it is being moved
CanStartWhileMoving(status, type) ==
    IF type = "create" THEN status \in {"unbooked", "rejected"}
                       ELSE status \in {"confirmed", "reschedule_pending"}

CanStart(status, type) ==
    IF type = "create" THEN status \in {"unbooked", "rejected"}
                       ELSE status = "confirmed"

\* reservationOperationMatchesReservation: an active operation explains the
\* status of its reservation.
OperationMatches(status, type, opStatus) ==
    /\ opStatus = "pending" => status = PendingStatus[type]
    /\ opStatus = "unknown" => status = "unknown"

\* mutant of Allowed: a late error reopens a confirmed operation
AllowedWhenConfirmed(opStatus, command) ==
    \/ /\ opStatus = "pending"
       /\ command \in {"mark_unknown", "confirm", "reject"}
    \/ opStatus = "confirmed" /\ command = "mark_unknown"
    \/ /\ opStatus = "unknown"
       /\ command \in {"reconcile_confirmed", "reconcile_rejected"}

\* The command is one the status of the operation allows.
Allowed(opStatus, command) ==
    \/ /\ opStatus = "pending"
       /\ command \in {"mark_unknown", "confirm", "reject"}
    \/ /\ opStatus = "unknown"
       /\ command \in {"reconcile_confirmed", "reconcile_rejected"}

NextOperationStatus ==
    [mark_unknown |-> "unknown",
     confirm |-> "confirmed",
     reject |-> "rejected",
     reconcile_confirmed |-> "reconciled",
     reconcile_rejected |-> "reconciled"]

\* mutant of NextReservationStatus: the reservation takes the operation's status
NextReservationStatusCopied(type, command) == NextOperationStatus[command]

\* terminalReservation, and the "unknown" of mark_unknown.
NextReservationStatus(type, command) ==
    IF command = "mark_unknown" THEN "unknown"
    ELSE IF command \in ConfirmingCommand
         THEN IF type = "cancel" THEN "cancelled" ELSE "confirmed"
         ELSE IF type = "create" THEN "rejected" ELSE "confirmed"

\* reservationHoldsCourtSlot: the reservation keeps its court from everybody
\* else, the uncertain one included.
HoldsCourtSlot(status) == status \notin {"unbooked", "rejected", "cancelled"}
=============================================================================
