------------------------ MODULE ReservationCancellation ------------------------
(***************************************************************************)
(* The cancellation of a booked court: the service asks the calendar to    *)
(* delete the record, at most once for each operation, reads the record,   *)
(* and gives the court back only when the read shows it deleted.  Requests *)
(* are repeated, cut off, or race under other keys; the staff change the   *)
(* record and players read the booking meanwhile.                          *)
(***************************************************************************)
EXTENDS ReservationRules, Integers, FiniteSets

CONSTANTS CancelRequests,  \* calls of ReservationCancellationService.request
          CancelKeys,      \* idempotency keys, each with its operation
          References,      \* external ids that requests under a key name, by key
          OwnReference,    \* the one the record was created with
          MaxStaffEdits    \* bound: changes the staff make to the record

ASSUME CancellationAssumption ==
  MaxStaffEdits \in Nat /\ \A k \in CancelKeys : OwnReference \in References[k]

VARIABLES
  booked,    \* the reservation row with its hold
  cancelOp,  \* the cancel operations by key
  asker,     \* the requests
  deleting,  \* the keys whose DELETE is under way
  deletes,   \* history: how often each operation was sent as a DELETE
  entry,     \* external: the record in the calendar
  reader     \* a read of the booking, which may refresh it

cancelVars == <<booked, cancelOp, asker, deleting, deletes, entry, reader>>

NotAsked == [pc |-> "idle", answer |-> "none"]
NotReading == [pc |-> "idle"]

CancellationInit ==
  /\ booked = [status |-> "confirmed", version |-> 1, edit |-> 0, held |-> TRUE]
  /\ cancelOp = [k \in CancelKeys |-> [status |-> "absent", reference |-> OwnReference]]
  /\ asker = [r \in CancelRequests |-> NotAsked]
  /\ deleting = {} /\ deletes = [k \in CancelKeys |-> 0]
  /\ entry = [edit |-> 0, deleted |-> FALSE, named |-> TRUE]
  /\ reader = NotReading

-----------------------------------------------------------------------------
(* The transactions, which lock the row and run the rules of the domain.   *)

\* startReservationOperation for a new key.
MayStartCancel(k) == cancelOp[k].status = "absent" /\ CanStart(booked.status, "cancel")

Started(k, reference) ==
  /\ booked' = [booked EXCEPT !.status = PendingStatus["cancel"], !.version = @ + 1]
  /\ cancelOp' = [cancelOp EXCEPT ![k] = [status |-> "pending", reference |-> reference]]

\* transitionReservationOperation, and the release of the hold.
MayTransition(k, command) ==
  /\ OperationMatches(booked.status, "cancel", cancelOp[k].status)
  /\ Allowed(cancelOp[k].status, command)

Transitioned(k, command) ==
  LET status == NextReservationStatus("cancel", command)
  IN /\ booked' = [booked EXCEPT !.status = status, !.version = @ + 1,
                     !.held = HoldsCourtSlot(status)]
     /\ cancelOp' = [cancelOp EXCEPT ![k].status = NextOperationStatus[command]]

-----------------------------------------------------------------------------
(* One request.                                                            *)

Answers(r, answer) == asker' = [asker EXCEPT ![r] = [pc |-> "idle", answer |-> answer]]
Enters(r, pc) == asker' = [asker EXCEPT ![r].pc = pc]

AskCancel(r, k, reference) ==
  /\ asker[r].pc = "idle"
  /\ asker' = [asker EXCEPT ![r] = [pc |-> "start", answer |-> "none", key |-> k,
                                    reference |-> reference, proof |-> FALSE]]
  /\ UNCHANGED <<booked, cancelOp, deleting, deletes, entry, reader>>

\* idempotentResult
Remembered(k) ==
  CASE booked.status = "cancelled" /\ cancelOp[k].status = "confirmed" -> "cancelled"
    [] booked.status = "confirmed" /\ cancelOp[k].status = "rejected" -> "rejected"
    [] cancelOp[k].status = "pending" -> "in_progress"
    [] OTHER -> "unknown"

\* A key used before never gets beyond its operation; with another body it is
\* blocked.
\* mutant of MayDelete: a pending operation is taken up again
MayDeletePending(r) ==
  MayStartCancel(asker[r].key) \/ cancelOp[asker[r].key].status = "pending"
MayDelete(r) == MayStartCancel(asker[r].key)

StartCancel(r) ==
  LET k == asker[r].key
  IN /\ asker[r].pc = "start"
     /\ \/ /\ MayStartCancel(k) /\ Started(k, asker[r].reference)
           /\ Answers(r, "blocked")       \* the commit is reported as failed
        \/ /\ MayDelete(r) /\ Enters(r, "delete")
           /\ IF MayStartCancel(k) THEN Started(k, asker[r].reference)
                                   ELSE UNCHANGED <<booked, cancelOp>>
        \/ /\ ~MayDelete(r) /\ cancelOp[k].status # "absent"
           /\ Answers(r, IF cancelOp[k].reference = asker[r].reference
                         THEN Remembered(k) ELSE "blocked")
           /\ UNCHANGED <<booked, cancelOp>>
        \/ /\ Answers(r, "blocked")       \* forbidden_transition, or no database
           /\ UNCHANGED <<booked, cancelOp>>
     /\ UNCHANGED <<deleting, deletes, entry, reader>>

\* deleteOnce: the client is switched off, or the DELETE leaves.
Delete(r) ==
  LET k == asker[r].key
  IN /\ asker[r].pc = "delete"
     /\ \/ Enters(r, "reject") /\ UNCHANGED <<deleting, deletes>>
        \/ /\ Enters(r, "read")
           /\ deleting' = deleting \cup {k} /\ deletes' = [deletes EXCEPT ![k] = @ + 1]
     /\ UNCHANGED <<booked, cancelOp, entry, reader>>

\* mutant of ProvesDeleted: a record that is not found counts as deleted
ProvesDeletedOrMissing(r, found) == ~found \/ entry.deleted
\* canonicalDeletedProof: the record itself, under the reference of the request.
ProvesDeleted(r, found) ==
  found /\ entry.deleted /\ entry.named /\ asker[r].reference = OwnReference

\* readExact, which waits for no answer to the DELETE; it may find nothing.
ReadExact(r) ==
  /\ asker[r].pc = "read"
  /\ \E found \in BOOLEAN :
       asker' = [asker EXCEPT ![r].pc = "decide", ![r].proof = ProvesDeleted(r, found)]
  /\ UNCHANGED <<booked, cancelOp, deleting, deletes, entry, reader>>

\* The last transaction; when it fails, or the clock is behind, the answer is
\* unknown, as it is when the commit is only reported as failed.
Settles(r, command, answer) ==
  LET k == asker[r].key
  IN /\ \/ MayTransition(k, command) /\ Transitioned(k, command)
           /\ (Answers(r, answer) \/ Answers(r, "unknown"))
        \/ UNCHANGED <<booked, cancelOp>> /\ Answers(r, "unknown")
     /\ UNCHANGED <<deleting, deletes, entry, reader>>

RejectCancel(r) == asker[r].pc = "reject" /\ Settles(r, "reject", "rejected")
Decide(r) ==
  /\ asker[r].pc = "decide"
  /\ IF asker[r].proof THEN Settles(r, "confirm", "cancelled")
                       ELSE Settles(r, "mark_unknown", "unknown")

CancelCrash(r) ==
  /\ asker[r].pc # "idle" /\ Answers(r, "lost")
  /\ UNCHANGED <<booked, cancelOp, deleting, deletes, entry, reader>>

-----------------------------------------------------------------------------
(* The calendar, and a player who looks at the booking.                    *)

\* external: a DELETE arrives, perhaps long after the request, or is lost.
DeleteArrives(k) ==
  /\ k \in deleting /\ deleting' = deleting \ {k}
  /\ entry' \in {entry, [entry EXCEPT !.deleted = TRUE]}
  /\ UNCHANGED <<booked, cancelOp, asker, deletes, reader>>

\* external: the staff move or delete the record; it may lose its reference.
StaffEdits ==
  /\ ~entry.deleted /\ entry.edit < MaxStaffEdits
  /\ \E deleted, named \in BOOLEAN :
       entry' = [edit |-> entry.edit + 1, deleted |-> deleted, named |-> named]
  /\ UNCHANGED <<booked, cancelOp, asker, deleting, deletes, reader>>

ReadBooking ==
  /\ reader.pc = "idle" /\ booked.status = "confirmed"
  /\ reader' = [pc |-> "record", version |-> booked.version]
  /\ UNCHANGED <<booked, cancelOp, asker, deleting, deletes, entry>>
ReadEntry ==
  /\ reader.pc = "record"
  /\ reader' = [pc |-> "refresh", version |-> reader.version, seen |-> entry]
  /\ UNCHANGED <<booked, cancelOp, asker, deleting, deletes, entry>>

\* applyExactRefresh writes a change to a row that is still as it was read.
\* mutant of MayRefresh: whatever the status, and whichever version was read
MayRefreshAnyway == reader.seen.edit # booked.edit \/ reader.seen.deleted
MayRefresh ==
  /\ booked.status = "confirmed" /\ booked.version = reader.version
  /\ reader.seen.edit # booked.edit \/ reader.seen.deleted

RefreshBooking ==
  /\ reader.pc = "refresh" /\ reader' = NotReading
  /\ \/ /\ MayRefresh
        /\ booked' = [status |-> IF reader.seen.deleted THEN "cancelled" ELSE "confirmed",
                      version |-> booked.version + 1, edit |-> reader.seen.edit,
                      held |-> ~reader.seen.deleted]
     \/ UNCHANGED booked
  /\ UNCHANGED <<cancelOp, asker, deleting, deletes, entry>>

CancellationNext ==
  \/ \E r \in CancelRequests :
       \/ \E k \in CancelKeys : \E reference \in References[k] : AskCancel(r, k, reference)
       \/ StartCancel(r) \/ Delete(r) \/ ReadExact(r) \/ RejectCancel(r) \/ Decide(r)
       \/ CancelCrash(r)
  \/ \E k \in CancelKeys : DeleteArrives(k)
  \/ StaffEdits \/ ReadBooking \/ ReadEntry \/ RefreshBooking

CancellationSpec == CancellationInit /\ [][CancellationNext]_cancelVars

-----------------------------------------------------------------------------
(* Properties                                                              *)

\* Every variable keeps its type.
CancellationTypeOK ==
  /\ booked.status \in ReservationStatus /\ booked.held \in BOOLEAN
  /\ \A k \in CancelKeys :
       cancelOp[k].status \in OperationStatus /\ cancelOp[k].reference \in References[k]
  /\ deleting \subseteq CancelKeys

\* The court is given back, and the booking shown as cancelled, only once the
\* record is deleted, however requests, reads and the staff cross each other.
ReleasedIsDeleted ==
  /\ booked.held = HoldsCourtSlot(booked.status)
  /\ ~booked.held => entry.deleted

\* No repeated, overtaken or cut off request deletes a second time; an
\* operation that was rejected has deleted nothing, and answers repeat the rows.
AskedOnce ==
  /\ \A k \in CancelKeys :
       deletes[k] <= 1 /\ (cancelOp[k].status = "rejected" => deletes[k] = 0)
  /\ \A r \in CancelRequests :
       /\ asker[r].answer = "cancelled" => booked.status = "cancelled"
       /\ asker[r].pc = "delete" => cancelOp[asker[r].key].status = "pending"

\* A booking under cancellation, or whose cancellation is uncertain, is
\* explained by one operation; nobody else moves it meanwhile.
UnderOneOperation ==
  Cardinality({k \in CancelKeys : cancelOp[k].status \in ActiveOperationStatus}) =
    IF booked.status \in {"cancel_pending", "unknown"} THEN 1 ELSE 0

CancellationIsTrue == ReleasedIsDeleted /\ AskedOnce /\ UnderOneOperation
=============================================================================
