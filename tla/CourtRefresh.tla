----------------------------- MODULE CourtRefresh -----------------------------
(***************************************************************************)
(* A booked court after its booking: the club's staff move and delete the  *)
(* record in the YCLIENTS calendar, and the service finds out only when a  *)
(* reservation is read.  BookingReservationService.readCanonical with a    *)
(* provider binding (backend/src/bookings/booking-reservation.service.ts), *)
(* PostgresCourtReservationRepository.applyExactRefresh, and, in the same  *)
(* transaction, PostgresMatchReservationRepository.                        *)
(* synchronizeCanonicalRefresh, which carries the change to the match that *)
(* is played on the court.  Reads run at once; between the three steps of  *)
(* a read the staff, other reads, and the players of the match act.        *)
(*                                                                         *)
(* Every reservation here is bound to a calendar record: it is confirmed,  *)
(* until the record is found deleted.                                      *)
(***************************************************************************)
EXTENDS Integers, FiniteSets

CONSTANTS
    Reservations,   \* the confirmed reservations of one owner
    Slots,          \* a court from a start to an end
    NoSlot,         \* no slot
    Overlap(_, _),  \* the slots are on one court and share time
    Matches,        \* the matches of the owner
    Reads,          \* reads in progress at a time
    MaxChanges,     \* bound: changes the staff make in the calendar
    MaxTime         \* bound: ticks of the clock

ASSUME RefreshAssumption ==
    /\ Reservations # {}
    /\ NoSlot \notin Slots
    /\ \A s \in Slots : Overlap(s, s)
    /\ \A s, t \in Slots : Overlap(s, t) => Overlap(t, s)
    /\ MaxChanges \in Nat
    /\ MaxTime \in Nat

VARIABLES
    res,        \* the court_reservations rows
    hold,       \* the slot of the active reservation_slot_holds row, or NoSlot
    link,       \* the latest match_reservation_links row of each match
    match,      \* the matches rows
    announced,  \* the court in the latest match_reservation_events row
    read,       \* the reads in progress
    record,     \* external: the calendar record of each reservation
    changes,    \* external: how often the staff have changed the calendar
    now         \* the clock, in seconds

database == <<res, hold, link, match, announced>>
outside == <<record, changes, now>>
vars == <<res, hold, link, match, announced, read, record, changes, now>>

-----------------------------------------------------------------------------
Time == 0..MaxTime

\* asOf is history: the change of the calendar that the row last took over.
Reservation ==
    [status : {"confirmed", "cancelled"}, target : Slots,
     version : 1..(MaxChanges + 1), updated : Time, asOf : 0..MaxChanges]

Link ==
    [state : {"none", "active", "released"}, reservation : Reservations,
     target : Slots, observed : 1..(MaxChanges + 1), updated : Time]

Match == [status : {"open", "completed"}, over : BOOLEAN, updated : Time]

\* api: the api_id of the record is ours, was dropped, or was overwritten.
Record == [slot : Slots, deleted : BOOLEAN, api : {"own", "none", "other"}]

\* version, target: the reservation as it was read.  found: the record the
\* provider answered with, at the time of the change asOf.
Read ==
    [pc : {"record", "scan", "apply", "done"},
     reservation : Reservations, version : 1..(MaxChanges + 1), target : Slots,
     found : Record, asOf : 0..MaxChanges,
     outcome : {"none", "fresh", "stale", "refused"}]

TypeOK ==
    /\ res \in [Reservations -> Reservation]
    /\ hold \in [Reservations -> Slots \cup {NoSlot}]
    /\ link \in [Matches -> Link]
    /\ match \in [Matches -> Match]
    /\ announced \in [Matches -> Slots \cup {NoSlot}]
    /\ read \in [Reads -> Read]
    /\ record \in [Reservations -> Record]
    /\ changes \in 0..MaxChanges
    /\ now \in Time

\* A read that has answered, and forgotten everything else.
Ended(outcome) ==
    LET s == CHOOSE s \in Slots : TRUE IN
    [pc |-> "done", reservation |-> CHOOSE r \in Reservations : TRUE,
     version |-> 1, target |-> s,
     found |-> [slot |-> s, deleted |-> FALSE, api |-> "own"],
     asOf |-> 0, outcome |-> outcome]

\* Any reservations that hold their courts, as booking leaves them.
Init ==
    /\ hold \in [Reservations -> Slots]
    /\ \A q, r \in Reservations : q # r => ~Overlap(hold[q], hold[r])
    /\ res = [r \in Reservations |->
                [status |-> "confirmed", target |-> hold[r], version |-> 1,
                 updated |-> 0, asOf |-> 0]]
    /\ record = [r \in Reservations |->
                   [slot |-> hold[r], deleted |-> FALSE, api |-> "own"]]
    /\ LET r == CHOOSE r \in Reservations : TRUE IN
       link = [m \in Matches |->
                 [state |-> "none", reservation |-> r, target |-> hold[r],
                  observed |-> 1, updated |-> 0]]
    /\ match = [m \in Matches |->
                  [status |-> "open", over |-> FALSE, updated |-> 0]]
    /\ announced = [m \in Matches |-> NoSlot]
    /\ read = [p \in Reads |-> Ended("none")]
    /\ changes = 0
    /\ now = 0

-----------------------------------------------------------------------------
(* The calendar, as far as the service can tell.                           *)

\* external: the staff move a record into a free time, or delete it; either
\* may drop or overwrite its api_id.
Change(r, changed) ==
    /\ changes < MaxChanges
    /\ ~record[r].deleted
    /\ changed # record[r]
    /\ changed.deleted \/ \A q \in Reservations \ {r} :
            record[q].deleted \/ ~Overlap(record[q].slot, changed.slot)
    /\ record' = [record EXCEPT ![r] = changed]
    /\ changes' = changes + 1
    /\ UNCHANGED <<database, read, now>>

Tick ==
    /\ now < MaxTime
    /\ now' = now + 1
    /\ UNCHANGED <<database, read, record, changes>>

-----------------------------------------------------------------------------
(* The rows.                                                               *)

\* mutant of SlotFree: only the very same slot counts as taken
SlotFreeExact(r, s) == \A q \in Reservations \ {r} : hold[q] # s

\* The exclusion constraint reservation_slot_holds_no_overlap.
SlotFree(r, s) ==
    \A q \in Reservations \ {r} : hold[q] # NoSlot => ~Overlap(hold[q], s)

\* mutant of Proven: a record without an api_id proves nothing
ProvenByApiId(found) == found.api = "own"

\* matchesRefreshBindingProof: the api_id is ours or is missing.
Proven(found) == found.api # "other"

\* mutant of Current: an unchanged row is written again
CurrentNever(r, found) == FALSE

\* targetAlreadyCurrent, effectAlreadyCurrent: the row says so already.
Current(r, found) ==
    /\ res[r].target = found.slot
    /\ found.deleted <=> res[r].status = "cancelled"

\* The row once it took over what was found.
Refreshed(r, found, asOf) ==
    [status |-> IF found.deleted THEN "cancelled" ELSE "confirmed",
     target |-> found.slot, version |-> res[r].version + 1,
     updated |-> now, asOf |-> asOf]

\* The hold of a refreshed row: released, or released and taken again.
HoldOf(row) == IF row.status = "cancelled" THEN NoSlot ELSE row.target

\* The matches with an active link to r.
LinkedTo(r) ==
    {m \in Matches : link[m].state = "active" /\ link[m].reservation = r}

\* transitionMatchReservationRefresh accepts the row for the link of m.  The
\* time of the transition is the one of the row.
Acceptable(m, row) ==
    /\ row.updated >= match[m].updated
    /\ row.updated >= link[m].updated
    /\ match[m].status # "completed"
    /\ row.version >= link[m].observed
    /\ row.version = link[m].observed =>
         row.status = "confirmed" /\ row.target = link[m].target

\* mutant of LinkAfter: the link outlives the cancelled reservation
LinkAfterMove(m, row) ==
    [link[m] EXCEPT !.target = row.target, !.observed = row.version,
                    !.updated = row.updated]

\* The link of m, and the court its players were last told, after the row.
LinkAfter(m, row) ==
    IF row.version = link[m].observed THEN link[m]
    ELSE IF row.status = "cancelled"
         THEN [link[m] EXCEPT !.state = "released", !.observed = row.version,
                              !.updated = row.updated]
    ELSE [link[m] EXCEPT !.target = row.target, !.observed = row.version,
                         !.updated = row.updated]

\* mutant of Announcement: a move is not announced
AnnouncementOfLoss(m, row) ==
    IF row.status = "cancelled" THEN NoSlot ELSE announced[m]

Announcement(m, row) ==
    IF row.version = link[m].observed THEN announced[m]
    ELSE IF row.status = "cancelled" THEN NoSlot ELSE row.target

Accepted(r, row) == \A m \in LinkedTo(r) : Acceptable(m, row)

\* synchronizeCanonicalRefresh
Synchronize(r, row) ==
    /\ Accepted(r, row)
    /\ link' = [m \in Matches |->
                  IF m \in LinkedTo(r) THEN LinkAfter(m, row) ELSE link[m]]
    /\ announced' = [m \in Matches |->
                  IF m \in LinkedTo(r) THEN Announcement(m, row)
                                       ELSE announced[m]]

-----------------------------------------------------------------------------
(* BookingReservationService.readCanonical of a reservation with a binding. *)
(* noteReconciliationAttempt, which only counts, is left out.              *)

Go(p, place) == read' = [read EXCEPT ![p].pc = place]

Answer(p, outcome) == read' = [read EXCEPT ![p] = Ended(outcome)]

\* The first transaction; a cancelled reservation is answered as it is.
Begin(p, r) ==
    /\ read[p].pc = "done"
    /\ IF res[r].status = "confirmed"
       THEN read' = [read EXCEPT ![p].pc = "record", ![p].reservation = r,
                                 ![p].version = res[r].version,
                                 ![p].target = res[r].target,
                                 ![p].outcome = "none"]
       ELSE Answer(p, "fresh")
    /\ UNCHANGED <<database, outside>>

\* getRecord answers with the record, ...
Found(p) ==
    /\ read[p].pc = "record"
    /\ read' = [read EXCEPT ![p].pc = "apply",
                            ![p].found = record[read[p].reservation],
                            ![p].asOf = changes]
    /\ UNCHANGED <<database, outside>>

\* ... or not: 404, which may mean anything, or nothing of use.
NotFound(p) ==
    /\ read[p].pc = "record"
    /\ Go(p, "scan") \/ Answer(p, "stale")
    /\ UNCHANGED <<database, outside>>

\* The list of the deleted records of that court and day: only the record with
\* our api_id, deleted in the very slot of the reservation, is a proof.
Deleted(p) ==
    LET found == record[read[p].reservation] IN
    /\ found.deleted
    /\ found.api = "own"
    /\ found.slot = read[p].target

Scan(p) ==
    /\ read[p].pc = "scan"
    /\ \/ /\ Deleted(p)
          /\ read' = [read EXCEPT ![p].pc = "apply",
                                  ![p].found = [slot |-> read[p].target,
                                                deleted |-> TRUE,
                                                api |-> "own"],
                                  ![p].asOf = changes]
       \/ Answer(p, "stale")
    /\ UNCHANGED <<database, outside>>

\* mutant of SameVersion: any confirmed row is overwritten
SameStatus(p, r) == res[r].status = "confirmed"

\* The row is the one that was read.
SameVersion(p, r) ==
    /\ res[r].status = "confirmed"
    /\ res[r].version = read[p].version

\* The exact refresh of an unchanged row: nothing is written.
Confirm(p) ==
    LET r == read[p].reservation IN
    /\ read[p].pc = "apply"
    /\ Proven(read[p].found)
    /\ Current(r, read[p].found)
    /\ hold[r] = HoldOf(res[r])
    /\ Synchronize(r, res[r])
    /\ Answer(p, "fresh")
    /\ UNCHANGED <<res, hold, match, outside>>

\* The exact refresh of a changed row, committed; or reported as failed.
Refresh(p) ==
    LET r == read[p].reservation
        row == Refreshed(r, read[p].found, read[p].asOf) IN
    /\ read[p].pc = "apply"
    /\ Proven(read[p].found)
    /\ ~Current(r, read[p].found)
    /\ SameVersion(p, r)
    /\ row.status = "confirmed" => SlotFree(r, row.target)
    /\ res' = [res EXCEPT ![r] = row]
    /\ hold' = [hold EXCEPT ![r] = HoldOf(row)]
    /\ Synchronize(r, row)
    /\ Answer(p, "fresh") \/ Answer(p, "stale")
    /\ UNCHANGED <<match, outside>>

\* The match does not accept the row: everything is rolled back.
Refuse(p) ==
    LET r == read[p].reservation
        found == read[p].found IN
    /\ read[p].pc = "apply"
    /\ Proven(found)
    /\ \/ Current(r, found) /\ ~Accepted(r, res[r])
       \/ /\ ~Current(r, found)
          /\ SameVersion(p, r)
          /\ ~Accepted(r, Refreshed(r, found, read[p].asOf))
    /\ Answer(p, "refused")
    /\ UNCHANGED <<database, outside>>

\* Another record, another version, an occupied court, or no database.
Fail(p) ==
    /\ read[p].pc = "apply"
    /\ Answer(p, "stale")
    /\ UNCHANGED <<database, outside>>

-----------------------------------------------------------------------------
(* The matches.                                                            *)

\* PostgresMatchReservationRepository.linkConfirmed
LinkConfirmed(m, r) ==
    /\ res[r].status = "confirmed"
    /\ match[m].status = "open"
    /\ ~match[m].over
    /\ now >= match[m].updated
    /\ now >= res[r].updated
    /\ link[m].state # "active"
    /\ LinkedTo(r) = {}
    /\ link' = [link EXCEPT ![m] =
                  [state |-> "active", reservation |-> r,
                   target |-> res[r].target, observed |-> res[r].version,
                   updated |-> now]]
    /\ announced' = [announced EXCEPT ![m] = res[r].target]
    /\ UNCHANGED <<res, hold, match, read, outside>>

\* A player joins or leaves, or the owner edits the match.
Touch(m) ==
    /\ match[m].status = "open"
    /\ ~match[m].over
    /\ match[m].updated # now
    /\ match' = [match EXCEPT ![m].updated = now]
    /\ UNCHANGED <<res, hold, link, announced, read, outside>>

\* The time of the match has passed.
Play(m) ==
    /\ ~match[m].over
    /\ match' = [match EXCEPT ![m].over = TRUE]
    /\ UNCHANGED <<res, hold, link, announced, read, outside>>

\* The other team confirms the result.  The commit fails when the match still
\* has an active link: assert_match_reservation_consistency.
Complete(m) ==
    /\ match[m].status = "open"
    /\ match[m].over
    /\ link[m].state # "active"
    /\ match' = [match EXCEPT ![m].status = "completed", ![m].updated = now]
    /\ UNCHANGED <<res, hold, link, announced, read, outside>>

-----------------------------------------------------------------------------
ReadStep(p) ==
    \/ Found(p) \/ NotFound(p) \/ Scan(p)
    \/ Confirm(p) \/ Refresh(p) \/ Refuse(p) \/ Fail(p)

Next ==
    \/ \E p \in Reads : ReadStep(p) \/ \E r \in Reservations : Begin(p, r)
    \/ \E r \in Reservations, changed \in Record : Change(r, changed)
    \/ \E m \in Matches :
          \/ Touch(m) \/ Play(m) \/ Complete(m)
          \/ \E r \in Reservations : LinkConfirmed(m, r)
    \/ Tick

Spec == Init /\ [][Next]_vars

\* A read that runs takes its next step; every reservation is read again and
\* again; the provider, asked again and again, answers, and the database
\* commits.  The confirmation of a result that is refused is sent again.
Fairness ==
    /\ \A p \in Reads :
         /\ WF_vars(ReadStep(p))
         /\ SF_vars(Found(p))
         /\ SF_vars(Confirm(p) \/ Refresh(p))
         /\ \A r \in Reservations : SF_vars(Begin(p, r))
    /\ \A m \in Matches : WF_vars(Complete(m))

FairSpec == Spec /\ Fairness

-----------------------------------------------------------------------------
(* Safety.                                                                 *)

\* The statements of a refresh keep the reservation and its hold together:
\* a confirmed reservation holds exactly the court it names, and a cancelled
\* one holds none.
HoldFollowsTarget ==
    \A r \in Reservations :
        hold[r] = IF res[r].status = "confirmed" THEN res[r].target ELSE NoSlot

\* A reservation is cancelled only when the staff have deleted its record: no
\* 404, no incomplete list and no late answer makes a player lose a court.
CancelledIsDeleted ==
    \A r \in Reservations :
        res[r].status = "cancelled" => record[r].deleted

\* What assert_match_reservation_consistency checks at commit holds after
\* every step: a match that shows a confirmed court shows the court of a
\* confirmed reservation, in its latest version, and of no other match.  So no
\* refresh is ever stopped by that trigger.
LinkIsCurrent ==
    \A m \in Matches : link[m].state = "active" =>
        LET r == link[m].reservation IN
        /\ res[r].status = "confirmed"
        /\ link[m].observed = res[r].version
        /\ link[m].target = res[r].target
        /\ match[m].status = "open"
        /\ LinkedTo(r) = {m}

\* The players of a match were told of every change of its court: the latest
\* event names the court that the link guarantees, or says that there is none.
AnnouncedIsTrue ==
    \A m \in Matches :
        announced[m] = IF link[m].state = "active" THEN link[m].target ELSE NoSlot

\* A change of the calendar that a reservation took over is never overwritten
\* by an answer the provider gave earlier, however late that read goes on.
NewestWins ==
  \A r \in Reservations : res'[r].asOf >= res[r].asOf

\* A cancelled reservation stays as it is, and so does the link that it
\* released until the match is given another court.
CancelledIsFinal ==
  /\ \A r \in Reservations :
       res[r].status = "cancelled" => res'[r] = res[r]
  /\ \A m \in Matches :
       link[m].state = "released" /\ link'[m] # link[m]
           => link'[m].reservation # link[m].reservation

\* An exact refresh that finds the reservation as it is succeeds.
UnchangedRefreshSucceeds == \A p \in Reads : read[p].outcome # "refused"

-----------------------------------------------------------------------------
(* Liveness.                                                               *)

\* The reservation comes to name the slot its record was moved to, unless the
\* record was deleted or given to another system.
MoveIsDiscovered ==
    \A r \in Reservations :
        []<>(\/ record[r].deleted
             \/ record[r].api = "other"
             \/ res[r].target = record[r].slot)

\* A match that was played can be completed.
PlayedMatchIsCompleted ==
    \A m \in Matches : match[m].over ~> match[m].status = "completed"

-----------------------------------------------------------------------------
(* Refinement.                                                             *)

Ledger == INSTANCE CourtPromise WITH
    Holders <- Reservations,
    promise <- [r \in Reservations |->
                  IF res[r].status = "confirmed" THEN "booked" ELSE "closed"],
    court <- hold

\* Whatever the staff do and whichever read finds out first, a booked court is
\* only ever moved to a free slot or given back for good.
KeepsPromise == Ledger!Spec

\* The hold and the link of a match are where the reservation is, whichever
\* refresh, cancellation or new link came last.
CourtFollowsRow == HoldFollowsTarget /\ LinkIsCurrent

\* Nobody hears what is not so: only a deleted record cancels, and the players
\* of a match have been told of the court they have.
NewsIsTrue == CancelledIsDeleted /\ AnnouncedIsTrue

\* Reads that come late take nothing back: no older change over a newer one,
\* and no court after a cancellation.
LateReadsAreHarmless == [][NewestWins /\ CancelledIsFinal]_vars
=============================================================================
