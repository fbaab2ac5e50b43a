--------------------------- MODULE Reconciliation ---------------------------
(***************************************************************************)
(* The schedulers that look for bookings the staff moved or deleted in the *)
(* calendar.  Each server process has one: every five minutes it leases    *)
(* bookings one by one, soonest first and at most BatchLimit of them,      *)
(* reads the record of each from the calendar, writes a change to the row, *)
(* and leaves a message for the players in the same transaction.  A lease  *)
(* may run out while the calendar is slow; players read bookings meanwhile,*)
(* which writes changes too (module CourtRefresh) but tells nobody.        *)
(***************************************************************************)
EXTENDS Integers, Sequences, FiniteSets

CONSTANTS LastBooking,    \* the bookings are 1..LastBooking, by their time
          Schedulers,
          BatchLimit,     \* YCLIENTS_NOTIFICATION_RECONCILIATION_BATCH_LIMIT
          MaxEdits        \* bound on the changes the staff make, for each booking

ASSUME ReconciliationAssumption ==
  LastBooking \in Nat \ {0} /\ BatchLimit \in Nat \ {0} /\ MaxEdits \in [1..LastBooking -> Nat]

Bookings == 1..LastBooking

VARIABLES
  booking,    \* court_reservations: the edit each row shows, and how it got there
  calendar,   \* the records: the number of their edits, and whether deleted
  lease,      \* yclients_reconciliation_leases
  started,    \* the bookings 1..started lie in the past
  scheduler,  \* where each scheduler is
  told        \* telegram_delivery_intents of the changes

reconciliationVars == <<booking, calendar, lease, started, scheduler, told>>

Resting == [pc |-> "rest"]
Awake(n) == [pc |-> "tick", batch |-> n]

ReconciliationInit ==
  /\ booking = [b \in Bookings |-> [edit |-> 0, changes |-> <<>>]]
  /\ calendar = [b \in Bookings |-> [edit |-> 0, deleted |-> FALSE]]
  /\ lease = [b \in Bookings |-> [owner |-> "nobody", running |-> FALSE, recent |-> FALSE]]
  /\ started = 0
  /\ scheduler = [s \in Schedulers |-> Awake(0)]
  /\ told = [b \in Bookings |-> {}]

\* The version of a row counts its changes; a deletion is the last.
Version(b) == Len(booking[b].changes)
IsCancelled(b) == Version(b) > 0 /\ booking[b].changes[Version(b)] = "cancelled"

-----------------------------------------------------------------------------
(* What applyExactRefresh does with a record that was read earlier.        *)

AlreadyCurrent(b, seen) == seen.edit = booking[b].edit

VersionStands(b, version) == Version(b) = version

Applies(b, seen, version) ==
  ~AlreadyCurrent(b, seen) /\ ~IsCancelled(b) /\ VersionStands(b, version)

ChangeOf(seen) == IF seen.deleted THEN "cancelled" ELSE "rescheduled"

Changed(b, seen) == [edit |-> seen.edit, changes |-> Append(booking[b].changes, ChangeOf(seen))]

-----------------------------------------------------------------------------
(* The scheduler.                                                          *)

Candidates == {b \in Bookings : /\ b > started /\ ~IsCancelled(b)
                                /\ ~lease[b].running /\ ~lease[b].recent}

\* mutant of Soonest: the latest booking first
SoonestLast == CHOOSE b \in Candidates : \A c \in Candidates : c <= b
Soonest == CHOOSE b \in Candidates : \A c \in Candidates : b <= c

GoOn(s, fields) == scheduler' = [scheduler EXCEPT ![s] = fields]

ClaimNext(s) ==
  /\ scheduler[s].pc = "tick"
  /\ \/ /\ Candidates = {} /\ GoOn(s, Resting) /\ UNCHANGED lease
     \/ /\ Candidates # {}
        /\ lease' = [lease EXCEPT ![Soonest].owner = s, ![Soonest].running = TRUE]
        /\ GoOn(s, [pc |-> "read", batch |-> scheduler[s].batch, booking |-> Soonest,
                    version |-> Version(Soonest), edit |-> booking[Soonest].edit])
  /\ UNCHANGED <<booking, calendar, started, told>>

\* A record that cannot be read ends the batch.
ReadRecord(s) ==
  LET at == scheduler[s]
  IN /\ at.pc = "read"
     /\ \/ GoOn(s, [pc |-> "complete", batch |-> BatchLimit, booking |-> at.booking])
        \/ IF calendar[at.booking].edit = at.edit
           THEN GoOn(s, [pc |-> "complete", batch |-> at.batch + 1, booking |-> at.booking])
           ELSE GoOn(s, [pc |-> "apply", batch |-> at.batch, booking |-> at.booking,
                         version |-> at.version, seen |-> calendar[at.booking]])
     /\ UNCHANGED <<booking, calendar, lease, started, told>>

\* A row that somebody else brought up to date meanwhile is announced too.
Announces(s) ==
  LET at == scheduler[s]
  IN \/ Applies(at.booking, at.seen, at.version)
     \/ AlreadyCurrent(at.booking, at.seen) /\ Version(at.booking) # at.version

\* mutant of EventVersion: the message names the version that was claimed
EventVersionClaimed(s) == scheduler[s].version
EventVersion(s) == Len(booking'[scheduler[s].booking].changes)

ApplyRefresh(s) ==
  LET at == scheduler[s]
      b == at.booking
  IN /\ at.pc = "apply"
     /\ UNCHANGED <<calendar, lease, started>>
     /\ \/ /\ booking' = IF Applies(b, at.seen, at.version)
                         THEN [booking EXCEPT ![b] = Changed(b, at.seen)] ELSE booking
           /\ told' = IF Announces(s)
                      THEN [told EXCEPT ![b] = @ \cup {<<ChangeOf(at.seen), EventVersion(s)>>}]
                      ELSE told
           /\ GoOn(s, [pc |-> "complete", batch |-> at.batch + 1, booking |-> b])
        \/ \* the transaction fails, which ends the batch
           /\ GoOn(s, [pc |-> "complete", batch |-> BatchLimit, booking |-> b])
           /\ UNCHANGED <<booking, told>>

\* mutant of Holds: a lease is completed by whoever had it
HoldsAny(s) == lease[scheduler[s].booking].owner # "nobody"
\* A lease that ran out may be in its last second, when it can be completed
\* and taken alike.
Holds(s) == lease[scheduler[s].booking].owner = s

CompletedLease(s) == [owner |-> s, running |-> FALSE, recent |-> TRUE]

CompleteLease(s) ==
  LET at == scheduler[s]
  IN /\ at.pc = "complete"
     /\ GoOn(s, IF at.batch >= BatchLimit THEN Resting ELSE Awake(at.batch))
     /\ \/ Holds(s) /\ lease' = [lease EXCEPT ![at.booking] = CompletedLease(s)]
        \/ UNCHANGED lease   \* stale, or the transaction fails
     /\ UNCHANGED <<booking, calendar, started, told>>

SchedulerCrash(s) ==
  /\ scheduler[s].pc \notin {"rest", "tick"}
  /\ GoOn(s, Awake(0))
  /\ UNCHANGED <<booking, calendar, lease, started, told>>

-----------------------------------------------------------------------------
(* Time, the staff and the players.                                        *)

LeaseRunsOut(b) ==
  /\ lease[b].running
  /\ lease' = [lease EXCEPT ![b].running = FALSE]
  /\ UNCHANGED <<booking, calendar, started, scheduler, told>>

FiveMinutesPass ==
  /\ lease' = [b \in Bookings |-> [lease[b] EXCEPT !.recent = FALSE]]
  /\ scheduler' = [s \in Schedulers |->
                     IF scheduler[s].pc = "rest" THEN Awake(0) ELSE scheduler[s]]
  /\ UNCHANGED <<booking, calendar, started, told>>

BookingStarts ==
  /\ started < LastBooking /\ started' = started + 1
  /\ UNCHANGED <<booking, calendar, lease, scheduler, told>>

StaffEdit(b) ==
  /\ ~calendar[b].deleted /\ calendar[b].edit < MaxEdits[b]
  /\ \E deleted \in BOOLEAN :
       calendar' = [calendar EXCEPT ![b] = [edit |-> @.edit + 1, deleted |-> deleted]]
  /\ UNCHANGED <<booking, lease, started, scheduler, told>>

\* A player reads a booking: the change is written, and nobody is told.
PlayerReads(b) ==
  /\ Applies(b, calendar[b], Version(b))
  /\ booking' = [booking EXCEPT ![b] = Changed(b, calendar[b])]
  /\ UNCHANGED <<calendar, lease, started, scheduler, told>>

SchedulerStep(s) == ClaimNext(s) \/ ReadRecord(s) \/ ApplyRefresh(s) \/ CompleteLease(s)

ReconciliationNext ==
  \/ \E s \in Schedulers : SchedulerStep(s) \/ SchedulerCrash(s)
  \/ \E b \in Bookings : LeaseRunsOut(b) \/ StaffEdit(b) \/ PlayerReads(b)
  \/ FiveMinutesPass \/ BookingStarts

ReconciliationSpec == ReconciliationInit /\ [][ReconciliationNext]_reconciliationVars

-----------------------------------------------------------------------------
(* Properties                                                              *)

\* Every variable keeps its type, and a row never shows an edit the calendar
\* does not have.
ReconciliationTypeOK ==
  /\ \A b \in Bookings :
       /\ booking[b].edit \in 0..calendar[b].edit
       /\ booking[b].changes \in Seq({"rescheduled", "cancelled"})
       /\ calendar[b] \in [edit : 0..MaxEdits[b], deleted : BOOLEAN]
       /\ lease[b] \in [owner : Schedulers \cup {"nobody"}, running : BOOLEAN,
                        recent : BOOLEAN]
  /\ started \in 0..LastBooking
  /\ \A s \in Schedulers : scheduler[s].pc \in {"rest", "tick", "read", "apply", "complete"}

\* A scheduler whose lease ran out while the calendar was slow does not write
\* an older state of the record over a newer one.
RecordNeverGoesBack ==
  \A b \in Bookings : booking'[b].edit >= booking[b].edit

\* Every message to the players names a version of the booking that exists,
\* and says of it what happened, also when two schedulers, or a scheduler and
\* a reader, worked on the same change.
MessageIsTrue ==
  \A b \in Bookings : \A event \in told[b] :
    event[2] \in 1..Version(b) /\ booking[b].changes[event[2]] = event[1]

\* A scheduler that finishes after its lease was taken over does not end the
\* lease of the one that works on the booking now.
LateCompletionIsHarmless ==
  \A b \in Bookings, s \in Schedulers :
    /\ lease[b].running /\ lease[b].owner = s
    /\ scheduler[s].pc \in {"read", "apply"} /\ scheduler[s].booking = b
    /\ scheduler'[s] = scheduler[s] /\ scheduler' # scheduler
    => lease'[b].running

\* The next booking to start differs from its record.
NextLags == started < LastBooking /\ calendar[started + 1].edit # booking[started + 1].edit

\* A change to the next booking is found before it starts, if the calendar
\* can be read again and again.  (Of later bookings only the first BatchLimit
\* are ever looked at.)
NextBookingIsReconciled == NextLags ~> ~NextLags

\* A scheduler that was overtaken spoils nothing: neither the row nor the lease
\* of the one that works on the booking now.
LateCallsAreHarmless == [][RecordNeverGoesBack /\ LateCompletionIsHarmless]_reconciliationVars
=============================================================================
