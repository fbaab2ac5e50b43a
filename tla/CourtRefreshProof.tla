--------------------------- MODULE CourtRefreshProof ---------------------------
(***************************************************************************)
(* For any reservations, slots, matches, reads, number of changes and       *)
(* clock: a booked court, its hold and the match on it stay together, late  *)
(* answers take nothing back, and CourtRefresh implements CourtPromise.     *)
(***************************************************************************)
EXTENDS CourtRefresh, TLAPS

-----------------------------------------------------------------------------
(* The inductive invariant.                                                *)

\* A row has taken over a change that was made, once per change at most, and if
\* it was the latest then the row says what the record says.
RowsFollow ==
  \A r \in Reservations :
    /\ res[r].asOf <= changes
    /\ res[r].version <= res[r].asOf + 1
    /\ res[r].asOf = changes => Current(r, record[r])

\* A read that runs knows a version that was.
Known(x) == x.pc # "done" => x.version <= res[x.reservation].version

\* What an answer says was so when it was given; if the row has not changed
\* since it was read, the answer is not older than the row, and what it says
\* beyond the row is newer.
Answered(x) ==
  x.pc = "apply" =>
    LET r == x.reservation IN
    /\ x.asOf <= changes
    /\ x.found.deleted => record[r].deleted
    /\ x.asOf = changes => x.found.slot = record[r].slot /\ x.found.deleted = record[r].deleted
    /\ x.version = res[r].version =>
         x.asOf >= res[r].asOf /\ (x.asOf = res[r].asOf => Current(r, x.found))

Good(x) == Known(x) /\ Answered(x)

ReadsAreGood == \A p \in Reads : Good(read[p])

\* Only a cancellation releases a link.
ReleasedIsCancelled ==
  \A m \in Matches : link[m].state = "released" => res[link[m].reservation].status = "cancelled"

Links == LinkIsCurrent /\ AnnouncedIsTrue /\ ReleasedIsCancelled

RefreshInv ==
  TypeOK /\ RowsFollow /\ ReadsAreGood /\ HoldFollowsTarget /\ CancelledIsDeleted /\ Links

-----------------------------------------------------------------------------
(* Steps of a read.                                                        *)

LEMMA EndedIsRead ==
  ASSUME NEW s \in Slots, NEW outcome \in {"none", "fresh", "stale", "refused"}
  PROVE  Ended(outcome) \in Read /\ Good(Ended(outcome))
<1>1. (CHOOSE t \in Slots : TRUE) \in Slots
  OBVIOUS
<1>2. (CHOOSE r \in Reservations : TRUE) \in Reservations
  BY RefreshAssumption
<1>3. Ended(outcome) \in Read
  BY <1>1, <1>2, RefreshAssumption DEF Ended, Read, Record
<1>4. Ended(outcome).pc = "done"
  BY DEF Ended
<1> QED BY <1>3, <1>4 DEF Good, Known, Answered

\* A step that only turns a read into a good one keeps the invariant.
LEMMA ReadChanges ==
  ASSUME RefreshInv, NEW p \in Reads, NEW x \in Read, Good(x),
         read' = [read EXCEPT ![p] = x],
         UNCHANGED <<res, hold, link, match, announced, record, changes, now>>
  PROVE  RefreshInv'
<1>1. \A q \in Reads : read'[q] = IF q = p THEN x ELSE read[q]
  BY DEF RefreshInv, TypeOK
<1>2. TypeOK'
  BY DEF RefreshInv, TypeOK
<1>3. ReadsAreGood'
  BY <1>1 DEF RefreshInv, ReadsAreGood, Good, Known, Answered, Current
<1>4. RowsFollow' /\ HoldFollowsTarget' /\ CancelledIsDeleted' /\ Links'
  BY DEF RefreshInv, RowsFollow, Current, HoldFollowsTarget, CancelledIsDeleted, Links,
         LinkIsCurrent, AnnouncedIsTrue, ReleasedIsCancelled, LinkedTo
<1> QED BY <1>2, <1>3, <1>4 DEF RefreshInv

LEMMA AnswerInv ==
  ASSUME RefreshInv, NEW p \in Reads, NEW outcome \in {"none", "fresh", "stale", "refused"},
         Answer(p, outcome),
         UNCHANGED <<res, hold, link, match, announced, record, changes, now>>
  PROVE  RefreshInv'
<1>1. PICK s \in Slots : TRUE
  BY RefreshAssumption DEF RefreshInv, TypeOK, Reservation
<1>2. Ended(outcome) \in Read /\ Good(Ended(outcome))
  BY <1>1, EndedIsRead
<1> QED BY <1>2, ReadChanges DEF Answer

LEMMA BeginInv ==
  ASSUME RefreshInv, NEW p \in Reads, NEW r \in Reservations, Begin(p, r)
  PROVE  RefreshInv'
<1>1. UNCHANGED <<res, hold, link, match, announced, record, changes, now>>
  BY DEF Begin, database, outside
<1>2. CASE res[r].status = "confirmed"
  <2> DEFINE x == [read[p] EXCEPT !.pc = "record", !.reservation = r, !.version = res[r].version,
                                  !.target = res[r].target, !.outcome = "none"]
  <2>1. read[p] \in Read /\ res[r] \in Reservation
    BY DEF RefreshInv, TypeOK
  <2>2. x \in Read
    BY <2>1 DEF Read, Reservation
  <2>3. x.pc = "record" /\ x.reservation = r /\ x.version = res[r].version
    BY <2>1 DEF Read
  <2>4. Good(x)
    BY <2>1, <2>3 DEF Good, Known, Answered, Reservation
  <2>5. read' = [read EXCEPT ![p] = x]
    BY <1>2 DEF Begin
  <2> QED BY <1>1, <2>2, <2>4, <2>5, ReadChanges
<1>3. CASE res[r].status # "confirmed"
  BY <1>1, <1>3, AnswerInv DEF Begin
<1> QED BY <1>2, <1>3

\* An answer of the calendar, as the record is now, is good.
LEMMA ArrivesInv ==
  ASSUME RefreshInv, NEW p \in Reads, read[p].pc # "done", NEW found \in Record,
         found.slot = record[read[p].reservation].slot,
         found.deleted = record[read[p].reservation].deleted,
         read' = [read EXCEPT ![p].pc = "apply", ![p].found = found, ![p].asOf = changes],
         UNCHANGED <<res, hold, link, match, announced, record, changes, now>>
  PROVE  RefreshInv'
<1> DEFINE x == [read[p] EXCEPT !.pc = "apply", !.found = found, !.asOf = changes]
           r == read[p].reservation
<1>1. read[p] \in Read /\ r \in Reservations /\ changes \in 0..MaxChanges
  BY DEF RefreshInv, TypeOK, Read
<1>2. x \in Read
  BY <1>1 DEF Read
<1>3. /\ x.pc = "apply" /\ x.found = found /\ x.asOf = changes
      /\ x.reservation = r /\ x.version = read[p].version
  BY <1>1 DEF Read
<1>4. Known(x)
  BY <1>3 DEF RefreshInv, ReadsAreGood, Good, Known
<1>5. /\ changes >= res[r].asOf
      /\ changes = res[r].asOf => Current(r, found)
  BY <1>1 DEF RefreshInv, RowsFollow, Current, TypeOK, Reservation
<1>6. Answered(x)
  BY <1>1, <1>3, <1>5 DEF Answered
<1>7. read' = [read EXCEPT ![p] = x]
  OBVIOUS
<1> QED BY <1>2, <1>4, <1>6, <1>7, ReadChanges DEF Good

LEMMA AskedInv ==
  ASSUME RefreshInv, NEW p \in Reads, Found(p) \/ NotFound(p) \/ Scan(p)
  PROVE  RefreshInv'
<1> DEFINE r == read[p].reservation
<1>0. UNCHANGED <<res, hold, link, match, announced, record, changes, now>>
  BY DEF Found, NotFound, Scan, database, outside
<1>1. read[p] \in Read /\ r \in Reservations /\ record[r] \in Record
  BY DEF RefreshInv, TypeOK, Read
<1>2. CASE Found(p)
  BY <1>0, <1>1, <1>2, ArrivesInv DEF Found
<1>3. CASE NotFound(p) /\ Go(p, "scan")
  <2> DEFINE x == [read[p] EXCEPT !.pc = "scan"]
  <2>1. x \in Read
    BY <1>1 DEF Read
  <2>2. x.pc = "scan" /\ x.reservation = r /\ x.version = read[p].version
    BY <1>1 DEF Read
  <2>3. Good(x)
    BY <1>3, <2>2 DEF NotFound, RefreshInv, ReadsAreGood, Good, Known, Answered
  <2>4. read' = [read EXCEPT ![p] = x]
    BY <1>3 DEF Go
  <2> QED BY <1>0, <2>1, <2>3, <2>4, ReadChanges
<1>4. CASE Scan(p) /\ Deleted(p)
           /\ read' = [read EXCEPT ![p].pc = "apply",
                           ![p].found = [slot |-> read[p].target, deleted |-> TRUE, api |-> "own"],
                           ![p].asOf = changes]
  <2>1. [slot |-> read[p].target, deleted |-> TRUE, api |-> "own"] \in Record
    BY <1>1 DEF Read, Record
  <2>2. record[r].slot = read[p].target /\ record[r].deleted
    BY <1>4 DEF Deleted
  <2> QED BY <1>0, <1>1, <1>4, <2>1, <2>2, ArrivesInv DEF Scan, Record
<1>5. CASE Answer(p, "stale")
  BY <1>0, <1>5, AnswerInv
<1> QED BY <1>2, <1>3, <1>4, <1>5 DEF NotFound, Scan

-----------------------------------------------------------------------------
(* A refresh.                                                              *)

\* Where every link is current, confirming a row changes no link.
LEMMA ConfirmedLinks ==
  ASSUME RefreshInv, NEW r \in Reservations, Synchronize(r, res[r])
  PROVE  UNCHANGED <<link, announced>>
<1>1. \A m \in LinkedTo(r) : /\ m \in Matches /\ res[r].version = link[m].observed
                             /\ res[r].status = "confirmed"
  BY DEF LinkedTo, RefreshInv, Links, LinkIsCurrent
<1>2. \A m \in LinkedTo(r) : LinkAfter(m, res[r]) = link[m] /\ Announcement(m, res[r]) = announced[m]
  <2> TAKE m \in LinkedTo(r)
  <2>1. res[r].version = link[m].observed /\ res[r].status # "cancelled"
    BY <1>1
  <2> QED BY <2>1 DEF LinkAfter, Announcement
<1>3. \A m \in Matches : link'[m] = link[m] /\ announced'[m] = announced[m]
  BY <1>2 DEF Synchronize
<1> QED BY <1>3 DEF Synchronize, RefreshInv, TypeOK

LEMMA ConfirmInv ==
  ASSUME RefreshInv, NEW p \in Reads, Confirm(p)
  PROVE  RefreshInv'
<1>1. read[p].reservation \in Reservations
  BY DEF RefreshInv, TypeOK, Read
<1>2. UNCHANGED <<link, announced>>
  BY <1>1, ConfirmedLinks DEF Confirm
<1> QED BY <1>2, AnswerInv DEF Confirm, outside

\* What a refresh does to the rows, with what was known when it began.
LEMMA RefreshFacts ==
  ASSUME RefreshInv, NEW p \in Reads, Refresh(p)
  PROVE  LET x == read[p]
             r == x.reservation
             row == Refreshed(r, x.found, x.asOf) IN
         /\ x \in Read /\ r \in Reservations /\ row \in Reservation
         /\ row.version = res[r].version + 1 /\ row.asOf > res[r].asOf
         /\ row.version <= row.asOf + 1 /\ row.asOf <= changes
         /\ row.status = "cancelled" => record[r].deleted
         /\ row.asOf = changes => row.target = record[r].slot
                                  /\ (record[r].deleted <=> row.status = "cancelled")
         /\ res' = [res EXCEPT ![r] = row] /\ res[r].status = "confirmed"
         /\ hold' = [hold EXCEPT ![r] = HoldOf(row)]
         /\ UNCHANGED <<match, record, changes, now>>
<1> DEFINE x == read[p]
           r == x.reservation
           row == Refreshed(r, x.found, x.asOf)
<1>1. x \in Read /\ r \in Reservations /\ res[r] \in Reservation /\ x.found \in Record
  BY DEF RefreshInv, TypeOK, Read
<1>2. x.pc = "apply" /\ x.version = res[r].version /\ ~Current(r, x.found)
      /\ res[r].status = "confirmed"
  BY DEF Refresh, SameVersion
<1>3. /\ x.asOf <= changes
      /\ x.found.deleted => record[r].deleted
      /\ x.asOf = changes => x.found.slot = record[r].slot /\ x.found.deleted = record[r].deleted
      /\ x.asOf >= res[r].asOf /\ (x.asOf = res[r].asOf => Current(r, x.found))
  BY <1>2 DEF RefreshInv, ReadsAreGood, Good, Answered
<1>4. x.asOf > res[r].asOf
  BY <1>1, <1>2, <1>3 DEF Read, Reservation
<1>5. res[r].version <= res[r].asOf + 1
  BY <1>1 DEF RefreshInv, RowsFollow
<1>6. changes \in 0..MaxChanges /\ MaxChanges \in Nat /\ now \in Time
  BY RefreshAssumption DEF RefreshInv, TypeOK
<1>7. /\ row.version = res[r].version + 1 /\ row.asOf = x.asOf /\ row.target = x.found.slot
      /\ row.status = IF x.found.deleted THEN "cancelled" ELSE "confirmed"
  BY DEF Refreshed
<1>8. row.version <= x.asOf + 1 /\ row.version \in 1..(MaxChanges + 1)
  BY <1>1, <1>3, <1>4, <1>5, <1>6, <1>7 DEF Read, Reservation
<1>9. row \in Reservation
  BY <1>1, <1>6, <1>8 DEF Refreshed, Reservation, Read, Record
<1>10. res' = [res EXCEPT ![r] = row] /\ hold' = [hold EXCEPT ![r] = HoldOf(row)]
       /\ UNCHANGED <<match, record, changes, now>>
  BY DEF Refresh, outside
<1> QED BY <1>1, <1>2, <1>3, <1>4, <1>7, <1>8, <1>9, <1>10 DEF Record

\* The links of the refreshed reservation follow it, the others stay.
LEMMA RefreshedLinks ==
  ASSUME RefreshInv, NEW r \in Reservations, NEW row \in Reservation,
         row.version = res[r].version + 1, res[r].status = "confirmed", Synchronize(r, row)
  PROVE  \A m \in Matches :
           \/ /\ link[m].state = "active" /\ link[m].reservation = r
              /\ link'[m] \in Link /\ link'[m].reservation = r
              /\ link'[m].observed = row.version
              /\ IF row.status = "cancelled"
                 THEN link'[m].state = "released" /\ announced'[m] = NoSlot
                 ELSE link'[m].state = "active" /\ link'[m].target = row.target
                      /\ announced'[m] = row.target
           \/ /\ link[m].state # "active" \/ link[m].reservation # r
              /\ link'[m] = link[m] /\ announced'[m] = announced[m]
<1> SUFFICES ASSUME NEW m \in Matches, link[m].state = "active", link[m].reservation = r
             PROVE  /\ link'[m] \in Link /\ link'[m].reservation = r
                    /\ link'[m].observed = row.version
                    /\ IF row.status = "cancelled"
                       THEN link'[m].state = "released" /\ announced'[m] = NoSlot
                       ELSE link'[m].state = "active" /\ link'[m].target = row.target
                            /\ announced'[m] = row.target
  BY DEF Synchronize, LinkedTo
<1>1. link[m] \in Link /\ res[r] \in Reservation
  BY DEF RefreshInv, TypeOK
<1>2. link[m].observed = res[r].version
  BY DEF RefreshInv, Links, LinkIsCurrent
<1>3. row.version # link[m].observed
  BY <1>1, <1>2 DEF Reservation
<1>4. m \in LinkedTo(r)
  BY DEF LinkedTo
<1>5. link'[m] = LinkAfter(m, row) /\ announced'[m] = Announcement(m, row)
  BY <1>4 DEF Synchronize
<1>6. CASE row.status = "cancelled"
  <2>1. link'[m] = [link[m] EXCEPT !.state = "released", !.observed = row.version,
                                   !.updated = row.updated]
        /\ announced'[m] = NoSlot
    BY <1>3, <1>5, <1>6 DEF LinkAfter, Announcement
  <2> QED BY <1>1, <1>6, <2>1 DEF Link, Reservation
<1>7. CASE row.status # "cancelled"
  <2>1. link'[m] = [link[m] EXCEPT !.target = row.target, !.observed = row.version,
                                   !.updated = row.updated]
        /\ announced'[m] = row.target
    BY <1>3, <1>5, <1>7 DEF LinkAfter, Announcement
  <2> QED BY <1>1, <1>7, <2>1 DEF Link, Reservation
<1> QED BY <1>6, <1>7

LEMMA RefreshInvariant ==
  ASSUME RefreshInv, NEW p \in Reads, Refresh(p)
  PROVE  RefreshInv'
<1> DEFINE x == read[p]
           r == x.reservation
           row == Refreshed(r, x.found, x.asOf)
<1>1. /\ x \in Read /\ r \in Reservations /\ row \in Reservation
      /\ row.version = res[r].version + 1 /\ row.asOf > res[r].asOf
      /\ row.version <= row.asOf + 1 /\ row.asOf <= changes
      /\ row.status = "cancelled" => record[r].deleted
      /\ row.asOf = changes => row.target = record[r].slot
                               /\ (record[r].deleted <=> row.status = "cancelled")
      /\ res' = [res EXCEPT ![r] = row] /\ res[r].status = "confirmed"
      /\ hold' = [hold EXCEPT ![r] = HoldOf(row)]
      /\ UNCHANGED <<match, record, changes, now>>
  BY RefreshFacts
<1> HIDE DEF row
<1>2. /\ \A q \in Reservations : res'[q] = IF q = r THEN row ELSE res[q]
      /\ \A q \in Reservations : hold'[q] = IF q = r THEN HoldOf(row) ELSE hold[q]
  BY <1>1 DEF RefreshInv, TypeOK
<1>3. Synchronize(r, row)
  BY DEF Refresh, row
<1>4. PICK outcome \in {"fresh", "stale"} : read' = [read EXCEPT ![p] = Ended(outcome)]
  BY DEF Refresh, Answer
<1>5. Ended(outcome) \in Read /\ Ended(outcome).pc = "done"
  BY <1>1, EndedIsRead DEF Ended, Read
<1>6. \A q \in Reads : read'[q] = IF q = p THEN Ended(outcome) ELSE read[q]
  BY <1>4 DEF RefreshInv, TypeOK
<1>7. \A m \in Matches :
        \/ /\ link[m].state = "active" /\ link[m].reservation = r
           /\ link'[m] \in Link /\ link'[m].reservation = r
           /\ link'[m].observed = row.version
           /\ IF row.status = "cancelled"
              THEN link'[m].state = "released" /\ announced'[m] = NoSlot
              ELSE link'[m].state = "active" /\ link'[m].target = row.target
                   /\ announced'[m] = row.target
        \/ /\ link[m].state # "active" \/ link[m].reservation # r
           /\ link'[m] = link[m] /\ announced'[m] = announced[m]
  BY <1>1, <1>3, RefreshedLinks
<1>8. TypeOK'
  <2>1. HoldOf(row) \in Slots \cup {NoSlot}
    BY <1>1 DEF HoldOf, Reservation
  <2>2. link' \in [Matches -> Link]
    BY <1>3, <1>7 DEF RefreshInv, TypeOK, Synchronize
  <2>3. announced' \in [Matches -> Slots \cup {NoSlot}]
    <3>1. \A m \in Matches : announced'[m] \in Slots \cup {NoSlot}
      BY <1>1, <1>7 DEF RefreshInv, TypeOK, Reservation
    <3> QED BY <1>3, <3>1 DEF Synchronize
  <2> QED BY <1>1, <1>4, <1>5, <2>1, <2>2, <2>3 DEF RefreshInv, TypeOK
<1>9. RowsFollow'
  BY <1>1, <1>2 DEF RefreshInv, RowsFollow, Current
<1>10. ReadsAreGood'
  <2> SUFFICES ASSUME NEW q \in Reads, q # p PROVE Good(read[q])'
    BY <1>5, <1>6 DEF ReadsAreGood, Good, Known, Answered
  <2>1. read'[q] = read[q] /\ read[q] \in Read /\ Good(read[q]) /\ res[r] \in Reservation
    BY <1>1, <1>6 DEF RefreshInv, TypeOK, ReadsAreGood
  <2>2. CASE read[q].reservation = r
    <3>1. read[q].pc # "done" => read[q].version < row.version
      BY <1>1, <2>1, <2>2 DEF Good, Known, Read, Reservation
    <3> QED BY <1>1, <1>2, <2>1, <2>2, <3>1 DEF Good, Known, Answered, Current, Read, Reservation
  <2>3. CASE read[q].reservation # r
    BY <1>1, <1>2, <2>1, <2>3 DEF Good, Known, Answered, Current, Read
  <2> QED BY <2>2, <2>3
<1>11. HoldFollowsTarget' /\ CancelledIsDeleted'
  BY <1>1, <1>2 DEF RefreshInv, HoldFollowsTarget, CancelledIsDeleted, HoldOf, Reservation
<1>12. Links'
  <2>1. AnnouncedIsTrue'
    BY <1>7 DEF RefreshInv, Links, AnnouncedIsTrue
  <2>2. ReleasedIsCancelled'
    BY <1>1, <1>2, <1>7 DEF RefreshInv, Links, ReleasedIsCancelled, TypeOK, Link
  <2>3. LinkIsCurrent'
    BY <1>1, <1>2, <1>7 DEF RefreshInv, Links, LinkIsCurrent, LinkedTo, TypeOK, Link, Reservation
  <2> QED BY <2>1, <2>2, <2>3 DEF Links
<1> QED BY <1>8, <1>9, <1>10, <1>11, <1>12 DEF RefreshInv

-----------------------------------------------------------------------------
(* The calendar, the clock and the matches.                                *)

\* A change makes every row, and every answer, one of the past.
LEMMA ChangeInv ==
  ASSUME RefreshInv, NEW r \in Reservations, NEW changed \in Record, Change(r, changed)
  PROVE  RefreshInv'
<1>1. /\ record' = [record EXCEPT ![r] = changed] /\ ~record[r].deleted
      /\ changes' = changes + 1 /\ changes < MaxChanges
      /\ UNCHANGED <<res, hold, link, match, announced, read, now>>
  BY DEF Change, database
<1>2. changes \in Nat /\ MaxChanges \in Nat
  BY RefreshAssumption DEF RefreshInv, TypeOK
<1>3. \A q \in Reservations : record[q].deleted => record'[q].deleted
  BY <1>1 DEF RefreshInv, TypeOK
<1>4. TypeOK'
  BY <1>1, <1>2 DEF RefreshInv, TypeOK
<1>5. RowsFollow'
  BY <1>1, <1>2 DEF RefreshInv, RowsFollow, TypeOK, Reservation
<1>6. ReadsAreGood'
  <2> SUFFICES ASSUME NEW p \in Reads PROVE Good(read[p])'
    BY DEF ReadsAreGood
  <2>1. read[p] \in Read /\ Good(read[p])
    BY DEF RefreshInv, TypeOK, ReadsAreGood
  <2> QED BY <1>1, <1>2, <1>3, <2>1 DEF Good, Known, Answered, Current, Read
<1>7. HoldFollowsTarget' /\ Links'
  BY <1>1 DEF RefreshInv, HoldFollowsTarget, Links, LinkIsCurrent, AnnouncedIsTrue,
              ReleasedIsCancelled, LinkedTo
<1>8. CancelledIsDeleted'
  BY <1>1, <1>3 DEF RefreshInv, CancelledIsDeleted
<1> QED BY <1>4, <1>5, <1>6, <1>7, <1>8 DEF RefreshInv

LEMMA TickInv ==
  ASSUME RefreshInv, Tick
  PROVE  RefreshInv'
<1>1. now' \in Time
  BY RefreshAssumption DEF Tick, RefreshInv, TypeOK, Time
<1>2. UNCHANGED <<res, hold, link, match, announced, read, record, changes>>
  BY DEF Tick, database
<1> QED BY <1>1, <1>2 DEF RefreshInv, TypeOK, RowsFollow, ReadsAreGood, Good, Known, Answered, Current,
             HoldFollowsTarget, CancelledIsDeleted, Links, LinkIsCurrent, AnnouncedIsTrue,
             ReleasedIsCancelled, LinkedTo

\* The matches' own steps touch neither rows nor reads, and no match with an
\* active link is completed.
LEMMA MatchInv ==
  ASSUME RefreshInv, NEW m \in Matches, Touch(m) \/ Play(m) \/ Complete(m)
  PROVE  RefreshInv'
<1>1. UNCHANGED <<res, hold, link, announced, read, record, changes, now>>
  BY DEF Touch, Play, Complete, outside
<1>2. /\ \E x \in Match : match' = [match EXCEPT ![m] = x]
      /\ \A n \in Matches : link[n].state = "active" /\ match[n].status = "open"
            => match'[n].status = "open"
  <2>1. match[m] \in Match /\ now \in Time
    BY DEF RefreshInv, TypeOK
  <2>2. CASE Touch(m)
    <3>1. [match[m] EXCEPT !.updated = now] \in Match
      BY <2>1 DEF Match
    <3>2. match' = [match EXCEPT ![m] = [match[m] EXCEPT !.updated = now]]
      BY <2>2 DEF Touch
    <3> QED BY <2>1, <3>1, <3>2 DEF RefreshInv, TypeOK, Match
  <2>3. CASE Play(m)
    <3>1. [match[m] EXCEPT !.over = TRUE] \in Match
      BY <2>1 DEF Match
    <3>2. match' = [match EXCEPT ![m] = [match[m] EXCEPT !.over = TRUE]]
      BY <2>3 DEF Play
    <3> QED BY <2>1, <3>1, <3>2 DEF RefreshInv, TypeOK, Match
  <2>4. CASE Complete(m)
    <3>1. [match[m] EXCEPT !.status = "completed", !.updated = now] \in Match
      BY <2>1 DEF Match
    <3>2. match' = [match EXCEPT ![m] = [match[m] EXCEPT !.status = "completed", !.updated = now]]
          /\ link[m].state # "active"
      BY <2>4 DEF Complete
    <3> QED BY <3>1, <3>2 DEF RefreshInv, TypeOK
  <2> QED BY <2>2, <2>3, <2>4
<1>3. TypeOK'
  BY <1>1, <1>2 DEF RefreshInv, TypeOK
<1>4. Links'
  BY <1>1, <1>2 DEF RefreshInv, Links, LinkIsCurrent, AnnouncedIsTrue, ReleasedIsCancelled, LinkedTo
<1> QED BY <1>1, <1>3, <1>4 DEF RefreshInv, RowsFollow, ReadsAreGood, Good, Known, Answered, Current,
             HoldFollowsTarget, CancelledIsDeleted

LEMMA LinkInv ==
  ASSUME RefreshInv, NEW m \in Matches, NEW r \in Reservations, LinkConfirmed(m, r)
  PROVE  RefreshInv'
<1> DEFINE new == [state |-> "active", reservation |-> r, target |-> res[r].target,
                   observed |-> res[r].version, updated |-> now]
<1>1. /\ UNCHANGED <<res, hold, match, read, record, changes, now>>
      /\ link' = [link EXCEPT ![m] = new]
      /\ announced' = [announced EXCEPT ![m] = res[r].target]
      /\ res[r].status = "confirmed" /\ match[m].status = "open" /\ LinkedTo(r) = {}
      /\ link[m].state # "active"
  BY DEF LinkConfirmed, outside
<1>2. new \in Link /\ res[r].target \in Slots
  BY DEF RefreshInv, TypeOK, Reservation, Link
<1>3. /\ \A n \in Matches : link'[n] = IF n = m THEN new ELSE link[n]
      /\ \A n \in Matches : announced'[n] = IF n = m THEN res[r].target ELSE announced[n]
  BY <1>1 DEF RefreshInv, TypeOK
<1>4. TypeOK'
  BY <1>1, <1>2 DEF RefreshInv, TypeOK
<1>5. \A n \in Matches : link[n].state = "active" => link[n].reservation # r
  BY <1>1 DEF LinkedTo
<1>6. LinkIsCurrent'
  <2> SUFFICES ASSUME NEW n \in Matches, link'[n].state = "active"
               PROVE  /\ res[link'[n].reservation].status = "confirmed"
                      /\ link'[n].observed = res[link'[n].reservation].version
                      /\ link'[n].target = res[link'[n].reservation].target
                      /\ match[n].status = "open"
                      /\ \A o \in Matches : link'[o].state = "active"
                           /\ link'[o].reservation = link'[n].reservation => o = n
    BY <1>1 DEF LinkIsCurrent, LinkedTo
  <2>1. CASE n = m
    BY <1>1, <1>3, <1>5, <2>1
  <2>2. CASE n # m
    <3>1. link[n].state = "active" /\ link'[n] = link[n]
      BY <1>3, <2>2
    <3>2. \A o \in Matches : link[o].state = "active" /\ link[o].reservation = link[n].reservation
             => o = n
      BY <3>1 DEF RefreshInv, Links, LinkIsCurrent, LinkedTo
    <3> QED BY <1>3, <1>5, <3>1, <3>2 DEF RefreshInv, Links, LinkIsCurrent
  <2> QED BY <2>1, <2>2
<1>7. AnnouncedIsTrue' /\ ReleasedIsCancelled'
  BY <1>1, <1>3 DEF RefreshInv, Links, AnnouncedIsTrue, ReleasedIsCancelled
<1>8. RowsFollow' /\ ReadsAreGood' /\ HoldFollowsTarget' /\ CancelledIsDeleted'
  BY <1>1 DEF RefreshInv, RowsFollow, ReadsAreGood, Good, Known, Answered, Current,
              HoldFollowsTarget, CancelledIsDeleted
<1> QED BY <1>4, <1>6, <1>7, <1>8 DEF RefreshInv, Links

-----------------------------------------------------------------------------
(* The theorems.                                                           *)

LEMMA RefreshInitially == Init => RefreshInv
<1> SUFFICES ASSUME Init PROVE RefreshInv
  OBVIOUS
<1> DEFINE first == CHOOSE r \in Reservations : TRUE
<1>1. first \in Reservations /\ hold[first] \in Slots
  BY RefreshAssumption DEF Init
<1>2. Ended("none") \in Read /\ Good(Ended("none"))
  BY <1>1, EndedIsRead
<1>3. res \in [Reservations -> Reservation] /\ record \in [Reservations -> Record]
  BY RefreshAssumption DEF Init, Reservation, Record, Time
<1>4. link \in [Matches -> Link]
  BY <1>1, RefreshAssumption DEF Init, Link, Time
<1>5. ASSUME NEW q \in Reservations
      PROVE  /\ res[q].status = "confirmed" /\ res[q].target = hold[q]
             /\ res[q].version = 1 /\ res[q].asOf = 0
             /\ record[q].slot = hold[q] /\ ~record[q].deleted
  BY DEF Init
<1>11. /\ \A m \in Matches : link[m].state = "none" /\ announced[m] = NoSlot
       /\ changes = 0
  BY DEF Init
<1>6. TypeOK
  BY <1>2, <1>3, <1>4, RefreshAssumption DEF Init, TypeOK, Match, Time
<1>7. RowsFollow
  BY <1>5, <1>11 DEF RowsFollow, Current
<1>9. HoldFollowsTarget /\ CancelledIsDeleted
  BY <1>5 DEF HoldFollowsTarget, CancelledIsDeleted
<1>10. Links
  BY <1>11 DEF Links, LinkIsCurrent, AnnouncedIsTrue, ReleasedIsCancelled
<1>8. ReadsAreGood
  BY <1>2 DEF Init, ReadsAreGood
<1> QED BY <1>6, <1>7, <1>8, <1>9, <1>10 DEF RefreshInv

LEMMA RefreshStep == RefreshInv /\ [Next]_vars => RefreshInv'
<1> SUFFICES ASSUME RefreshInv, [Next]_vars PROVE RefreshInv'
  OBVIOUS
<1>1. ASSUME NEW p \in Reads, NEW r \in Reservations, Begin(p, r) PROVE RefreshInv'
  BY <1>1, BeginInv
<1>2. ASSUME NEW p \in Reads, Found(p) \/ NotFound(p) \/ Scan(p) PROVE RefreshInv'
  BY <1>2, AskedInv
<1>3. ASSUME NEW p \in Reads, Confirm(p) PROVE RefreshInv'
  BY <1>3, ConfirmInv
<1>4. ASSUME NEW p \in Reads, Refresh(p) PROVE RefreshInv'
  BY <1>4, RefreshInvariant
<1>5. ASSUME NEW p \in Reads, Refuse(p) \/ Fail(p) PROVE RefreshInv'
  BY <1>5, AnswerInv DEF Refuse, Fail, database, outside
<1>6. ASSUME NEW r \in Reservations, NEW changed \in Record, Change(r, changed) PROVE RefreshInv'
  BY <1>6, ChangeInv
<1>7. ASSUME NEW m \in Matches, Touch(m) \/ Play(m) \/ Complete(m) PROVE RefreshInv'
  BY <1>7, MatchInv
<1>8. ASSUME NEW m \in Matches, NEW r \in Reservations, LinkConfirmed(m, r) PROVE RefreshInv'
  BY <1>8, LinkInv
<1>9. CASE UNCHANGED vars
  BY <1>9 DEF vars, RefreshInv, TypeOK, RowsFollow, ReadsAreGood, Good, Known, Answered, Current,
             HoldFollowsTarget, CancelledIsDeleted, Links, LinkIsCurrent, AnnouncedIsTrue,
             ReleasedIsCancelled, LinkedTo
<1> QED BY <1>1, <1>2, <1>3, <1>4, <1>5, <1>6, <1>7, <1>8, <1>9, TickInv DEF Next, ReadStep

LEMMA RefreshAlwaysInv == Spec => []RefreshInv
BY RefreshInitially, RefreshStep, PTL DEF Spec

\* The rows, the reads and the calendar keep their types.
THEOREM RefreshIsTyped == Spec => []TypeOK
<1>1. RefreshInv => TypeOK
  BY DEF RefreshInv
<1> QED BY <1>1, RefreshAlwaysInv, PTL

\* The hold and the link of a match are where the reservation is, whichever
\* refresh, cancellation or new link came last: the trigger of migration 034
\* stops no refresh and no link.
THEOREM CourtAlwaysFollowsRow == Spec => []CourtFollowsRow
<1>1. RefreshInv => CourtFollowsRow
  BY DEF RefreshInv, Links, CourtFollowsRow
<1> QED BY <1>1, RefreshAlwaysInv, PTL

\* Only a deleted record cancels, and the players of a match have been told of
\* the court they have.
THEOREM NewsIsAlwaysTrue == Spec => []NewsIsTrue
<1>1. RefreshInv => NewsIsTrue
  BY DEF RefreshInv, Links, NewsIsTrue
<1> QED BY <1>1, RefreshAlwaysInv, PTL

\* The rows are changed by a refresh alone, and the links by it or a new link.
LEMMA RowsChange ==
  ASSUME RefreshInv, Next
  PROVE  \/ UNCHANGED <<res, hold, link>>
         \/ \E p \in Reads : Refresh(p)
         \/ UNCHANGED <<res, hold>> /\ \E m \in Matches, r \in Reservations : LinkConfirmed(m, r)
<1>1. ASSUME NEW p \in Reads, Confirm(p) PROVE UNCHANGED <<res, hold, link>>
  <2>1. read[p].reservation \in Reservations
    BY DEF RefreshInv, TypeOK, Read
  <2> QED BY <1>1, <2>1, ConfirmedLinks DEF Confirm
<1>2. ASSUME NEW p \in Reads, NEW r \in Reservations, Begin(p, r) PROVE UNCHANGED <<res, hold, link>>
  BY <1>2 DEF Begin, database
<1>3. ASSUME NEW p \in Reads, Found(p) \/ NotFound(p) \/ Scan(p) \/ Refuse(p) \/ Fail(p)
      PROVE  UNCHANGED <<res, hold, link>>
  BY <1>3 DEF Found, NotFound, Scan, Refuse, Fail, database
<1>4. ASSUME NEW r \in Reservations, NEW changed \in Record, Change(r, changed)
      PROVE  UNCHANGED <<res, hold, link>>
  BY <1>4 DEF Change, database
<1>5. ASSUME NEW m \in Matches, Touch(m) \/ Play(m) \/ Complete(m)
      PROVE  UNCHANGED <<res, hold, link>>
  BY <1>5 DEF Touch, Play, Complete
<1>6. Tick => UNCHANGED <<res, hold, link>>
  BY DEF Tick, database
<1>7. ASSUME NEW m \in Matches, NEW r \in Reservations, LinkConfirmed(m, r) PROVE UNCHANGED <<res, hold>>
  BY <1>7 DEF LinkConfirmed
<1> QED BY <1>1, <1>2, <1>3, <1>4, <1>5, <1>6, <1>7 DEF Next, ReadStep

LEMMA RefreshIsHarmless ==
  ASSUME RefreshInv, NEW p \in Reads, Refresh(p)
  PROVE  NewestWins /\ CancelledIsFinal
<1> DEFINE x == read[p]
           r == x.reservation
           row == Refreshed(r, x.found, x.asOf)
<1>1. /\ r \in Reservations /\ row \in Reservation
      /\ row.version = res[r].version + 1 /\ row.asOf > res[r].asOf
      /\ res' = [res EXCEPT ![r] = row] /\ res[r].status = "confirmed"
  BY RefreshFacts
<1>2. Synchronize(r, row)
  BY DEF Refresh
<1> HIDE DEF row
<1>3. \A q \in Reservations : res'[q] = IF q = r THEN row ELSE res[q]
  BY <1>1 DEF RefreshInv, TypeOK
<1>4. \A q \in Reservations : res[q].asOf \in Nat
  BY RefreshAssumption DEF RefreshInv, TypeOK, Reservation
<1>5. row.asOf \in Nat
  BY <1>1, RefreshAssumption DEF Reservation
<1>6. NewestWins
  BY <1>1, <1>3, <1>4, <1>5 DEF NewestWins
<1>7. \A m \in Matches : link[m].state = "released" => link'[m] = link[m]
  BY <1>2 DEF Synchronize, LinkedTo
<1> QED BY <1>1, <1>3, <1>6, <1>7 DEF CancelledIsFinal

LEMMA LateReadStep == RefreshInv /\ [Next]_vars => [NewestWins /\ CancelledIsFinal]_vars
<1> SUFFICES ASSUME RefreshInv, Next PROVE NewestWins /\ CancelledIsFinal
  OBVIOUS
<1>0. \A q \in Reservations : res[q].asOf \in Nat
  BY RefreshAssumption DEF RefreshInv, TypeOK, Reservation
<1>1. CASE UNCHANGED <<res, hold, link>>
  BY <1>0, <1>1 DEF NewestWins, CancelledIsFinal
<1>2. ASSUME NEW p \in Reads, Refresh(p) PROVE NewestWins /\ CancelledIsFinal
  BY <1>2, RefreshIsHarmless
<1>3. ASSUME NEW m \in Matches, NEW r \in Reservations, LinkConfirmed(m, r), UNCHANGED res
      PROVE  NewestWins /\ CancelledIsFinal
  <2>1. /\ res[r].status = "confirmed" /\ link'[m].reservation = r
        /\ \A n \in Matches \ {m} : link'[n] = link[n]
    BY <1>3 DEF LinkConfirmed, RefreshInv, TypeOK
  <2>2. link[m].state = "released" => link[m].reservation # r
    BY <2>1 DEF RefreshInv, Links, ReleasedIsCancelled
  <2> QED BY <1>0, <1>3, <2>1, <2>2 DEF NewestWins, CancelledIsFinal
<1> QED BY <1>1, <1>2, <1>3, RowsChange

\* Reads that come late take nothing back: no older change over a newer one,
\* and no court after a cancellation.
THEOREM LateReadsStayHarmless == Spec => LateReadsAreHarmless
BY RefreshAlwaysInv, LateReadStep, PTL DEF Spec, LateReadsAreHarmless

LEMMA PromiseStep == RefreshInv /\ [Next]_vars => [Ledger!Next]_(Ledger!vars)
<1> SUFFICES ASSUME RefreshInv, [Next]_vars PROVE [Ledger!Next]_(Ledger!vars)
  OBVIOUS
<1>1. CASE UNCHANGED <<res, hold>>
  BY <1>1 DEF Ledger!vars
<1>2. ASSUME NEW p \in Reads, Refresh(p) PROVE Ledger!Next
  <2> DEFINE x == read[p]
             r == x.reservation
             row == Refreshed(r, x.found, x.asOf)
             promise == [q \in Reservations |-> IF res[q].status = "confirmed" THEN "booked" ELSE "closed"]
  <2>1. /\ r \in Reservations /\ row \in Reservation
        /\ res' = [res EXCEPT ![r] = row] /\ res[r].status = "confirmed"
        /\ hold' = [hold EXCEPT ![r] = HoldOf(row)]
    BY <1>2, RefreshFacts
  <2>2. row.status = "confirmed" => SlotFree(r, row.target)
    BY <1>2 DEF Refresh
  <2> HIDE DEF row
  <2>3. \A q \in Reservations : res'[q] = IF q = r THEN row ELSE res[q]
    BY <2>1 DEF RefreshInv, TypeOK
  <2>4. CASE row.status = "confirmed"
    <3>1. promise' = promise
      BY <2>1, <2>3, <2>4
    <3>2. Ledger!Free(r, row.target) /\ row.target \in Slots
      BY <2>1, <2>2, <2>4 DEF SlotFree, Ledger!Free, Reservation
    <3>3. Ledger!Move(r, row.target)
      BY <2>1, <2>4, <3>1, <3>2 DEF Ledger!Move, HoldOf
    <3> QED BY <2>1, <3>2, <3>3 DEF Ledger!Next
  <2>5. CASE row.status = "cancelled"
    <3>1. promise' = [promise EXCEPT ![r] = "closed"]
      BY <2>1, <2>3, <2>5
    <3>2. PICK q \in Reservations : q = r
      BY <2>1
    <3>3. Ledger!Close(q)
      BY <2>1, <2>5, <3>1, <3>2 DEF Ledger!Close, HoldOf
    <3> QED BY <3>3 DEF Ledger!Next
  <2> QED BY <2>1, <2>4, <2>5 DEF Reservation
<1>3. UNCHANGED vars => UNCHANGED <<res, hold>>
  BY DEF vars
<1> QED BY <1>1, <1>2, <1>3, RowsChange

\* Whatever the staff do and whichever read finds out first, a booked court is
\* only ever moved to a free slot or given back for good.
THEOREM RefreshKeepsPromise == Spec => KeepsPromise
<1>1. Init => Ledger!Init
  <2> SUFFICES ASSUME Init PROVE Ledger!Init
    OBVIOUS
  <2>1. \A q \in Reservations : hold[q] \in Slots /\ hold[q] # NoSlot /\ res[q].status = "confirmed"
    BY RefreshAssumption DEF Init
  <2>2. Ledger!Exclusive
    BY DEF Init, Ledger!Exclusive
  <2> QED BY <2>1, <2>2 DEF Init, Ledger!Init
<1> QED BY <1>1, PromiseStep, RefreshAlwaysInv, PTL DEF Spec, KeepsPromise, Ledger!Spec

HoldsApart == hold \in [Reservations -> Slots \cup {NoSlot}] /\ Ledger!Exclusive

\* A court goes to a holder only if no other holder has one that overlaps it.
LEMMA GrantStaysExclusive ==
  ASSUME HoldsApart, NEW r \in Reservations, NEW s \in Slots,
         Ledger!Free(r, s), hold' = [hold EXCEPT ![r] = s]
  PROVE  HoldsApart'
<1>1. \A j, k \in Reservations :
        (j # k /\ hold'[j] # NoSlot /\ hold'[k] # NoSlot) => ~Overlap(hold'[j], hold'[k])
  <2> SUFFICES ASSUME NEW j \in Reservations, NEW k \in Reservations,
                      j # k, hold'[j] # NoSlot, hold'[k] # NoSlot
               PROVE  ~Overlap(hold'[j], hold'[k])
    OBVIOUS
  <2>1. \A q \in Reservations : hold'[q] = IF q = r THEN s ELSE hold[q]
    BY DEF HoldsApart
  <2>2. CASE j = r
    <3>1. hold[k] \in Slots /\ ~Overlap(hold[k], s)
      BY <2>1, <2>2 DEF HoldsApart, Ledger!Free
    <3> QED BY <2>1, <2>2, <3>1, RefreshAssumption
  <2>3. CASE k = r
    BY <2>1, <2>3 DEF Ledger!Free
  <2>4. CASE j # r /\ k # r
    BY <2>1, <2>4 DEF HoldsApart, Ledger!Exclusive
  <2> QED BY <2>2, <2>3, <2>4
<1> QED BY <1>1 DEF HoldsApart, Ledger!Exclusive

LEMMA LedgerStep == HoldsApart /\ [Ledger!Next]_(Ledger!vars) => HoldsApart'
<1> SUFFICES ASSUME HoldsApart, [Ledger!Next]_(Ledger!vars) PROVE HoldsApart'
  OBVIOUS
<1>1. CASE hold' = hold
  BY <1>1 DEF HoldsApart, Ledger!Exclusive
<1>2. ASSUME NEW r \in Reservations, Ledger!Close(r) PROVE HoldsApart'
  BY <1>2 DEF HoldsApart, Ledger!Exclusive, Ledger!Close
<1>3. ASSUME NEW r \in Reservations, NEW s \in Slots, Ledger!Hold(r, s) PROVE HoldsApart'
  BY <1>3, GrantStaysExclusive DEF Ledger!Hold
<1>4. ASSUME NEW r \in Reservations, NEW s \in Slots, Ledger!Move(r, s) PROVE HoldsApart'
  BY <1>4, GrantStaysExclusive DEF Ledger!Move
<1> QED BY <1>1, <1>2, <1>3, <1>4 DEF Ledger!Next, Ledger!Book, Ledger!vars

\* No two confirmed reservations hold overlapping times of a court, however the
\* staff move the records and whichever read takes the moves over.
THEOREM NoCourtIsPromisedTwice == Spec => []Ledger!Exclusive
<1>1. Init => HoldsApart
  BY RefreshInitially DEF RefreshInv, TypeOK, Init, HoldsApart, Ledger!Exclusive
<1>2. HoldsApart => Ledger!Exclusive
  BY DEF HoldsApart
<1> QED BY <1>1, <1>2, LedgerStep, PromiseStep, RefreshAlwaysInv, PTL DEF Spec
=============================================================================
