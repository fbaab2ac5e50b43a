----------------------------- MODULE MatchCreation -----------------------------
(* A match is made on a court that is booked: MatchCreationScreen.jsx and     *)
(* App.handleMatchSuccess on the player's devices, MatchApiService.create and *)
(* the two repositories on the server.  The court is read afresh first, then  *)
(* one transaction locks it, compares it, and inserts the match and its link. *)
(* Meanwhile the staff move or delete the record, other readers refresh the   *)
(* row, and the link API may take the court for a match that lost its own.    *)
(* One reservation, confirmed and bound at first; CourtRefresh has the rest   *)
(* of the refresh.                                                            *)
EXTENDS Integers, FiniteSets

CONSTANTS MakerDevices,   \* devices on which the owner makes the match
          Details,        \* what the owner fills in
          MakerCourts,    \* a court from a start to an end
          MaxMoves,       \* bound: moves and deletions by the staff
          MaxPresses      \* bound: times the owner presses

ASSUME CreationAssumption ==
  /\ MakerCourts # {} /\ Details # {} /\ "none" \notin Details
  /\ MaxMoves \in Nat

VARIABLES court,    \* the reservation row, and the record in the calendar
          made,     \* the matches: what they were made with, or "none"
          linked,   \* the link of each match to the reservation
          maker,    \* what each device does and was told
          presses   \* how often the owner has pressed

creationVars == <<court, made, linked, maker, presses>>

Old == "old"   \* a match whose own court was cancelled
MatchIds == {Old, "made"} \cup MakerDevices
AnyPlace == CHOOSE c \in MakerCourts : TRUE
\* A device at the form remembers nothing of an earlier press.
Quiet == [pc |-> "form", details |-> CHOOSE d \in Details : TRUE, begun |-> 0,
          fresh |-> AnyPlace, ok |-> FALSE, reply |-> "none",
          at |-> AnyPlace, match |-> Old, version |-> 0, asOf |-> 0]

\* asOf is history: how many changes of the calendar the row has taken over.
CreationInit ==
  /\ court = [status |-> "confirmed", target |-> AnyPlace, version |-> 1, asOf |-> 0,
              record |-> AnyPlace, deleted |-> FALSE, moves |-> 0, started |-> FALSE]
  /\ made = [m \in MatchIds |-> IF m = Old THEN CHOOSE d \in Details : TRUE ELSE "none"]
  /\ linked = [m \in MatchIds |-> [state |-> "none", target |-> AnyPlace]]
  /\ maker = [d \in MakerDevices |-> Quiet]
  /\ presses = 0

-------------------------------------------------------------------------------
(* The calendar and the row.                                                  *)

\* external: the staff move the record or delete it.
StaffAct ==
  /\ court.moves < MaxMoves /\ ~court.deleted
  /\ \/ \E c \in MakerCourts \ {court.record} :
          court' = [court EXCEPT !.record = c, !.moves = @ + 1]
     \/ court' = [court EXCEPT !.deleted = TRUE, !.moves = @ + 1]
  /\ UNCHANGED <<made, linked, maker, presses>>

GameStarts ==
  /\ ~court.started
  /\ court' = [court EXCEPT !.started = TRUE]
  /\ UNCHANGED <<made, linked, maker, presses>>

\* The row after an exact refresh: cancelled when the record is deleted.
Refreshed(row) ==
  IF row.status = "cancelled" THEN row
  ELSE IF row.deleted
       THEN [row EXCEPT !.status = "cancelled", !.version = @ + 1, !.asOf = row.moves]
  ELSE IF row.record # row.target
       THEN [row EXCEPT !.target = row.record, !.version = @ + 1, !.asOf = row.moves]
  ELSE [row EXCEPT !.asOf = row.moves]

\* mutant of Follows: a deleted record leaves its link as it is
FollowsMoves(link, row) ==
  IF link.state = "active" THEN [link EXCEPT !.target = row.target] ELSE link

\* synchronizeCanonicalRefresh: the active link moves with the row, or is released.
Follows(link, row) ==
  IF link.state # "active" THEN link
  ELSE IF row.status = "cancelled" THEN [link EXCEPT !.state = "released"]
  ELSE [link EXCEPT !.target = row.target]

RefreshRow ==
  /\ court' = Refreshed(court)
  /\ linked' = [m \in MatchIds |-> Follows(linked[m], court')]

\* Another reader, or the reconciliation, refreshes the row.
OthersRefresh ==
  /\ RefreshRow /\ court' # court
  /\ UNCHANGED <<made, maker, presses>>

\* findLinkedMatchId
ActiveLinks == {m \in MatchIds : linked[m].state = "active"}
\* confirmedMatchTarget: a confirmed court whose time has not come.
Linkable == court.status = "confirmed" /\ ~court.started
\* activateConfirmedMatchReservation: neither side has a link yet.
Activable == Linkable /\ ActiveLinks = {}
\* linkConfirmed: the row of the link takes the court as it is.
LinkConfirmed(m) == [linked EXCEPT ![m] = [state |-> "active", target |-> court.target]]

\* MatchReservationApiService.link, for the match that lost its court: no fresh
\* read comes before it.
LinkOld ==
  /\ Activable
  /\ linked' = LinkConfirmed(Old)
  /\ UNCHANGED <<court, made, maker, presses>>

-------------------------------------------------------------------------------
(* The server makes a match.                                                  *)

Reply(d, reply) == maker' = [maker EXCEPT ![d] = [Quiet EXCEPT !.pc = "reply", !.reply = reply]]

\* mutant of FreshEnough: an old answer will do
FreshEnoughAny(read) == read \in {"fresh", "stale"}

\* fresh.outcome = 'found' and not stale
FreshEnough(read) == read = "fresh"

\* bookingReservations.read: the row is refreshed, or, where the provider does
\* not answer, returned as it is and marked stale.
ReadCourt(d, read) ==
  /\ maker[d].pc = "read"
  /\ IF read = "fresh" THEN RefreshRow ELSE UNCHANGED <<court, linked>>
  /\ IF FreshEnough(read)
     THEN maker' = [maker EXCEPT ![d].pc = "apply", ![d].fresh = court'.target,
                                 ![d].ok = court'.status = "confirmed"]
     ELSE Reply(d, "unavailable")
  /\ UNCHANGED <<made, presses>>

\* bindingUuid: the id of the match is made of the account and the reservation.
MatchIdOf(d) == "made"

\* MatchRepository.create: the rows of the match and of the command.
Inserted(m, details) == [made EXCEPT ![m] = details]

\* The answer names the match, and the court as the transaction saw it.
Created(d, m) ==
  maker' = [maker EXCEPT ![d] =
              [Quiet EXCEPT !.pc = "reply", !.reply = "created", !.match = m,
                            !.begun = maker[d].begun, !.at = court.target,
                            !.version = court.version, !.asOf = court.asOf]]

\* The transaction of create.  An active link is answered with its match, made
\* with whatever details; a command that was used is answered as a conflict.
CommitCreation(d) ==
  LET m == MatchIdOf(d)
      same == maker[d].ok /\ maker[d].fresh = court.target
  IN
  /\ maker[d].pc = "apply"
  /\ CASE ~Linkable \/ ~same -> Reply(d, "refused") /\ UNCHANGED <<made, linked>>
       [] Linkable /\ same /\ ActiveLinks # {} ->
            (\E x \in ActiveLinks : Created(d, x)) /\ UNCHANGED <<made, linked>>
       [] Activable /\ same /\ made[m] # "none" ->
            Reply(d, "conflict") /\ UNCHANGED <<made, linked>>
       [] OTHER ->
            /\ made' = Inserted(m, maker[d].details)
            /\ linked' = LinkConfirmed(m)
            /\ Created(d, m)
  /\ UNCHANGED <<court, presses>>

\* The transaction conflicts with another, or the database is away: no change.
Aborts(d) ==
  /\ maker[d].pc = "apply"
  /\ Reply(d, "unavailable")
  /\ UNCHANGED <<court, made, linked, presses>>

-------------------------------------------------------------------------------
(* The device.                                                                *)

\* continueToBooking with a reservation: one request at a time (savingRef).
Press(d, details) ==
  /\ maker[d].pc = "form" /\ presses < MaxPresses
  /\ presses' = presses + 1
  /\ maker' = [maker EXCEPT ![d].pc = "read", ![d].details = details,
                            ![d].begun = court.moves]
  /\ UNCHANGED <<court, made, linked>>

\* handleMatchSuccess: the match is stored and shown, or an error, and the
\* form stays for another press.
Hear(d) ==
  /\ maker[d].pc = "reply"
  /\ maker' = [maker EXCEPT ![d] = IF @.reply = "created" THEN [@ EXCEPT !.pc = "shown"]
                                   ELSE Quiet]
  /\ UNCHANGED <<court, made, linked, presses>>

\* The answer is lost, or the request timed out: the match may be made or not.
Lose(d) ==
  /\ maker[d].pc = "reply"
  /\ maker' = [maker EXCEPT ![d] = Quiet]
  /\ UNCHANGED <<court, made, linked, presses>>

CreationNext ==
  \/ StaffAct \/ GameStarts \/ OthersRefresh \/ LinkOld
  \/ \E d \in MakerDevices :
       \/ \E x \in Details : Press(d, x)
       \/ \E read \in {"fresh", "stale"} : ReadCourt(d, read)
       \/ CommitCreation(d) \/ Aborts(d) \/ Hear(d) \/ Lose(d)

CreationSpec == CreationInit /\ [][CreationNext]_creationVars

-------------------------------------------------------------------------------
\* The variables keep their types.
CreationTypeOK ==
  /\ court.status \in {"confirmed", "cancelled"} /\ court.target \in MakerCourts
  /\ court.version \in 1..(MaxMoves + 1) /\ court.asOf \in 0..court.moves
  /\ made \in [MatchIds -> Details \cup {"none"}]
  /\ linked \in [MatchIds -> [state : {"none", "active", "released"}, target : MakerCourts]]
  /\ \A d \in MakerDevices :
       /\ maker[d].pc \in {"form", "read", "apply", "reply", "shown"}
       /\ maker[d].reply \in {"none", "created", "refused", "conflict", "unavailable"}

\* MatchApiService.create under retries, two devices and a calendar that moves:
\* the reservation carries one match at a time, and one was made of it; the
\* match is where the row is; and an owner who is told of his match is told of
\* the one that is linked, at a court the calendar gave it after he pressed.
CreationIsTrue ==
  /\ Cardinality(ActiveLinks) <= 1
  /\ Cardinality({m \in MatchIds \ {Old} : made[m] # "none"}) <= 1
  /\ \A m \in ActiveLinks : court.status = "confirmed" /\ linked[m].target = court.target
  /\ \A d \in MakerDevices : maker[d].pc = "shown" =>
       /\ maker[d].asOf >= maker[d].begun
       /\ made[maker[d].match] # "none"
       /\ maker[d].version = court.version =>
            /\ linked[maker[d].match].state = "active"
            /\ maker[d].at = court.target
===============================================================================
