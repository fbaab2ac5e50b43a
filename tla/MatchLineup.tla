------------------------------ MODULE MatchLineup ------------------------------
(***************************************************************************)
(* Who plays where in one match: its players take, change and give back a  *)
(* place on the court while they may still join and leave, and after the   *)
(* match one of them submits the result, which locks the line-up.          *)
(* The handlers lock different rows.  Joining, leaving and submitting lock *)
(* the match; everything but joining locks the line-up, which the first    *)
(* handler inserts.  Each statement sees what was committed when it began. *)
(***************************************************************************)
EXTENDS Integers, FiniteSets

CONSTANTS Requests,     \* requests, each one transaction
          Members,      \* accounts; the owner is one of them
          LineupOwner,
          Places        \* the places of the court

ASSUME LineupAssumption == LineupOwner \in Members /\ IsFiniteSet(Places)

VARIABLES
  players,    \* the owner and the active participants
  lineup,       \* match_lineups: "none", "draft" or "locked"
  place,        \* match_lineup_assignments that are active
  named,        \* the players of the submitted result
  request,      \* where each request is
  finished      \* the match is over

lineupVars == <<players, lineup, place, named, request, finished>>

NoPlace == "none"

LineupInit ==
  /\ players = {LineupOwner} /\ lineup = "none"
  /\ place = [p \in Members |-> NoPlace]
  /\ named = {}
  /\ request = [r \in Requests |-> [pc |-> "done"]]
  /\ finished = FALSE

-----------------------------------------------------------------------------
\* The rows each request holds.  A new line-up holds a share of its match.
HoldsTheMatch(r) == \/ request[r].pc \in {"left", "submit"}
                    \/ request[r].pc \in {"choose", "place"} /\ request[r].inserted
HoldsTheLineup(r) == request[r].pc \in {"choose", "place"}

MatchRowFree == \A r \in Requests : ~HoldsTheMatch(r)

LineupRowFree == \A r \in Requests : ~HoldsTheLineup(r)

RequestAt(r, fields) == request' = [request EXCEPT ![r] = fields]
Outcomes == {"done", "found", "rejected", "failed", "invalid_state"}
RequestEnds(r, outcome) == RequestAt(r, [pc |-> outcome])

SendRequest(r, type, p, at) ==
  /\ request[r].pc \in Outcomes
  /\ RequestAt(r, [pc |-> type, player |-> p, place |-> at, late |-> finished])
  /\ UNCHANGED <<players, lineup, place, named, finished>>

\* Joining: one step under the lock of the match (module MatchSeats).
JoinMatch(r) ==
  /\ request[r].pc = "join" /\ MatchRowFree
  /\ IF /\ ~request[r].late /\ request[r].player \notin players
        /\ Cardinality(players) < Cardinality(Places)
     THEN players' = players \cup {request[r].player} /\ RequestEnds(r, "done")
     ELSE UNCHANGED players /\ RequestEnds(r, "rejected")
  /\ UNCHANGED <<lineup, place, named, finished>>

\* assign, release and read make the line-up if there is none, and lock it.
EnterLineup(r) ==
  /\ request[r].pc \in {"assign", "release", "read"} /\ LineupRowFree
  /\ lineup = "none" => MatchRowFree
  /\ lineup' = IF lineup = "none" THEN "draft" ELSE lineup
  /\ RequestAt(r, [pc |-> "choose", type |-> request[r].pc, player |-> request[r].player,
                   place |-> request[r].place, late |-> request[r].late,
                   inserted |-> lineup = "none", sees |-> {}])
  /\ UNCHANGED <<players, place, named, finished>>

\* The first of two reads: the players.
Eligible(r) == players

ReadEligible(r) ==
  LET q == request[r]
  IN /\ q.pc = "choose"
     /\ IF q.type = "read" \/ (lineup # "locked" /\ ~q.late /\ q.player \in Eligible(r))
        THEN RequestAt(r, [q EXCEPT !.pc = "place", !.sees = players])
        ELSE RequestEnds(r, "rejected")
     /\ UNCHANGED <<players, lineup, place, named, finished>>

Assigned == {p \in Members : place[p] # NoPlace}
Taken(r) == \E p \in Members : place[p] = request[r].place

\* The second: the places; then the change is written and committed.
ChoosePlace(r) ==
  LET q == request[r]
  IN /\ q.pc = "place"
     /\ \/ /\ q.type = "assign" /\ ~Taken(r)
           /\ place' = [place EXCEPT ![q.player] = q.place] /\ RequestEnds(r, "done")
        \/ /\ q.type = "release" /\ place[q.player] # NoPlace
           /\ place' = [place EXCEPT ![q.player] = NoPlace] /\ RequestEnds(r, "done")
        \/ /\ \/ q.type = "assign" /\ Taken(r)
              \/ q.type = "release" /\ place[q.player] = NoPlace
           /\ UNCHANGED place /\ RequestEnds(r, "rejected")
        \/ /\ q.type = "read"
           /\ UNCHANGED place
           /\ RequestEnds(r, IF Assigned \subseteq q.sees THEN "found" ELSE "invalid_state")
     /\ UNCHANGED <<players, lineup, named, finished>>

\* Leaving: the match first, the line-up after it, in one transaction.
LeaveMatch(r) ==
  /\ request[r].pc = "leave" /\ MatchRowFree
  /\ IF ~request[r].late /\ request[r].player \in players \ {LineupOwner}
     THEN RequestAt(r, [request[r] EXCEPT !.pc = "left"])
     ELSE RequestEnds(r, "rejected")
  /\ UNCHANGED <<players, lineup, place, named, finished>>

\* mutant of ReleasedPlace: a player who leaves keeps the place
ReleasedPlaceKept(p) == place
ReleasedPlace(p) == [place EXCEPT ![p] = NoPlace]

Refused(p) == place[p] # NoPlace /\ lineup = "locked"

\* A locked line-up refuses the release, and the transaction with it.
ReleaseForLeave(r) ==
  LET p == request[r].player
  IN /\ request[r].pc = "left"
     /\ lineup # "none" => LineupRowFree
     /\ IF Refused(p)
        THEN RequestEnds(r, "failed") /\ UNCHANGED <<players, place>>
        ELSE /\ players' = players \ {p}
             /\ place' = ReleasedPlace(p)
             /\ RequestEnds(r, "done")
     /\ UNCHANGED <<lineup, named, finished>>

\* Submitting: the match, then the line-up, its places and its players.
SubmitResult(r) ==
  /\ request[r].pc = "result" /\ MatchRowFree
  /\ IF request[r].player \notin players \/ named # {} \/ ~request[r].late \/ lineup = "none"
     THEN RequestEnds(r, "rejected")
     ELSE RequestAt(r, [request[r] EXCEPT !.pc = "submit"])
  /\ UNCHANGED <<players, lineup, place, named, finished>>

Complete == /\ Cardinality(Assigned) = Cardinality(Places)
            /\ Cardinality(players) = Cardinality(Places) /\ Assigned \subseteq players

LockedLineup == lineup' = "locked"

CompareLineup(r) ==
  /\ request[r].pc = "submit" /\ LineupRowFree
  /\ IF Complete /\ request[r].player \in Assigned
     THEN LockedLineup /\ named' = Assigned /\ RequestEnds(r, "done")
     ELSE UNCHANGED <<lineup, named>> /\ RequestEnds(r, "rejected")
  /\ UNCHANGED <<players, place, finished>>

\* The transaction is rolled back; so is the line-up it inserted.
FailRequest(r) ==
  /\ request[r].pc \in {"choose", "place", "left", "submit"}
  /\ lineup' = IF request[r].pc \in {"choose", "place"} /\ request[r].inserted
               THEN "none" ELSE lineup
  /\ RequestEnds(r, "failed")
  /\ UNCHANGED <<players, place, named, finished>>

MatchEnds ==
  /\ ~finished /\ finished' = TRUE
  /\ UNCHANGED <<players, lineup, place, named, request>>

LineupNext ==
  \/ \E r \in Requests :
       \/ \E p \in Members :
            \/ \E type \in {"join", "leave", "release", "read", "result"} :
                 SendRequest(r, type, p, NoPlace)
            \/ \E at \in Places : SendRequest(r, "assign", p, at)
       \/ JoinMatch(r) \/ EnterLineup(r) \/ ReadEligible(r) \/ ChoosePlace(r)
       \/ LeaveMatch(r) \/ ReleaseForLeave(r) \/ SubmitResult(r) \/ CompareLineup(r)
       \/ FailRequest(r)
  \/ MatchEnds

LineupSpec == LineupInit /\ [][LineupNext]_lineupVars

-----------------------------------------------------------------------------
(* Properties                                                              *)

\* Every variable keeps its type; two players never have one place.
LineupTypeOK ==
  /\ players \subseteq Members /\ LineupOwner \in players
  /\ lineup \in {"none", "draft", "locked"} /\ named \subseteq Members
  /\ place \in [Members -> Places \cup {NoPlace}]
  /\ \A p, q \in Assigned : place[p] = place[q] => p = q
  /\ \A r \in Requests : request[r].pc \in Outcomes \cup
       {"join", "leave", "assign", "release", "read", "result", "choose", "place", "left", "submit"}

\* A player who left the match has no place in it, whichever of a claim and a
\* departure that cross each other comes first.
AssignedArePlayers == Assigned \subseteq players

\* Reading the line-up, two statements under a shared lock, never meets a
\* player with a place who is not in the match: that would be an error.
LineupReads == \A r \in Requests : request[r].pc # "invalid_state"

\* The result names the players of the match and their places, and this stays
\* so: requests that were sent before the end and come through late change
\* nothing.
ResultNamesThePlayers ==
  named # {} => /\ named = Assigned /\ named = players
                /\ Cardinality(named) = Cardinality(Places) /\ lineup = "locked"

\* The line-up names players of the match only, can always be read, and is the
\* one the result names, although places, departures and results cross.
LineupIsTrue == AssignedArePlayers /\ LineupReads /\ ResultNamesThePlayers
=============================================================================
