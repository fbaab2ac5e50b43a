---------------------------- MODULE MCCourtRefresh ----------------------------
(* Courts a and b at the same hour, court a half an hour later, and a court c *)
(* that only r2 has.                                                          *)
EXTENDS CourtRefresh, TLC
CONSTANTS r1, r2, m1, m2, p1, p2, a, a2, b, c
MCOverlap(s, t) == s = t \/ {s, t} = {a, a2}
OneReservation == {r1}
TwoReservations == {r1, r2}
NoMatches == {}
OneMatch == {m1}
TwoMatches == {m1, m2}
OneRead == {p1}
TwoReads == {p1, p2}
TwoSlots == {a, b}
ThreeSlots == {a, a2, b}
AllSlots == {a, a2, b, c}
ReadSymmetry == Permutations(TwoReads)
Symmetry == Permutations(TwoReads) \cup Permutations(TwoMatches)

-----------------------------------------------------------------------------
(* Two instances in one run.  Where r2 has court c, two matches are linked to  *)
(* r1 and r2 rests; elsewhere r1 and r2 compete for the courts, without        *)
(* matches and in one second.                                                  *)

MatchesOfOne == record[r2].slot = c

BothInit ==
  /\ Init
  /\ hold[r1] \in (IF hold[r2] = c THEN TwoSlots ELSE ThreeSlots)

BothNext ==
  /\ Next
  /\ IF MatchesOfOne
     THEN /\ UNCHANGED <<record[r2]>>
          /\ record'[r1].slot \in TwoSlots
          /\ \A m \in Matches : link'[m].state # "none" => link'[m].reservation = r1
          /\ \A p \in Reads : read'[p].pc # "done" => read'[p].reservation = r1
     ELSE /\ UNCHANGED <<link, match, now>>
          /\ \A r \in Reservations : record'[r].slot \in ThreeSlots

BothSpec == BothInit /\ [][BothNext]_vars
=============================================================================
