---------------------------- MODULE MCMatchSeats ----------------------------
(* Four players and two slots beside the owner's: a full match leaves two    *)
(* players for the queue.                                                    *)
EXTENDS MatchSeats
CONSTANTS a, b, c, d
FourPlayers == {a, b, c, d}
OneChanging == {d}
NoneChanging == {}
TwoSlots == {2, 3}
=============================================================================
