--------------------------- MODULE FeedProperties ---------------------------
(***************************************************************************)
(* What the parts of the Mini App that show what others change have in     *)
(* common: they follow what the server keeps.                              *)
(***************************************************************************)
EXTENDS MatchChat, NotificationCentre, ProfilePhoto, BookingAvailability,
        MatchCreation

\* What a player reads, of a chat, of his notifications, of his photo or of the
\* free times, is what the server keeps, and what he was told he did, he did.
FeedsAreTrue ==
  ChatIsTrue /\ NotesAreTrue /\ PhotoIsTrue /\ AvailabilityIsTrue /\ CreationIsTrue
=============================================================================
