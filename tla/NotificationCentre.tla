--------------------------- MODULE NotificationCentre ---------------------------
(***************************************************************************)
(* The notifications of one player: his page, which loads them, polls for   *)
(* more and marks one as read when he opens it, and their rows, which other *)
(* transactions insert and his other devices mark too.  All of them fit in  *)
(* the page of fifty.                                                       *)
(***************************************************************************)
EXTENDS Naturals, FiniteSets

CONSTANTS Notes,
          Taps        \* times the player opens a notification

ASSUME NotesAssumption == IsFiniteSet(Notes)

VARIABLES
  notes,     \* match_notifications and the recipients of events
  tap,       \* the notifications opened: the request to mark each as read
  load,      \* the latest request for the list
  centre     \* what the page shows

notesVars == <<notes, tap, load, centre>>

NoLoad == [pc |-> "idle"]

NotesInit ==
  /\ notes = [n \in Notes |-> "none"]
  /\ tap = [t \in Taps |-> [pc |-> "idle"]]
  /\ load = NoLoad
  /\ centre = [items |-> [n \in Notes |-> "none"], unread |-> 0]

(***************************************************************************)
(* The server.                                                              *)
(***************************************************************************)
Notify(n) ==
  /\ notes[n] = "none"
  /\ notes' = [notes EXCEPT ![n] = "unread"]
  /\ UNCHANGED <<tap, load, centre>>

\* Another device marks it, or a request of this page that it has given up and
\* repeated, which is still under way.
MarkUnheard(n) ==
  /\ notes[n] = "unread"
  /\ notes' = [notes EXCEPT ![n] = "read"]
  /\ UNCHANGED <<tap, load, centre>>

\* The statement takes its snapshot; its UPDATE may then wait for a row that
\* another transaction has locked.
BeginMark(t) ==
  /\ tap[t].pc = "sent"
  /\ tap' = [tap EXCEPT ![t] = [pc |-> "marking", note |-> @.note, sees |-> notes[@.note]]]
  /\ UNCHANGED <<notes, load, centre>>

\* An UPDATE that finds the row already read leaves the answer to the SELECT of
\* the same statement, which reads the snapshot: a row unread there is refused
\* as an invalid state.
AnswerOf(t) ==
  IF notes[tap[t].note] = "unread" \/ tap[t].sees = "read" THEN "read" ELSE "failed"

EndMark(t) ==
  /\ tap[t].pc = "marking"
  /\ tap' = [tap EXCEPT ![t] = [pc |-> "answered", note |-> @.note, answer |-> AnswerOf(t)]]
  /\ notes' = [notes EXCEPT ![tap[t].note] = "read"]
  /\ UNCHANGED <<load, centre>>

ServeLoad ==
  /\ load.pc = "sent"
  /\ load' = [pc |-> "served", found |-> notes]
  /\ UNCHANGED <<notes, tap, centre>>

(***************************************************************************)
(* The page.                                                                *)
(***************************************************************************)
\* Every load, in the foreground or a poll, and every notification marked as
\* read, makes the page ignore the answer to the load before it.
LoadNotifications ==
  /\ load' = [pc |-> "sent"]
  /\ UNCHANGED <<notes, tap, centre>>

\* mutant of OvertakenByMark: only another load makes the page ignore one
OvertakenByLoadOnly == load
OvertakenByMark == NoLoad

Unread(items) == Cardinality({n \in Notes : items[n] = "unread"})

\* A request that is lost, or answered with an error, changes nothing.
ReceiveLoad ==
  /\ load # NoLoad
  /\ load' = NoLoad
  /\ \/ /\ load.pc = "served"
        /\ centre' = [items |-> load.found, unread |-> Unread(load.found)]
     \/ UNCHANGED centre
  /\ UNCHANGED <<notes, tap>>

\* Nothing stops a second tap on a notification that is being marked.
ViewNotification(t, n) ==
  /\ tap[t].pc = "idle" /\ centre.items[n] = "unread"
  /\ tap' = [tap EXCEPT ![t] = [pc |-> "sent", note |-> n]]
  /\ UNCHANGED <<notes, load, centre>>

UnreadAfter(n) ==
  IF centre.items[n] = "unread" /\ centre.unread > 0 THEN centre.unread - 1 ELSE centre.unread

TapBecomes(t, answer) == tap' = [tap EXCEPT ![t] = [pc |-> answer, note |-> @.note]]

ReceiveMark(t) ==
  /\ tap[t].pc = "answered" /\ TapBecomes(t, tap[t].answer)
  /\ IF tap[t].answer = "read"
     THEN /\ load' = OvertakenByMark
          /\ centre' = [items |-> [centre.items EXCEPT ![tap[t].note] = "read"],
                        unread |-> UnreadAfter(tap[t].note)]
     ELSE UNCHANGED <<load, centre>>
  /\ UNCHANGED notes

\* No answer in time, or one that asks to try again: the request is repeated,
\* up to MAX_REQUESTS times, or given up.
RepeatMark(t) ==
  /\ tap[t].pc \in {"sent", "marking", "answered"}
  /\ TapBecomes(t, "sent") \/ TapBecomes(t, "unavailable")
  /\ UNCHANGED <<notes, load, centre>>

NotesNext ==
  \/ \E n \in Notes : Notify(n) \/ MarkUnheard(n) \/ \E t \in Taps : ViewNotification(t, n)
  \/ \E t \in Taps : BeginMark(t) \/ EndMark(t) \/ ReceiveMark(t) \/ RepeatMark(t)
  \/ LoadNotifications \/ ServeLoad \/ ReceiveLoad

NotesSpec == NotesInit /\ [][NotesNext]_notesVars

-----------------------------------------------------------------------------
\* Every variable keeps its type.
NotesTypeOK ==
  /\ \A n \in Notes : {notes[n], centre.items[n]} \subseteq {"none", "unread", "read"}
  /\ \A t \in Taps :
       tap[t].pc \in {"idle", "sent", "marking", "answered", "read", "failed", "unavailable"}
  /\ load.pc \in {"idle", "sent", "served"}

\* Through double taps, repeated requests and loads that overtake one another
\* the badge counts the unread notifications on the page; one the player has
\* marked stays read there, and none is shown as read that is not; and he is
\* told that marking failed only of a notification that is read.
NotesAreTrue ==
  /\ centre.unread = Unread(centre.items)
  /\ \A t \in Taps : tap[t].pc = "read" => centre.items[tap[t].note] = "read"
  /\ \A n \in Notes : centre.items[n] = "read" => notes[n] = "read"
  /\ \A t \in Taps : tap[t].pc = "failed" => notes[tap[t].note] = "read"
=============================================================================
