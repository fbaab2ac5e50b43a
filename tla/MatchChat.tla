------------------------------- MODULE MatchChat -------------------------------
(***************************************************************************)
(* The chat of a match: the screen of one player, which loads the messages *)
(* of the match he opens and polls for more; his messages, which the        *)
(* client sends up to three times under one key; and the transactions of    *)
(* the server, which other players, and the end of the match, come between. *)
(* A match here has no more messages than a page, so that the cursor for    *)
(* older ones stays empty.                                                  *)
(***************************************************************************)
EXTENDS Naturals, FiniteSets

CONSTANTS ChatMatches,
          Sends,      \* messages of this player
          ChatTries   \* MAX_REQUESTS

ASSUME ChatAssumption == ChatTries \in Nat \ {0} /\ "none" \notin ChatMatches

VARIABLES
  chat,       \* matches and this player's part in them
  messages,   \* match_messages, by match
  intents,    \* how often the audience of a message was told of it
  send,       \* the player's messages as the client knows them
  sending,    \* attempts on their way to the server and back
  view,       \* the chat on the screen
  list        \* the latest request for messages

chatVars == <<chat, messages, intents, send, sending, view, list>>
serverVars == <<chat, messages, intents>>

NoChat == "none"
NoList == [match |-> NoChat]
Empty == [match |-> NoChat, shown |-> {}, loading |-> FALSE, busy |-> NoChat]

ChatInit ==
  /\ chat = [m \in ChatMatches |-> [closed |-> FALSE, member |-> TRUE]]
  /\ messages = [m \in ChatMatches |-> {}]
  /\ intents = [i \in Sends |-> 0]
  /\ send = [s \in Sends |-> [pc |-> "unsent", match |-> NoChat, try |-> 0, told |-> "none"]]
  /\ sending = {} /\ list = NoList /\ view = Empty

(***************************************************************************)
(* The server.                                                              *)
(***************************************************************************)
\* One transaction under the lock of the match's row.
StoreMessage(m, id) ==
  /\ messages' = [messages EXCEPT ![m] = @ \cup {id}]
  /\ intents' = [intents EXCEPT ![id] = @ + 1]

Refusal(m) == IF ~chat[m].member THEN "not found" ELSE "closed"
ChatRefuses(m) == ~chat[m].member \/ chat[m].closed

\* mutant of Replayed: the state of the match is looked at first
ReplayedIfOpen(m, id) == id \in messages[m] /\ ~ChatRefuses(m)
\* The command of the key is looked for before the state of the match.
Replayed(m, id) == id \in messages[m]

\* The answer is kept, or lost with the connection.
AnswersSend(a, answer) == sending' \in {(sending \ {a}) \cup {[a EXCEPT !.answer = answer]}, sending \ {a}}

ServeSend(a) ==
  LET m == send[a.send].match IN
  /\ a \in sending /\ a.answer = "none"
  /\ \/ Replayed(m, a.send) /\ AnswersSend(a, "sent") /\ UNCHANGED <<messages, intents>>
     \/ /\ ~Replayed(m, a.send)
        /\ IF ChatRefuses(m) THEN AnswersSend(a, Refusal(m)) /\ UNCHANGED <<messages, intents>>
           ELSE AnswersSend(a, "sent") /\ StoreMessage(m, a.send)
     \/ AnswersSend(a, "unavailable") /\ UNCHANGED <<messages, intents>>   \* rolled back
  /\ UNCHANGED <<chat, send, view, list>>

\* A match that is completed or cancelled stays so.
EndMatch(m) ==
  /\ ~chat[m].closed
  /\ chat' = [chat EXCEPT ![m].closed = TRUE]
  /\ UNCHANGED <<messages, intents, send, sending, view, list>>

JoinOrLeave(m) ==
  /\ ~chat[m].closed
  /\ chat' = [chat EXCEPT ![m].member = ~@]
  /\ UNCHANGED <<messages, intents, send, sending, view, list>>

ServeList ==
  /\ list # NoList /\ list.answer = "none"
  /\ list' = IF chat[list.match].member
             THEN [list EXCEPT !.answer = "found", !.found = messages[list.match]]
             ELSE [list EXCEPT !.answer = "rejected"]
  /\ UNCHANGED <<serverVars, send, sending, view>>

(***************************************************************************)
(* The screen.                                                              *)
(***************************************************************************)
\* Only the answer to the latest request counts: a new one, or leaving the
\* match, makes the client drop the answer to the one before.
Ask(m, background) ==
  list' = [match |-> m, background |-> background, answer |-> "none", found |-> {}]

\* The chat is opened, or its load repeated after an error.
LoadMessages(m) ==
  /\ view.match \in {NoChat, m}
  /\ Ask(m, FALSE)
  /\ view' = [view EXCEPT !.match = m, !.shown = {}, !.loading = TRUE]
  /\ UNCHANGED <<serverVars, send, sending>>

PollMessages ==
  /\ view.match # NoChat /\ ~view.loading
  /\ Ask(view.match, TRUE)
  /\ UNCHANGED <<serverVars, send, sending, view>>

ReceiveList ==
  /\ list # NoList
  /\ list' = NoList
  /\ \/ /\ list.answer = "found"
        /\ view' = [view EXCEPT !.shown = IF list.background THEN @ \cup list.found ELSE list.found,
                                !.loading = @ /\ list.background]
     \/ view' = [view EXCEPT !.loading = @ /\ list.background]   \* refused, failed or lost
  /\ UNCHANGED <<serverVars, send, sending>>

CloseDetails ==
  /\ view.match # NoChat
  /\ view' = Empty /\ list' = NoList
  /\ UNCHANGED <<serverVars, send, sending>>

Attempt(s, try) == [send |-> s, try |-> try, answer |-> "none"]

SendText(s) ==
  /\ send[s].pc = "unsent" /\ view.match # NoChat /\ view.busy = NoChat
  /\ send' = [send EXCEPT ![s] = [pc |-> "waits", match |-> view.match, try |-> 1, told |-> "none"]]
  /\ sending' = sending \cup {Attempt(s, 1)}
  /\ view' = [view EXCEPT !.busy = s]
  /\ UNCHANGED <<serverVars, list>>

IsOpen(m) == view.match = m

Tell(s, answer) ==
  /\ send' = [send EXCEPT ![s].pc = "done", ![s].told = answer]
  /\ view' = [view EXCEPT
       !.shown = IF answer = "sent" /\ IsOpen(send[s].match) THEN @ \cup {s} ELSE @,
       !.busy = IF @ = s THEN NoChat ELSE @]

ReceiveSend(a) ==
  /\ a \in sending /\ a.answer \notin {"none", "unavailable"}
  /\ send[a.send].pc = "waits" /\ send[a.send].try = a.try
  /\ sending' = sending \ {a}
  /\ Tell(a.send, a.answer)
  /\ UNCHANGED <<serverVars, list>>

\* No answer in time, or one that asks to try again: the same key is sent
\* again, while the first request may still be on its way.
RetrySend(s) ==
  /\ send[s].pc = "waits"
  /\ IF send[s].try < ChatTries
     THEN /\ send' = [send EXCEPT ![s].try = @ + 1]
          /\ sending' = sending \cup {Attempt(s, send[s].try + 1)}
          /\ UNCHANGED view
     ELSE Tell(s, "unavailable") /\ UNCHANGED sending
  /\ UNCHANGED <<serverVars, list>>

ChatNext ==
  \/ \E m \in ChatMatches : EndMatch(m) \/ JoinOrLeave(m) \/ LoadMessages(m)
  \/ \E a \in sending : ServeSend(a) \/ ReceiveSend(a)
  \/ \E s \in Sends : SendText(s) \/ RetrySend(s)
  \/ PollMessages \/ ServeList \/ ReceiveList \/ CloseDetails

ChatSpec == ChatInit /\ [][ChatNext]_chatVars

-----------------------------------------------------------------------------
\* Every variable keeps its type.
ChatTypeOK ==
  /\ \A m \in ChatMatches :
       chat[m].closed \in BOOLEAN /\ chat[m].member \in BOOLEAN /\ messages[m] \subseteq DOMAIN intents
  /\ \A s \in Sends : send[s].try <= ChatTries
  /\ \A a \in sending : a.send \in Sends /\ a.try \in 1..ChatTries
  /\ list # NoList => list.found \subseteq messages[list.match]
  /\ view.match \in ChatMatches \cup {NoChat} /\ view.loading \in BOOLEAN

\* Through lost answers and repeated requests a message is stored, and told to
\* the others, once; the player who reads that it was sent finds it in the
\* match he wrote it in, and one who reads that the match had ended never sees
\* it appear there; the screen shows messages of the open match only.
ChatIsTrue ==
  /\ \A id \in DOMAIN intents :
       intents[id] = Cardinality({m \in ChatMatches : id \in messages[m]}) /\ intents[id] <= 1
  /\ \A s \in Sends : send[s].told = "sent" => s \in messages[send[s].match]
  /\ \A s \in Sends : send[s].told = "closed" => s \notin messages[send[s].match]
  /\ view.shown \subseteq (IF view.match = NoChat THEN {} ELSE messages[view.match])
=============================================================================
