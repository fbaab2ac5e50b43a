-------------------------- MODULE TelegramDelivery --------------------------
(***************************************************************************)
(* Messages to players.  Two tables hold them, the intents and the older   *)
(* outbox, each served by a dispatcher in every server process: claim a    *)
(* row for a lease, send the message, write the outcome.  The dispatcher   *)
(* may stop or stall between any two of these, and Telegram may accept a   *)
(* message without the answer coming back.  Time is the set of rows whose  *)
(* available_at has passed.                                                *)
(***************************************************************************)
EXTENDS Integers, FiniteSets

CONSTANTS Messages,         \* rows
          Table,            \* the table of each row: "intents" or "outbox"
          Dispatchers,
          MaxAttempts,      \* 20 in both tables
          MaxDestination    \* bound on the versions of the destination

ASSUME DeliveryAssumption ==
  /\ Table \in [Messages -> {"intents", "outbox"}]
  /\ MaxAttempts \in Nat \ {0} /\ MaxDestination \in Nat \ {0}

VARIABLES
  message,      \* rows of the two tables
  due,          \* rows with available_at <= now
  budget,       \* next_send_at <= now, in telegram_delivery_rate_budget
  unwanted,     \* why a row must not be sent any more, by row
  destination,  \* the recipient's row in telegram_notification_destinations
  dispatcher,   \* where each dispatcher is
  accepted      \* messages Telegram took, by row

deliveryVars == <<message, due, budget, unwanted, destination, dispatcher, accepted>>

Idle == [pc |-> "idle"]

DeliveryInit ==
  /\ message = [m \in Messages |-> [status |-> "none", attempts |-> 0, failure |-> "none", version |-> 0]]
  /\ due = {} /\ budget = TRUE
  /\ unwanted = [m \in Messages |-> "none"]
  /\ destination = [enabled |-> TRUE, version |-> 1]
  /\ dispatcher = [d \in Dispatchers |-> Idle]
  /\ accepted = [m \in Messages |-> 0]

Pending(t) == {m \in due : Table[m] = t /\ message[m].status = "pending"}

Enqueue(m) ==
  /\ message[m].status = "none"
  /\ message' = [message EXCEPT ![m].status = "pending", ![m].version = 1]
  /\ due' = due \cup {m}
  /\ UNCHANGED <<budget, unwanted, destination, dispatcher, accepted>>

-----------------------------------------------------------------------------
(* A claim first settles one row whose last attempt left no outcome, or    *)
(* one that has used its attempts, and then claims nothing.                *)

\* mutant of Doubtful: a row whose lease ran out is claimed again
DoubtfulNone(t) == {m \in Pending(t) : message[m].version = 0}
Doubtful(t) == {m \in Pending(t) : message[m].attempts > 0 /\ message[m].failure = "none"}

\* mutant of Exhausted: rows are never given up
ExhaustedNone(t) == {m \in Pending(t) : message[m].version = 0}
Exhausted(t) == {m \in Pending(t) : message[m].attempts >= MaxAttempts}

SettledRow(m, status, failure) ==
  [message[m] EXCEPT !.status = status, !.failure = failure, !.version = @ + 1]
Abandon(m, failure) ==
  message' = [message EXCEPT ![m] = SettledRow(m, "abandoned", failure)] /\ due' = due \ {m}

GiveUpOne(t) ==
  /\ \E d \in Dispatchers : dispatcher[d].pc = "idle"
  /\ IF Doubtful(t) # {}
     THEN \E m \in Doubtful(t) : Abandon(m, "delivery_unknown")
     ELSE \E m \in Exhausted(t) : Abandon(m, "retry_exhausted")
  /\ UNCHANGED <<budget, unwanted, destination, dispatcher, accepted>>

\* What the claim finds against sending.
TerminalReason(m) ==
  IF unwanted[m] # "none" THEN unwanted[m]
  ELSE IF ~destination.enabled THEN "destination_unavailable" ELSE "none"

Claimed(d, m) ==
  /\ message[m].attempts < MaxAttempts
  /\ message' = [message EXCEPT ![m].attempts = @ + 1, ![m].failure = "none", ![m].version = @ + 1]
  /\ due' = due \ {m}
  /\ dispatcher' = [dispatcher EXCEPT ![d] =
       [pc |-> IF TerminalReason(m) = "none" THEN "send" ELSE "finish", row |-> m,
        version |-> message[m].version + 1, destination |-> destination.version,
        outcome |-> TerminalReason(m)]]
  /\ UNCHANGED <<unwanted, destination, accepted>>

Free(d, t) == dispatcher[d].pc = "idle" /\ Doubtful(t) = {} /\ Exhausted(t) = {}

\* The intents share a budget of one message a second.
ClaimIntent(d) ==
  /\ Free(d, "intents")
  /\ \E m \in Pending("intents") :
       /\ TerminalReason(m) # "none" \/ budget
       /\ Claimed(d, m)
       /\ budget' = (budget /\ TerminalReason(m) # "none")

ClaimDelivery(d) ==
  /\ Free(d, "outbox")
  /\ \E m \in Pending("outbox") : Claimed(d, m) /\ UNCHANGED budget

-----------------------------------------------------------------------------
(* The bot API takes the message and answers, or not, or refuses it.       *)

Outcome(d, outcome) ==
  dispatcher' = [dispatcher EXCEPT ![d].pc = "finish", ![d].outcome = outcome]

Take(m) == accepted' = [accepted EXCEPT ![m] = @ + 1]

SendMessage(d) ==
  /\ dispatcher[d].pc = "send"
  /\ \/ Outcome(d, "sent") /\ Take(dispatcher[d].row)
     \/ Outcome(d, "delivery_unknown") /\ Take(dispatcher[d].row)
     \/ \E refused \in {"delivery_unknown", "telegram_rate_limited", "telegram_forbidden",
                        "telegram_unauthorized"} :
          Outcome(d, refused) /\ UNCHANGED accepted
  /\ UNCHANGED <<message, due, budget, unwanted, destination>>

-----------------------------------------------------------------------------
(* The outcome is written if the claim still stands.                       *)

Stands(d) == LET m == dispatcher[d].row
             IN message[m].status = "pending" /\ message[m].version = dispatcher[d].version

\* A refusal disables the destination it was sent to.
MayDisable(d) == /\ destination.enabled /\ dispatcher[d].outcome = "telegram_forbidden"
                 /\ destination.version = dispatcher[d].destination

StatusAfter(d) ==
  CASE dispatcher[d].outcome = "sent" -> "sent"
    [] dispatcher[d].outcome = "telegram_rate_limited" -> "pending"
    [] dispatcher[d].outcome = "stale_event" -> "superseded"
    [] OTHER -> "abandoned"

FailureAfter(d) == IF dispatcher[d].outcome = "sent" THEN "none" ELSE dispatcher[d].outcome

Finish(d) ==
  LET m == dispatcher[d].row
  IN /\ dispatcher[d].pc = "finish"
     /\ dispatcher' = [dispatcher EXCEPT ![d] =
          IF dispatcher[d].outcome = "telegram_unauthorized" THEN [pc |-> "off"] ELSE Idle]
     /\ UNCHANGED <<budget, unwanted, accepted>>
     /\ IF Stands(d)
        THEN /\ message' = [message EXCEPT ![m] = SettledRow(m, StatusAfter(d), FailureAfter(d))]
             /\ due' = due \ {m}
             /\ destination' = IF MayDisable(d)
                               THEN [enabled |-> FALSE, version |-> destination.version + 1]
                               ELSE destination
        ELSE UNCHANGED <<message, due, destination>>

\* The process restarts, or its database fails: the claim is forgotten.
Restart(d) ==
  /\ dispatcher[d].pc # "idle"
  /\ dispatcher' = [dispatcher EXCEPT ![d] = Idle]
  /\ UNCHANGED <<message, due, budget, unwanted, destination, accepted>>

-----------------------------------------------------------------------------
(* The environment: time, the player, and the bookings a message is about. *)

TimePasses ==
  /\ due' = {m \in Messages : message[m].status = "pending"} /\ budget' = TRUE
  /\ UNCHANGED <<message, unwanted, destination, dispatcher, accepted>>

\* Only an intent can be out of date.
Unwant(m) ==
  /\ unwanted[m] = "none" /\ message[m].status = "pending"
  /\ \E reason \in {"preference_disabled"} \cup (IF Table[m] = "intents" THEN {"stale_event"} ELSE {}) :
       unwanted' = [unwanted EXCEPT ![m] = reason]
  /\ UNCHANGED <<message, due, budget, destination, dispatcher, accepted>>

\* A login with the permission of the player.
EnableDestination ==
  /\ ~destination.enabled /\ destination.version < MaxDestination
  /\ destination' = [enabled |-> TRUE, version |-> destination.version + 1]
  /\ UNCHANGED <<message, due, budget, unwanted, dispatcher, accepted>>

DispatcherStep(d) == SendMessage(d) \/ Finish(d)
ClaimStep(t) == \/ GiveUpOne(t)
                \/ \E d \in Dispatchers : IF t = "intents" THEN ClaimIntent(d) ELSE ClaimDelivery(d)

DeliveryNext ==
  \/ \E m \in Messages : Enqueue(m) \/ Unwant(m)
  \/ \E t \in {"intents", "outbox"} : ClaimStep(t)
  \/ \E d \in Dispatchers : DispatcherStep(d) \/ Restart(d)
  \/ TimePasses \/ EnableDestination

DeliverySpec == DeliveryInit /\ [][DeliveryNext]_deliveryVars

-----------------------------------------------------------------------------
(* Properties                                                              *)

\* Every variable keeps its type; a row is claimed at most MaxAttempts times.
DeliveryTypeOK ==
  /\ message \in [Messages -> [status : {"none", "pending", "sent", "abandoned", "superseded"},
                               attempts : 0..MaxAttempts, version : Nat,
                               failure : {"none", "delivery_unknown", "retry_exhausted", "stale_event",
                                          "preference_disabled", "destination_unavailable",
                                          "telegram_rate_limited", "telegram_forbidden",
                                          "telegram_unauthorized"}]]
  /\ due \subseteq Messages /\ budget \in BOOLEAN
  /\ destination \in [enabled : BOOLEAN, version : Nat]
  /\ accepted \in [Messages -> Nat]

\* A message reaches the player at most once, whatever stops, stalls or times
\* out: a send whose outcome is not known is not repeated.
AtMostOneMessage == \A m \in Messages : accepted[m] <= 1

\* What a settled row says of the message is true; only delivery_unknown
\* leaves open whether the player has it.
SettledRowIsTrue ==
  \A m \in Messages :
    /\ message[m].status = "sent" => accepted[m] = 1
    /\ message[m].status \in {"abandoned", "superseded"} /\ message[m].failure # "delivery_unknown"
         => accepted[m] = 0


\* A row is pending and a dispatcher keeps running: a refused bot token switches
\* a dispatcher off until a restart.
MessageWaits ==
  /\ \E m \in Messages : message[m].status = "pending"
  /\ \E d \in Dispatchers : dispatcher[d].pc # "off"

\* A row and the messenger agree, whatever crashes or stalls: one message at
\* most, and none where the row says that none went out.
DeliveryIsTrue == AtMostOneMessage /\ SettledRowIsTrue
=============================================================================
