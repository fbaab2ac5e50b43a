------------------------------ MODULE WorkersProof ------------------------------
(***************************************************************************)
(* The workers beside the requests, for any rows, processes, bookings and  *)
(* bounds: what a dispatcher sends, what a scheduler writes and says, how  *)
(* fast the provider is asked, and what a tick of the sweep has to visit.  *)
(***************************************************************************)
EXTENDS MCWorkers, FiniteSetTheorems, SequenceTheorems,
        WellFoundedInduction, TLAPS

-----------------------------------------------------------------------------
(* TelegramDelivery.                                                       *)

Failures ==
  {"none", "delivery_unknown", "retry_exhausted", "stale_event", "preference_disabled",
   "destination_unavailable", "telegram_rate_limited", "telegram_forbidden",
   "telegram_unauthorized"}

Row ==
  [status : {"none", "pending", "sent", "abandoned", "superseded"},
   attempts : 0..MaxAttempts, version : Nat, failure : Failures]

Dispatcher ==
  [pc : {"idle", "off"}]
    \cup [pc : {"send", "finish"}, row : Messages, version : Nat, destination : Nat,
          outcome : Failures \cup {"sent"}]

DeliveryTyped ==
  /\ message \in [Messages -> Row]
  /\ due \in SUBSET Messages /\ budget \in BOOLEAN
  /\ unwanted \in [Messages -> {"none", "preference_disabled", "stale_event"}]
  /\ destination \in [enabled : BOOLEAN, version : Nat]
  /\ dispatcher \in [Dispatchers -> Dispatcher]
  /\ accepted \in [Messages -> Nat]

\* No attempt on the row m is open: the last one, if any, left its outcome.
Untried(m) ==
  \/ message[m].status = "none"
  \/ message[m].status = "pending" /\ (message[m].attempts = 0 \/ message[m].failure # "none")

Busy(x) == x.pc \in {"send", "finish"}

\* A dispatcher that works on a row has its last attempt, which is open or was
\* given up as unknown; it knows whether the messenger took the message.
Knows(x) ==
  Busy(x) =>
    LET m == x.row IN
    /\ \/ message[m].status = "pending" /\ message[m].attempts > 0 /\ message[m].failure = "none"
       \/ message[m].status = "abandoned" /\ message[m].failure = "delivery_unknown"
    /\ x.pc = "send" => accepted[m] = 0
    /\ x.pc = "finish" =>
         /\ x.outcome = "sent" => accepted[m] = 1
         /\ x.outcome \notin {"sent", "delivery_unknown"} => accepted[m] = 0

OneEach ==
  \A c, d \in Dispatchers :
    c # d /\ Busy(dispatcher[c]) /\ Busy(dispatcher[d]) => dispatcher[c].row # dispatcher[d].row

DeliveryInv ==
  /\ DeliveryTyped
  /\ OneEach
  /\ \A d \in Dispatchers : Knows(dispatcher[d])
  /\ \A m \in Messages : Untried(m) => accepted[m] = 0
  /\ AtMostOneMessage /\ SettledRowIsTrue

LEMMA DeliveryInitially == DeliveryInit => DeliveryInv
<1> SUFFICES ASSUME DeliveryInit PROVE DeliveryInv
  OBVIOUS
<1>1. DeliveryTyped
  <2>1. [status |-> "none", attempts |-> 0, failure |-> "none", version |-> 0] \in Row
    BY DeliveryAssumption DEF Row, Failures
  <2>2. Idle \in Dispatcher
    BY DEF Idle, Dispatcher
  <2> QED BY <2>1, <2>2 DEF DeliveryInit, DeliveryTyped
<1>2. \A d \in Dispatchers : ~Busy(dispatcher[d])
  BY DEF DeliveryInit, Busy, Idle
<1>3. \A m \in Messages : accepted[m] = 0 /\ message[m].status = "none"
  BY DEF DeliveryInit
<1> QED BY <1>1, <1>2, <1>3
    DEF DeliveryInv, OneEach, Knows, AtMostOneMessage, SettledRowIsTrue

\* A row that is written while no dispatcher works on it, or that is given up.
LEMMA RowWritten ==
  ASSUME DeliveryInv, NEW m \in Messages, NEW row \in Row,
         message' = [message EXCEPT ![m] = row], due' \in SUBSET Messages,
         UNCHANGED <<budget, unwanted, destination, dispatcher, accepted>>,
         \/ row.status = "abandoned" /\ row.failure = "delivery_unknown"
         \/ Untried(m) /\ row.status = "pending"
         \/ Untried(m) /\ row.status = "abandoned"
  PROVE  DeliveryInv'
<1>1. \A n \in Messages : message'[n] = IF n = m THEN row ELSE message[n]
  BY DEF DeliveryInv, DeliveryTyped
<1>2. DeliveryTyped'
  BY DEF DeliveryInv, DeliveryTyped
<1>3. OneEach'
  BY DEF DeliveryInv, OneEach, Busy
<1>4. ASSUME NEW d \in Dispatchers PROVE Knows(dispatcher[d])'
  <2>1. Busy(dispatcher[d]) => dispatcher[d].row \in Messages
    BY DEF DeliveryInv, DeliveryTyped, Dispatcher, Busy
  <2>2. Knows(dispatcher[d])
    BY DEF DeliveryInv
  <2> QED BY <1>1, <2>1, <2>2 DEF Knows, Busy, Untried
<1>5. \A n \in Messages : Untried(n)' => accepted'[n] = 0
  BY <1>1 DEF DeliveryInv, Untried
<1>6. AtMostOneMessage' /\ SettledRowIsTrue'
  BY <1>1 DEF DeliveryInv, AtMostOneMessage, SettledRowIsTrue
<1> QED BY <1>2, <1>3, <1>4, <1>5, <1>6 DEF DeliveryInv

\* No doubtful row of the table is left: its pending rows are untried.
LEMMA PendingIsUntried ==
  ASSUME DeliveryInv, NEW t, Doubtful(t) = {}, NEW m \in Pending(t)
  PROVE  m \in Messages /\ message[m].status = "pending" /\ Untried(m) /\ accepted[m] = 0
<1>1. m \in Messages /\ message[m].status = "pending" /\ m \notin Doubtful(t)
  BY DEF DeliveryInv, DeliveryTyped, Pending
<1>2. message[m].attempts \in Nat
  BY <1>1, DeliveryAssumption DEF DeliveryInv, DeliveryTyped, Row
<1>3. Untried(m)
  BY <1>1, <1>2 DEF Doubtful, Untried
<1> QED BY <1>1, <1>3 DEF DeliveryInv

LEMMA SettledFacts ==
  ASSUME DeliveryTyped, NEW m \in Messages, NEW failure \in Failures,
         NEW status \in {"pending", "sent", "abandoned", "superseded"}
  PROVE  /\ SettledRow(m, status, failure) \in Row
         /\ SettledRow(m, status, failure).status = status
         /\ SettledRow(m, status, failure).failure = failure
<1>1. message[m] \in Row
  BY DEF DeliveryTyped
<1>2. message[m].version + 1 \in Nat
  BY <1>1 DEF Row
<1> QED BY ONLY <1>1, <1>2 DEF SettledRow, Row

LEMMA GiveUpInv ==
  ASSUME DeliveryInv, NEW t, GiveUpOne(t)
  PROVE  DeliveryInv'
<1>1. ASSUME NEW m \in Messages, NEW failure \in Failures
      PROVE  /\ SettledRow(m, "abandoned", failure) \in Row
             /\ SettledRow(m, "abandoned", failure).status = "abandoned"
             /\ SettledRow(m, "abandoned", failure).failure = failure
  BY SettledFacts DEF DeliveryInv
<1>2. UNCHANGED <<budget, unwanted, destination, dispatcher, accepted>>
  BY DEF GiveUpOne
<1>3. ASSUME NEW m \in Doubtful(t), Abandon(m, "delivery_unknown") PROVE DeliveryInv'
  <2>1. m \in Messages
    BY DEF Doubtful, Pending, DeliveryInv, DeliveryTyped
  <2>2. due' \in SUBSET Messages
    BY <1>3 DEF Abandon, DeliveryInv, DeliveryTyped
  <2> QED BY <1>1, <1>2, <1>3, <2>1, <2>2, RowWritten DEF Abandon, Failures
<1>4. ASSUME Doubtful(t) = {}, NEW m \in Exhausted(t), Abandon(m, "retry_exhausted")
      PROVE  DeliveryInv'
  <2>1. m \in Messages /\ Untried(m)
    BY <1>4, PendingIsUntried DEF Exhausted
  <2>2. due' \in SUBSET Messages
    BY <1>4 DEF Abandon, DeliveryInv, DeliveryTyped
  <2> QED BY <1>1, <1>2, <1>4, <2>1, <2>2, RowWritten DEF Abandon, Failures
<1> QED BY <1>3, <1>4 DEF GiveUpOne

LEMMA ClaimedInv ==
  ASSUME DeliveryInv, NEW d \in Dispatchers, NEW t, Doubtful(t) = {}, NEW m \in Pending(t),
         Claimed(d, m), budget' \in BOOLEAN
  PROVE  DeliveryInv'
<1> DEFINE row == [message[m] EXCEPT !.attempts = @ + 1, !.failure = "none", !.version = @ + 1]
           x == [pc |-> IF TerminalReason(m) = "none" THEN "send" ELSE "finish", row |-> m,
                 version |-> message[m].version + 1, destination |-> destination.version,
                 outcome |-> TerminalReason(m)]
<1>1. m \in Messages /\ message[m].status = "pending" /\ Untried(m) /\ accepted[m] = 0
  BY PendingIsUntried
<1>2. /\ message' = [message EXCEPT ![m] = row] /\ dispatcher' = [dispatcher EXCEPT ![d] = x]
      /\ due' \in SUBSET Messages
      /\ UNCHANGED <<unwanted, destination, accepted>>
  BY DEF Claimed, DeliveryInv, DeliveryTyped
<1>3. row \in Row /\ row.status = "pending" /\ row.attempts > 0 /\ row.failure = "none"
  BY <1>1, DeliveryAssumption DEF Claimed, DeliveryInv, DeliveryTyped, Row, Failures
<1>4. /\ TerminalReason(m) \in Failures
      /\ TerminalReason(m) \notin {"sent", "delivery_unknown"}
  BY <1>1 DEF TerminalReason, DeliveryInv, DeliveryTyped, Failures
<1>5. x \in Dispatcher /\ x.row = m /\ Busy(x) /\ x.outcome \notin {"sent", "delivery_unknown"}
  BY <1>1, <1>4 DEF Dispatcher, DeliveryInv, DeliveryTyped, Row, Busy
<1> HIDE DEF row, x
<1>6. /\ \A n \in Messages : message'[n] = IF n = m THEN row ELSE message[n]
      /\ \A c \in Dispatchers : dispatcher'[c] = IF c = d THEN x ELSE dispatcher[c]
  BY <1>2 DEF DeliveryInv, DeliveryTyped
<1>7. DeliveryTyped'
  BY <1>2, <1>3, <1>5 DEF DeliveryInv, DeliveryTyped
<1>8. \A c \in Dispatchers : Busy(dispatcher[c]) => dispatcher[c].row \in Messages \ {m}
  <2> SUFFICES ASSUME NEW c \in Dispatchers, Busy(dispatcher[c])
               PROVE  dispatcher[c].row \in Messages \ {m}
    OBVIOUS
  <2>1. dispatcher[c].row \in Messages
    BY DEF DeliveryInv, DeliveryTyped, Dispatcher, Busy
  <2>2. Knows(dispatcher[c])
    BY DEF DeliveryInv
  <2>3. message[m].attempts \in Nat
    BY <1>1, DeliveryAssumption DEF DeliveryInv, DeliveryTyped, Row
  <2> QED BY <1>1, <2>1, <2>2, <2>3 DEF Knows, Untried
<1>9. OneEach'
  BY <1>5, <1>6, <1>8 DEF DeliveryInv, OneEach
<1>10. ASSUME NEW c \in Dispatchers PROVE Knows(dispatcher[c])'
  <2>1. CASE c = d
    BY <1>1, <1>2, <1>3, <1>5, <1>6, <2>1 DEF Knows
  <2>2. CASE c # d
    BY <1>2, <1>6, <1>8, <2>2 DEF DeliveryInv, Knows, Busy
  <2> QED BY <2>1, <2>2
<1>11. \A n \in Messages : Untried(n)' => accepted'[n] = 0
  BY <1>1, <1>2, <1>6 DEF DeliveryInv, Untried
<1>12. AtMostOneMessage' /\ SettledRowIsTrue'
  BY <1>2, <1>3, <1>6 DEF DeliveryInv, AtMostOneMessage, SettledRowIsTrue
<1> QED BY <1>7, <1>9, <1>10, <1>11, <1>12 DEF DeliveryInv

LEMMA SendInv ==
  ASSUME DeliveryInv, NEW d \in Dispatchers, SendMessage(d)
  PROVE  DeliveryInv'
<1> DEFINE m == dispatcher[d].row
<1>1. PICK outcome \in {"sent", "delivery_unknown", "telegram_rate_limited", "telegram_forbidden",
                        "telegram_unauthorized"} :
        /\ Outcome(d, outcome)
        /\ \/ Take(m) /\ outcome \in {"sent", "delivery_unknown"}
           \/ accepted' = accepted /\ outcome # "sent"
  BY DEF SendMessage
<1>2. dispatcher[d] \in Dispatcher /\ dispatcher[d].pc = "send" /\ m \in Messages
  BY DEF SendMessage, DeliveryInv, DeliveryTyped, Dispatcher
<1> DEFINE x == [dispatcher[d] EXCEPT !.pc = "finish", !.outcome = outcome]
<1>3. x \in Dispatcher /\ x.pc = "finish" /\ x.outcome = outcome /\ x.row = m
  BY <1>2 DEF Dispatcher, Failures
<1>4. dispatcher' = [dispatcher EXCEPT ![d] = x]
  BY <1>1 DEF Outcome
<1>5. UNCHANGED <<message, due, budget, unwanted, destination>>
  BY DEF SendMessage
<1>6. Knows(dispatcher[d]) /\ Busy(dispatcher[d])
  BY <1>2 DEF DeliveryInv, Busy
<1>7. accepted[m] = 0 /\ ~Untried(m)
      /\ (message[m].status = "pending"
          \/ (message[m].status = "abandoned" /\ message[m].failure = "delivery_unknown"))
  <2>1. message[m].attempts \in Nat
    BY <1>2, DeliveryAssumption DEF DeliveryInv, DeliveryTyped, Row
  <2> QED BY <1>2, <1>6, <2>1 DEF Knows, Untried
<1> HIDE DEF x, m
<1>8. /\ accepted' \in [Messages -> Nat]
      /\ \A n \in Messages \ {m} : accepted'[n] = accepted[n]
      /\ accepted'[m] \in {0, 1}
      /\ outcome = "sent" => accepted'[m] = 1
      /\ outcome \notin {"sent", "delivery_unknown"} => accepted'[m] = 0
  BY <1>1, <1>2, <1>7 DEF Take, DeliveryInv, DeliveryTyped
<1>9. \A c \in Dispatchers : dispatcher'[c] = IF c = d THEN x ELSE dispatcher[c]
  BY <1>4 DEF DeliveryInv, DeliveryTyped
<1>10. DeliveryTyped'
  BY <1>3, <1>4, <1>5, <1>8 DEF DeliveryInv, DeliveryTyped
<1>11. OneEach'
  BY <1>3, <1>6, <1>9 DEF DeliveryInv, OneEach, Busy, m
<1>12. ASSUME NEW c \in Dispatchers PROVE Knows(dispatcher[c])'
  <2>1. CASE c = d
    BY <1>3, <1>5, <1>6, <1>8, <1>9, <2>1 DEF Knows, Busy, m
  <2>2. CASE c # d
    <3>1. Busy(dispatcher[c]) => dispatcher[c].row \in Messages \ {m}
      BY <1>6, <2>2 DEF DeliveryInv, DeliveryTyped, Dispatcher, Busy, OneEach, m
    <3>2. Knows(dispatcher[c])
      BY DEF DeliveryInv
    <3> QED BY <1>5, <1>8, <1>9, <2>2, <3>1, <3>2 DEF Knows, Busy
  <2> QED BY <2>1, <2>2
<1>13. \A n \in Messages : Untried(n)' => accepted'[n] = 0
  BY <1>5, <1>7, <1>8 DEF DeliveryInv, Untried
<1>14. AtMostOneMessage' /\ SettledRowIsTrue'
  BY <1>5, <1>7, <1>8 DEF DeliveryInv, AtMostOneMessage, SettledRowIsTrue
<1> QED BY <1>10, <1>11, <1>12, <1>13, <1>14 DEF DeliveryInv

\* A dispatcher that stops working on a row.
LEMMA RestsInv ==
  ASSUME DeliveryInv, NEW d \in Dispatchers, NEW x \in [pc : {"idle", "off"}],
         dispatcher' = [dispatcher EXCEPT ![d] = x],
         UNCHANGED <<message, due, budget, unwanted, destination, accepted>>
  PROVE  DeliveryInv'
<1>1. \A c \in Dispatchers : dispatcher'[c] = IF c = d THEN x ELSE dispatcher[c]
  BY DEF DeliveryInv, DeliveryTyped
<1>2. x \in Dispatcher /\ ~Busy(x)
  BY DEF Dispatcher, Busy
<1>3. DeliveryTyped'
  BY <1>2 DEF DeliveryInv, DeliveryTyped
<1>4. OneEach'
  BY <1>1, <1>2 DEF DeliveryInv, OneEach
<1>5. \A c \in Dispatchers : Knows(dispatcher[c])'
  BY <1>1, <1>2 DEF DeliveryInv, Knows, Busy
<1> QED BY <1>3, <1>4, <1>5 DEF DeliveryInv, Untried, AtMostOneMessage, SettledRowIsTrue

LEMMA FinishInv ==
  ASSUME DeliveryInv, NEW d \in Dispatchers, Finish(d)
  PROVE  DeliveryInv'
<1> DEFINE m == dispatcher[d].row
           x == IF dispatcher[d].outcome = "telegram_unauthorized" THEN [pc |-> "off"] ELSE Idle
           row == SettledRow(m, StatusAfter(d), FailureAfter(d))
<1>1. /\ dispatcher[d] \in Dispatcher /\ dispatcher[d].pc = "finish" /\ m \in Messages
      /\ dispatcher[d].outcome \in Failures \cup {"sent"} /\ Busy(dispatcher[d])
  BY DEF Finish, DeliveryInv, DeliveryTyped, Dispatcher, Busy
<1>2. x \in [pc : {"idle", "off"}] /\ x \in Dispatcher /\ ~Busy(x)
  BY DEF Idle, Dispatcher, Busy
<1>3. dispatcher' = [dispatcher EXCEPT ![d] = x] /\ UNCHANGED <<budget, unwanted, accepted>>
  BY DEF Finish
<1>4. CASE ~Stands(d)
  <2>1. UNCHANGED <<message, due, destination>>
    BY <1>4 DEF Finish
  <2> HIDE DEF x
  <2> QED BY <1>2, <1>3, <2>1, RestsInv
<1>5. CASE Stands(d)
  <2>1. Knows(dispatcher[d]) /\ message[m].status = "pending"
    BY <1>5 DEF DeliveryInv, Stands
  <2>2. /\ message' = [message EXCEPT ![m] = row] /\ due' = due \ {m}
        /\ destination' \in [enabled : BOOLEAN, version : Nat]
    <3>1. destination \in [enabled : BOOLEAN, version : Nat]
      BY DEF DeliveryInv, DeliveryTyped
    <3>2. destination' = destination \/ destination' = [enabled |-> FALSE, version |-> destination.version + 1]
      BY <1>5 DEF Finish
    <3>3. destination.version + 1 \in Nat
      BY ONLY <3>1
    <3>4. [enabled |-> FALSE, version |-> destination.version + 1] \in [enabled : BOOLEAN, version : Nat]
      BY ONLY <3>3
    <3>5. message' = [message EXCEPT ![m] = row] /\ due' = due \ {m}
      BY <1>5 DEF Finish
    <3> QED BY ONLY <3>1, <3>2, <3>4, <3>5
  <2>3. row \in Row /\ row.status = StatusAfter(d) /\ row.failure = FailureAfter(d)
    <3>1. StatusAfter(d) \in {"pending", "sent", "abandoned", "superseded"}
      BY DEF StatusAfter
    <3>2. FailureAfter(d) \in Failures
      BY <1>1 DEF FailureAfter, Failures
    <3> QED BY <1>1, <3>1, <3>2, SettledFacts DEF DeliveryInv
  <2>4. /\ row.status = "pending" => row.failure # "none" /\ accepted[m] = 0
        /\ row.status = "sent" => accepted[m] = 1
        /\ row.status \in {"abandoned", "superseded"} /\ row.failure # "delivery_unknown"
             => accepted[m] = 0
        /\ row.status # "none"
    BY <1>1, <2>1, <2>3 DEF StatusAfter, FailureAfter, Knows
  <2> HIDE DEF row, x, m
  <2>5. /\ \A n \in Messages : message'[n] = IF n = m THEN row ELSE message[n]
        /\ \A c \in Dispatchers : dispatcher'[c] = IF c = d THEN x ELSE dispatcher[c]
    BY <1>3, <2>2 DEF DeliveryInv, DeliveryTyped
  <2>6. DeliveryTyped'
    BY <1>2, <1>3, <2>2, <2>3 DEF DeliveryInv, DeliveryTyped
  <2>7. OneEach'
    BY <1>2, <2>5 DEF DeliveryInv, OneEach
  <2>8. ASSUME NEW c \in Dispatchers PROVE Knows(dispatcher[c])'
    <3>1. CASE c = d
      BY <1>2, <2>5, <3>1 DEF Knows, Busy
    <3>2. CASE c # d
      <4>1. Busy(dispatcher[c]) => dispatcher[c].row \in Messages \ {m}
        BY <1>1, <3>2 DEF DeliveryInv, DeliveryTyped, Dispatcher, Busy, OneEach, m
      <4>2. Knows(dispatcher[c])
        BY DEF DeliveryInv
      <4> QED BY <1>3, <2>5, <3>2, <4>1, <4>2 DEF Knows, Busy
    <3> QED BY <3>1, <3>2
  <2>9. \A n \in Messages : Untried(n)' => accepted'[n] = 0
    BY <1>3, <2>4, <2>5 DEF DeliveryInv, Untried
  <2>10. AtMostOneMessage' /\ SettledRowIsTrue'
    BY <1>3, <2>4, <2>5 DEF DeliveryInv, AtMostOneMessage, SettledRowIsTrue
  <2> QED BY <2>6, <2>7, <2>8, <2>9, <2>10 DEF DeliveryInv
<1> QED BY <1>4, <1>5

LEMMA DeliveryStep == DeliveryInv /\ [DeliveryNext]_deliveryVars => DeliveryInv'
<1> SUFFICES ASSUME DeliveryInv, [DeliveryNext]_deliveryVars PROVE DeliveryInv'
  OBVIOUS
<1>1. ASSUME NEW m \in Messages, Enqueue(m) PROVE DeliveryInv'
  <2> DEFINE row == [message[m] EXCEPT !.status = "pending", !.version = 1]
  <2>1. row \in Row /\ row.status = "pending"
    BY DEF DeliveryInv, DeliveryTyped, Row
  <2>2. message' = [message EXCEPT ![m] = row] /\ due' \in SUBSET Messages /\ Untried(m)
    BY <1>1 DEF Enqueue, DeliveryInv, DeliveryTyped, Untried
  <2> HIDE DEF row
  <2> QED BY <1>1, <2>1, <2>2, RowWritten DEF Enqueue
<1>2. ASSUME NEW t \in {"intents", "outbox"}, ClaimStep(t) PROVE DeliveryInv'
  <2>1. ASSUME NEW d \in Dispatchers, ClaimIntent(d) PROVE DeliveryInv'
    <3>1. PICK m \in Pending("intents") :
            Claimed(d, m) /\ budget' = (budget /\ TerminalReason(m) # "none")
      BY <2>1 DEF ClaimIntent
    <3> QED BY <2>1, <3>1, ClaimedInv DEF ClaimIntent, Free
  <2>2. ASSUME NEW d \in Dispatchers, ClaimDelivery(d) PROVE DeliveryInv'
    <3>1. PICK m \in Pending("outbox") : Claimed(d, m) /\ UNCHANGED budget
      BY <2>2 DEF ClaimDelivery
    <3>2. budget' \in BOOLEAN
      BY <3>1 DEF DeliveryInv, DeliveryTyped
    <3> QED BY <2>2, <3>1, <3>2, ClaimedInv DEF ClaimDelivery, Free
  <2> QED BY <1>2, <2>1, <2>2, GiveUpInv DEF ClaimStep
<1>3. ASSUME NEW d \in Dispatchers, Restart(d) PROVE DeliveryInv'
  BY <1>3, RestsInv DEF Restart, Idle
<1>4. ASSUME /\ UNCHANGED <<message, dispatcher, accepted>>
             /\ due' \in SUBSET Messages /\ budget' \in BOOLEAN
             /\ unwanted' \in [Messages -> {"none", "preference_disabled", "stale_event"}]
             /\ destination' \in [enabled : BOOLEAN, version : Nat]
      PROVE  DeliveryInv'
  BY <1>4 DEF DeliveryInv, DeliveryTyped, OneEach, Knows, Busy, Untried, AtMostOneMessage,
              SettledRowIsTrue
<1>5. ASSUME NEW m \in Messages, Unwant(m) PROVE DeliveryInv'
  BY <1>4, <1>5 DEF Unwant, DeliveryInv, DeliveryTyped
<1>6. CASE TimePasses
  BY <1>4, <1>6 DEF TimePasses, DeliveryInv, DeliveryTyped
<1>7. CASE EnableDestination
  <2>1. destination.version + 1 \in Nat
    BY DEF DeliveryInv, DeliveryTyped
  <2> QED BY <1>4, <1>7, <2>1 DEF EnableDestination, DeliveryInv, DeliveryTyped
<1>8. CASE UNCHANGED deliveryVars
  BY <1>4, <1>8 DEF deliveryVars, DeliveryInv, DeliveryTyped
<1> QED BY <1>1, <1>2, <1>3, <1>5, <1>6, <1>7, <1>8, SendInv, FinishInv
    DEF DeliveryNext, DispatcherStep

\* Whatever stops, stalls or times out, a message reaches the player at most
\* once, and what a settled row says of it is true.
THEOREM DeliveryIsAlwaysTrue == DeliverySpec => []DeliveryIsTrue
<1>1. DeliveryInv => DeliveryIsTrue
  BY DEF DeliveryInv, DeliveryIsTrue
<1> QED BY <1>1, DeliveryInitially, DeliveryStep, PTL DEF DeliverySpec

\* The rows of the delivery tables, the switch of the player and the count of
\* what the messenger took keep their types.
THEOREM DeliveryIsTyped == DeliverySpec => []DeliveryTypeOK
<1>1. DeliveryInv => DeliveryTypeOK
  BY DEF DeliveryInv, DeliveryTyped, DeliveryTypeOK, Row, Failures
<1> QED BY <1>1, DeliveryInitially, DeliveryStep, PTL DEF DeliverySpec

-----------------------------------------------------------------------------
(* Reconciliation.                                                         *)

Change == {"rescheduled", "cancelled"}
Record == [edit : Nat, deleted : BOOLEAN]
Lease == [owner : Schedulers \cup {"nobody"}, running : BOOLEAN, recent : BOOLEAN]

ReconciliationTyped ==
  /\ booking \in [Bookings -> [edit : Nat, changes : Seq(Change)]]
  /\ calendar \in [Bookings -> Record]
  /\ lease \in [Bookings -> Lease]
  /\ DOMAIN scheduler = Schedulers
  /\ told \in [Bookings -> SUBSET (Change \X Nat)]

\* A row is not ahead of its record, and is cancelled when it shows the
\* deletion, which is the last edit.
RowFollows(b) ==
  /\ booking[b].edit <= calendar[b].edit
  /\ IsCancelled(b) <=> calendar[b].deleted /\ booking[b].edit = calendar[b].edit

\* What was read of a record: an earlier edit, or all there is.
Seen(b, seen) ==
  /\ seen \in Record /\ seen.edit <= calendar[b].edit
  /\ seen.edit = calendar[b].edit => (seen.deleted <=> calendar[b].deleted)
  /\ seen.deleted => seen.edit = calendar[b].edit

\* While the version stands, the row shows the edit it had at the claim, and
\* the record that was read is newer.
ClaimIsSound(at) ==
  at.pc \in {"read", "apply"} =>
    /\ at.booking \in Bookings /\ at.version \in 0..Version(at.booking)
    /\ at.pc = "read" /\ Version(at.booking) = at.version => at.edit = booking[at.booking].edit
    /\ at.pc = "apply" => Seen(at.booking, at.seen)
    /\ at.pc = "apply" /\ Version(at.booking) = at.version
         => at.seen.edit > booking[at.booking].edit

ReconciliationInv ==
  /\ ReconciliationTyped
  /\ \A b \in Bookings : RowFollows(b)
  /\ \A s \in Schedulers : ClaimIsSound(scheduler[s])
  /\ MessageIsTrue

LEMMA ReconciliationInitially == ReconciliationInit => ReconciliationInv
<1> SUFFICES ASSUME ReconciliationInit PROVE ReconciliationInv
  OBVIOUS
<1>1. ReconciliationTyped
  <2>1. <<>> \in Seq(Change)
    OBVIOUS
  <2>2. [edit |-> 0, changes |-> <<>>] \in [edit : Nat, changes : Seq(Change)]
    BY <2>1
  <2> QED BY <2>2 DEF ReconciliationInit, ReconciliationTyped, Record, Lease
<1>2. ASSUME NEW b \in Bookings PROVE RowFollows(b)
  BY DEF ReconciliationInit, RowFollows, IsCancelled, Version
<1>3. ASSUME NEW s \in Schedulers PROVE ClaimIsSound(scheduler[s])
  BY DEF ReconciliationInit, ClaimIsSound, Awake
<1>4. MessageIsTrue
  BY DEF ReconciliationInit, MessageIsTrue
<1> QED BY <1>1, <1>2, <1>3, <1>4 DEF ReconciliationInv

LEMMA VersionFacts ==
  ASSUME ReconciliationTyped, NEW b \in Bookings
  PROVE  /\ Version(b) \in Nat
         /\ \A i \in 1..Version(b) : booking[b].changes[i] \in Change
         /\ booking[b].edit \in Nat
<1>1. booking[b] \in [edit : Nat, changes : Seq(Change)]
  BY DEF ReconciliationTyped
<1> QED BY <1>1, ElementOfSeq DEF Version

-----------------------------------------------------------------------------
(* A change of a row.                                                      *)

LEMMA RowChanges ==
  ASSUME ReconciliationInv, NEW b \in Bookings, NEW seen, Seen(b, seen),
         ~IsCancelled(b), seen.edit > booking[b].edit,
         booking' = [booking EXCEPT ![b] = Changed(b, seen)], calendar' = calendar
  PROVE  /\ booking' \in [Bookings -> [edit : Nat, changes : Seq(Change)]]
         /\ \A c \in Bookings : c # b => booking'[c] = booking[c]
         /\ booking'[b].edit = seen.edit
         /\ Len(booking'[b].changes) = Version(b) + 1
         /\ \A i \in 1..Version(b) : booking'[b].changes[i] = booking[b].changes[i]
         /\ booking'[b].changes[Version(b) + 1] = ChangeOf(seen)
         /\ ChangeOf(seen) \in Change
<1> DEFINE row == Changed(b, seen)
           old == booking[b].changes
<1>1. booking[b] \in [edit : Nat, changes : Seq(Change)] /\ old \in Seq(Change)
  BY DEF ReconciliationInv, ReconciliationTyped
<1>2. ChangeOf(seen) \in Change
  BY DEF ChangeOf, Change
<1>3. /\ row.edit = seen.edit /\ row.changes = Append(old, ChangeOf(seen))
      /\ row \in [edit : Nat, changes : Seq(Change)]
  BY <1>1, <1>2, AppendProperties DEF Changed, Seen, Record
<1>4. /\ Len(row.changes) = Len(old) + 1
      /\ \A i \in 1..Len(old) : row.changes[i] = old[i]
      /\ row.changes[Len(old) + 1] = ChangeOf(seen)
  BY <1>1, <1>2, <1>3, AppendProperties
<1> HIDE DEF row
<1>5. /\ booking' \in [Bookings -> [edit : Nat, changes : Seq(Change)]]
      /\ \A c \in Bookings : booking'[c] = IF c = b THEN row ELSE booking[c]
  BY <1>3 DEF ReconciliationInv, ReconciliationTyped, row
<1> QED BY <1>2, <1>3, <1>4, <1>5 DEF Version

LEMMA ChangeFollows ==
  ASSUME ReconciliationInv, NEW b \in Bookings, NEW seen, Seen(b, seen),
         ~IsCancelled(b), seen.edit > booking[b].edit,
         booking' = [booking EXCEPT ![b] = Changed(b, seen)], calendar' = calendar
  PROVE  /\ \A c \in Bookings : RowFollows(c)'
         /\ \A at : ClaimIsSound(at) => ClaimIsSound(at)'
<1>1. Version(b)' = Version(b) + 1 /\ Version(b) \in Nat
  BY RowChanges, VersionFacts DEF Version, ReconciliationInv
<1>2. IsCancelled(b)' <=> seen.deleted
  <2>1. booking'[b].changes[Version(b) + 1] = ChangeOf(seen)
    BY RowChanges
  <2>2. IsCancelled(b)' <=> ChangeOf(seen) = "cancelled"
    BY ONLY <1>1, <2>1 DEF IsCancelled
  <2> QED BY <2>2 DEF ChangeOf
<1>3. calendar[b] \in Record /\ seen \in Record /\ calendar[b].edit \in Nat /\ seen.edit \in Nat
  BY DEF ReconciliationInv, ReconciliationTyped, Record, Seen
<1>4. RowFollows(b)'
  BY <1>2, <1>3, RowChanges DEF RowFollows, Seen
<1>5. ASSUME NEW c \in Bookings, c # b PROVE RowFollows(c)' /\ Version(c)' = Version(c)
  BY <1>5, RowChanges DEF ReconciliationInv, RowFollows, IsCancelled, Version
<1>6. ASSUME NEW at, ClaimIsSound(at) PROVE ClaimIsSound(at)'
  <2>1. CASE at.booking = b
    BY <1>1, <1>6, <2>1 DEF ClaimIsSound, Seen
  <2>2. CASE at.booking # b
    BY <1>5, <1>6, <2>2, RowChanges DEF ClaimIsSound, Seen
  <2> QED BY <2>1, <2>2
<1> QED BY <1>4, <1>5, <1>6

LEMMA ChangeKeepsMessages ==
  ASSUME ReconciliationInv, NEW b \in Bookings, NEW seen, Seen(b, seen),
         ~IsCancelled(b), seen.edit > booking[b].edit,
         booking' = [booking EXCEPT ![b] = Changed(b, seen)], calendar' = calendar,
         NEW c \in Bookings, NEW event \in told[c]
  PROVE  event[2] \in 1..Len(booking'[c].changes) /\ booking'[c].changes[event[2]] = event[1]
<1>1. event[2] \in 1..Version(c) /\ booking[c].changes[event[2]] = event[1]
  BY DEF ReconciliationInv, MessageIsTrue
<1>2. Version(b) \in Nat
  BY VersionFacts DEF ReconciliationInv
<1>3. CASE c = b
  <2>1. event[2] \in 1..Version(b) + 1 /\ event[2] \in 1..Version(b)
    BY <1>1, <1>2, <1>3
  <2> QED BY <1>1, <1>3, <2>1, RowChanges
<1>4. CASE c # b
  BY <1>1, <1>4, RowChanges DEF Version
<1> QED BY <1>3, <1>4

-----------------------------------------------------------------------------
(* The steps.                                                              *)

\* The scheduler s goes on, and no row changes.
LEMMA GoesOnInv ==
  ASSUME ReconciliationInv, NEW s \in Schedulers, NEW at, ClaimIsSound(at), GoOn(s, at),
         UNCHANGED <<booking, calendar, told>>, lease' \in [Bookings -> Lease]
  PROVE  ReconciliationInv'
<1>1. DOMAIN scheduler' = Schedulers
      /\ \A r \in Schedulers : scheduler'[r] = IF r = s THEN at ELSE scheduler[r]
  BY DEF GoOn, ReconciliationInv, ReconciliationTyped
<1>2. \A b \in Bookings : Version(b)' = Version(b) /\ (RowFollows(b)' <=> RowFollows(b))
  BY DEF Version, RowFollows, IsCancelled
<1>3. ASSUME NEW r \in Schedulers PROVE ClaimIsSound(scheduler[r])'
  <2>1. ClaimIsSound(scheduler'[r])
    BY <1>1 DEF ReconciliationInv
  <2> QED BY <2>1 DEF ClaimIsSound, Version, Seen
<1> QED BY <1>1, <1>2, <1>3
    DEF ReconciliationInv, ReconciliationTyped, MessageIsTrue, Version

LEMMA SoonestIsIn ==
  ASSUME Candidates # {}
  PROVE  Soonest \in Candidates
<1> DEFINE less == OpToRel(<, Nat)
<1>1. IsWellFoundedOn(less, Nat)
  BY NatLessThanWellFounded, Zenon
<1>2. Candidates \subseteq Nat
  BY ReconciliationAssumption DEF Candidates, Bookings
<1> HIDE DEF less
<1>3. PICK x \in Candidates : \A y \in Candidates : ~(<<y, x>> \in less)
  BY <1>1, <1>2, WFMin
<1>4. \A y \in Candidates : x <= y
  <2> SUFFICES ASSUME NEW y \in Candidates, y < x PROVE FALSE
    BY <1>2
  <2>1. <<y, x>> \in less
    BY <1>2, Zenon DEF less, OpToRel
  <2> QED BY <1>3, <2>1
<1> QED BY <1>4 DEF Soonest

LEMMA ClaimInv ==
  ASSUME ReconciliationInv, NEW s \in Schedulers, ClaimNext(s)
  PROVE  ReconciliationInv'
<1>1. UNCHANGED <<booking, calendar, told>>
  BY DEF ClaimNext
<1>2. CASE Candidates = {} /\ GoOn(s, Resting) /\ UNCHANGED lease
  <2>1. ClaimIsSound(Resting)
    BY DEF ClaimIsSound, Resting
  <2>2. lease' \in [Bookings -> Lease]
    BY <1>2 DEF ReconciliationInv, ReconciliationTyped
  <2> QED BY <1>1, <1>2, <2>1, <2>2, GoesOnInv
<1>3. CASE Candidates # {}
  <2> DEFINE at == [pc |-> "read", batch |-> scheduler[s].batch, booking |-> Soonest,
                    version |-> Version(Soonest), edit |-> booking[Soonest].edit]
  <2>1. Soonest \in Bookings
    BY <1>3, SoonestIsIn DEF Candidates
  <2>2. Version(Soonest) \in Nat
    BY <2>1, VersionFacts DEF ReconciliationInv
  <2>3. ClaimIsSound(at)
    BY <2>1, <2>2 DEF ClaimIsSound
  <2>4. GoOn(s, at)
        /\ lease' = [lease EXCEPT ![Soonest].owner = s, ![Soonest].running = TRUE]
    BY <1>3 DEF ClaimNext
  <2>5. lease' \in [Bookings -> Lease]
    BY <2>1, <2>4 DEF ReconciliationInv, ReconciliationTyped, Lease
  <2> HIDE DEF at
  <2>6. PICK q : q = at
    OBVIOUS
  <2> QED BY <1>1, <2>3, <2>4, <2>5, <2>6, GoesOnInv
<1> QED BY <1>2, <1>3 DEF ClaimNext

LEMMA ReadInv ==
  ASSUME ReconciliationInv, NEW s \in Schedulers, ReadRecord(s)
  PROVE  ReconciliationInv'
<1> DEFINE at == scheduler[s]
           b == at.booking
<1>1. UNCHANGED <<booking, calendar, told>> /\ lease' \in [Bookings -> Lease]
  BY DEF ReadRecord, ReconciliationInv, ReconciliationTyped
<1>2. ASSUME NEW x, GoOn(s, x), x.pc = "complete" PROVE ReconciliationInv'
  <2>1. ClaimIsSound(x)
    BY <1>2 DEF ClaimIsSound
  <2> QED BY <1>1, <1>2, <2>1, GoesOnInv
<1>3. ASSUME NEW n PROVE [pc |-> "complete", batch |-> n, booking |-> b].pc = "complete"
  OBVIOUS
<1>4. ASSUME calendar[b].edit # at.edit,
             GoOn(s, [pc |-> "apply", batch |-> at.batch, booking |-> b,
                      version |-> at.version, seen |-> calendar[b]])
      PROVE  ReconciliationInv'
  <2> DEFINE x == [pc |-> "apply", batch |-> at.batch, booking |-> b,
                   version |-> at.version, seen |-> calendar[b]]
  <2>1. /\ b \in Bookings /\ at.version \in 0..Version(b)
        /\ Version(b) = at.version => at.edit = booking[b].edit
    BY DEF ReadRecord, ReconciliationInv, ClaimIsSound
  <2>2. RowFollows(b) /\ calendar[b] \in Record /\ calendar[b].edit \in Nat /\ booking[b].edit \in Nat
    BY <2>1, VersionFacts DEF ReconciliationInv, ReconciliationTyped, Record
  <2>3. Seen(b, calendar[b])
    BY <2>2 DEF Seen
  <2>4. Version(b) = at.version => calendar[b].edit > booking[b].edit
    BY <1>4, <2>1, <2>2 DEF RowFollows
  <2>5. x.pc = "apply" /\ x.booking = b /\ x.version = at.version /\ x.seen = calendar[b]
    OBVIOUS
  <2> HIDE DEF x
  <2>6. ClaimIsSound(x)
    BY <2>1, <2>3, <2>4, <2>5 DEF ClaimIsSound
  <2>7. PICK q : q = x
    OBVIOUS
  <2> QED BY <1>1, <1>4, <2>6, <2>7, GoesOnInv DEF x
<1> QED BY <1>2, <1>3, <1>4 DEF ReadRecord

\* A row that is already up to date, and has changed since the claim, last
\* changed as the record says.
LEMMA CurrentRowTells ==
  ASSUME ReconciliationInv, NEW b \in Bookings, NEW seen, Seen(b, seen),
         seen.edit = booking[b].edit, Version(b) > 0
  PROVE  booking[b].changes[Version(b)] = ChangeOf(seen)
<1>1. Version(b) \in Nat /\ booking[b].changes[Version(b)] \in Change
  BY VersionFacts DEF ReconciliationInv
<1>2. RowFollows(b)
  BY DEF ReconciliationInv
<1>3. IsCancelled(b) <=> seen.deleted
  BY <1>2 DEF RowFollows, Seen
<1> QED BY <1>1, <1>3 DEF IsCancelled, ChangeOf, Change

LEMMA ApplyInv ==
  ASSUME ReconciliationInv, NEW s \in Schedulers, ApplyRefresh(s)
  PROVE  ReconciliationInv' /\ RecordNeverGoesBack
<1> DEFINE at == scheduler[s]
           b == at.booking
           seen == at.seen
           event == <<ChangeOf(seen), EventVersion(s)>>
<1>1. /\ b \in Bookings /\ at.version \in 0..Version(b) /\ Seen(b, seen)
      /\ Version(b) = at.version => seen.edit > booking[b].edit
      /\ UNCHANGED <<calendar, lease>> /\ Version(b) \in Nat
  BY VersionFacts DEF ApplyRefresh, ReconciliationInv, ClaimIsSound
<1>2. lease' \in [Bookings -> Lease]
  BY <1>1 DEF ReconciliationInv, ReconciliationTyped
<1>3. ASSUME NEW x, GoOn(s, x), x.pc = "complete",
             booking' = IF Applies(b, seen, at.version)
                        THEN [booking EXCEPT ![b] = Changed(b, seen)] ELSE booking,
             told' = IF Announces(s) THEN [told EXCEPT ![b] = @ \cup {event}] ELSE told
      PROVE  ReconciliationInv' /\ RecordNeverGoesBack
  <2>1. DOMAIN scheduler' = Schedulers
        /\ \A r \in Schedulers : scheduler'[r] = IF r = s THEN x ELSE scheduler[r]
    BY <1>3 DEF GoOn, ReconciliationInv, ReconciliationTyped
  <2>2. ASSUME NEW r \in Schedulers, \A y : ClaimIsSound(y) => ClaimIsSound(y)'
        PROVE  ClaimIsSound(scheduler[r])'
    <3>1. ClaimIsSound(x)
      BY <1>3 DEF ClaimIsSound
    <3>2. ClaimIsSound(scheduler'[r])
      BY <2>1, <3>1 DEF ReconciliationInv
    <3>3. PICK y : y = scheduler'[r]
      OBVIOUS
    <3>4. ClaimIsSound(y)'
      BY <2>2, <3>2, <3>3
    <3> QED BY <3>3, <3>4 DEF ClaimIsSound, Seen, Version
  <2> HIDE DEF event
  <2>3. \A c \in Bookings :
           told'[c] = told[c] \/ (c = b /\ Announces(s) /\ told'[c] = told[c] \cup {event})
    BY <1>1, <1>3 DEF ReconciliationInv, ReconciliationTyped
  <2>4. ASSUME event \in Change \X Nat
        PROVE  told' \in [Bookings -> SUBSET (Change \X Nat)]
    BY <1>1, <1>3, <2>4 DEF ReconciliationInv, ReconciliationTyped
  <2>5. EventVersion(s) = Len(booking'[b].changes)
    BY DEF EventVersion
  <2>6. CASE Applies(b, seen, at.version)
    <3>1. /\ ~IsCancelled(b) /\ seen.edit > booking[b].edit /\ calendar' = calendar
          /\ booking' = [booking EXCEPT ![b] = Changed(b, seen)]
      BY <1>1, <1>3, <2>6 DEF Applies, VersionStands
    <3>2. PICK q : q = seen
      OBVIOUS
    <3>3. /\ booking' \in [Bookings -> [edit : Nat, changes : Seq(Change)]]
          /\ \A c \in Bookings : c # b => booking'[c] = booking[c]
          /\ booking'[b].edit = q.edit
          /\ Len(booking'[b].changes) = Version(b) + 1
          /\ booking'[b].changes[Version(b) + 1] = ChangeOf(q)
          /\ ChangeOf(q) \in Change
      BY <1>1, <3>1, <3>2, RowChanges
    <3>4. /\ \A c \in Bookings : RowFollows(c)'
          /\ \A y : ClaimIsSound(y) => ClaimIsSound(y)'
      BY <1>1, <3>1, <3>2, ChangeFollows
    <3>5. \A c \in Bookings : \A e \in told[c] :
             e[2] \in 1..Len(booking'[c].changes) /\ booking'[c].changes[e[2]] = e[1]
      BY <1>1, <3>1, <3>2, ChangeKeepsMessages
    <3>6. event = <<ChangeOf(q), Version(b) + 1>>
      BY <2>5, <3>2, <3>3 DEF event
    <3>7. MessageIsTrue'
      <4> SUFFICES ASSUME NEW c \in Bookings, NEW e \in told'[c]
                   PROVE  e[2] \in 1..Len(booking'[c].changes) /\ booking'[c].changes[e[2]] = e[1]
        BY DEF MessageIsTrue, Version
      <4>1. CASE e \in told[c]
        BY <3>5, <4>1
      <4>2. CASE e \notin told[c]
        <5>1. c = b /\ e = <<ChangeOf(q), Version(b) + 1>>
          BY <2>3, <3>6, <4>2
        <5>2. Version(b) + 1 \in 1..Version(b) + 1
          BY <1>1
        <5> QED BY <3>3, <5>1, <5>2
      <4> QED BY <4>1, <4>2
    <3>8. ReconciliationTyped'
      BY <1>1, <1>2, <2>1, <2>4, <3>3, <3>6 DEF ReconciliationInv, ReconciliationTyped
    <3>9. RecordNeverGoesBack
      BY <1>1, <3>1, <3>2, <3>3, VersionFacts DEF RecordNeverGoesBack, ReconciliationInv, Seen, Record
    <3> QED BY <2>2, <3>4, <3>7, <3>8, <3>9 DEF ReconciliationInv
  <2>7. CASE ~Applies(b, seen, at.version)
    <3>1. booking' = booking /\ calendar' = calendar
      BY <1>1, <1>3, <2>7
    <3>2. \A c \in Bookings : Version(c)' = Version(c) /\ (RowFollows(c)' <=> RowFollows(c))
      BY <3>1 DEF Version, RowFollows, IsCancelled
    <3>3. \A y : ClaimIsSound(y) => ClaimIsSound(y)'
      BY <3>1 DEF ClaimIsSound, Version, Seen
    <3>4. ASSUME Announces(s)
          PROVE  /\ event \in Change \X Nat /\ event[2] \in 1..Version(b)
                 /\ booking[b].changes[event[2]] = event[1]
      <4>1. seen.edit = booking[b].edit /\ Version(b) > 0
        BY <1>1, <2>7, <3>4 DEF Announces, AlreadyCurrent
      <4>2. event = <<ChangeOf(seen), Version(b)>> /\ ChangeOf(seen) \in Change
        BY <2>5, <3>1 DEF event, Version, ChangeOf, Change
      <4>3. PICK q : q = seen
        OBVIOUS
      <4>4. booking[b].changes[Version(b)] = ChangeOf(seen)
        BY <1>1, <4>1, <4>3, CurrentRowTells
      <4> QED BY <1>1, <4>1, <4>2, <4>4
    <3>5. MessageIsTrue'
      BY <2>3, <3>1, <3>2, <3>4 DEF MessageIsTrue, ReconciliationInv
    <3>6. told' \in [Bookings -> SUBSET (Change \X Nat)]
      BY <1>3, <2>4, <3>4 DEF ReconciliationInv, ReconciliationTyped
    <3>7. ReconciliationTyped'
      BY <1>2, <2>1, <3>1, <3>6 DEF ReconciliationInv, ReconciliationTyped
    <3>8. RecordNeverGoesBack
      BY <3>1, VersionFacts DEF RecordNeverGoesBack, ReconciliationInv
    <3> QED BY <2>2, <3>2, <3>3, <3>5, <3>7, <3>8 DEF ReconciliationInv
  <2> QED BY <2>6, <2>7
<1>4. ASSUME NEW x, GoOn(s, x), x.pc = "complete", UNCHANGED <<booking, told>>
      PROVE  ReconciliationInv' /\ RecordNeverGoesBack
  <2>1. ClaimIsSound(x)
    BY <1>4 DEF ClaimIsSound
  <2>2. RecordNeverGoesBack
    BY <1>4, VersionFacts DEF RecordNeverGoesBack, ReconciliationInv
  <2> QED BY <1>1, <1>2, <1>4, <2>1, <2>2, GoesOnInv
<1>5. PICK x, y : /\ x = [pc |-> "complete", batch |-> at.batch + 1, booking |-> b]
                  /\ y = [pc |-> "complete", batch |-> BatchLimit, booking |-> b]
  OBVIOUS
<1>6. \/ /\ GoOn(s, x)
         /\ booking' = IF Applies(b, seen, at.version)
                       THEN [booking EXCEPT ![b] = Changed(b, seen)] ELSE booking
         /\ told' = IF Announces(s) THEN [told EXCEPT ![b] = @ \cup {event}] ELSE told
      \/ GoOn(s, y) /\ UNCHANGED <<booking, told>>
  BY <1>5 DEF ApplyRefresh
<1>7. x.pc = "complete" /\ y.pc = "complete"
  BY <1>5
<1> HIDE DEF event
<1> QED BY <1>3, <1>4, <1>6, <1>7

LEMMA CompleteInv ==
  ASSUME ReconciliationInv, NEW s \in Schedulers, CompleteLease(s)
  PROVE  ReconciliationInv'
<1>1. UNCHANGED <<booking, calendar, told>>
  BY DEF CompleteLease
<1>2. lease' \in [Bookings -> Lease]
  <2>1. CompletedLease(s) \in Lease
    BY DEF CompletedLease, Lease
  <2> QED BY <2>1 DEF CompleteLease, ReconciliationInv, ReconciliationTyped
<1>3. \E x : GoOn(s, x) /\ x.pc \in {"rest", "tick"}
  BY DEF CompleteLease, Resting, Awake
<1>4. PICK x : GoOn(s, x) /\ x.pc \in {"rest", "tick"}
  BY <1>3
<1>5. ClaimIsSound(x)
  BY <1>4 DEF ClaimIsSound
<1> QED BY <1>1, <1>2, <1>4, <1>5, GoesOnInv

LEMMA EditInv ==
  ASSUME ReconciliationInv, NEW b \in Bookings, StaffEdit(b)
  PROVE  ReconciliationInv'
<1>1. PICK deleted \in BOOLEAN :
        calendar' = [calendar EXCEPT ![b] = [edit |-> calendar[b].edit + 1, deleted |-> deleted]]
  BY DEF StaffEdit
<1>2. UNCHANGED <<booking, lease, scheduler, told>> /\ ~calendar[b].deleted
  BY DEF StaffEdit
<1> DEFINE x == [edit |-> calendar[b].edit + 1, deleted |-> deleted]
<1>3. calendar[b] \in Record /\ calendar[b].edit \in Nat
  BY DEF ReconciliationInv, ReconciliationTyped, Record
<1>4. x \in Record /\ x.edit = calendar[b].edit + 1
  BY <1>3 DEF Record
<1>5. calendar' = [calendar EXCEPT ![b] = x]
  BY <1>1
<1> HIDE DEF x
<1>6. calendar' \in [Bookings -> Record]
      /\ \A c \in Bookings : calendar'[c] = IF c = b THEN x ELSE calendar[c]
  BY <1>4, <1>5 DEF ReconciliationInv, ReconciliationTyped
<1>7. \A c \in Bookings : Version(c)' = Version(c) /\ (IsCancelled(c)' <=> IsCancelled(c))
  BY <1>2 DEF Version, IsCancelled
<1>8. ASSUME NEW c \in Bookings PROVE RowFollows(c)'
  <2>1. RowFollows(c) /\ booking'[c] = booking[c] /\ booking[c].edit \in Nat
    BY <1>2, VersionFacts DEF ReconciliationInv
  <2>2. CASE c = b
    BY <1>2, <1>3, <1>4, <1>6, <1>7, <2>1, <2>2 DEF RowFollows
  <2>3. CASE c # b
    BY <1>6, <1>7, <2>1, <2>3 DEF RowFollows
  <2> QED BY <2>2, <2>3
<1>9. ASSUME NEW c \in Bookings, NEW seen, Seen(c, seen) PROVE Seen(c, seen)'
  <2>1. seen.edit \in Nat /\ seen \in Record
    BY <1>9 DEF Seen, Record
  <2>2. CASE c = b
    BY <1>2, <1>3, <1>4, <1>6, <1>9, <2>1, <2>2 DEF Seen
  <2>3. CASE c # b
    BY <1>6, <1>9, <2>3 DEF Seen
  <2> QED BY <2>2, <2>3
<1>10. ASSUME NEW s \in Schedulers PROVE ClaimIsSound(scheduler[s])'
  <2>1. ClaimIsSound(scheduler[s]) /\ scheduler' = scheduler /\ booking' = booking
    BY <1>2 DEF ReconciliationInv
  <2>2. PICK at : at = scheduler[s]
    OBVIOUS
  <2>3. at.pc = "apply" => Seen(at.booking, at.seen)'
    BY <1>9, <2>1, <2>2 DEF ClaimIsSound
  <2>4. ClaimIsSound(at)'
    BY <2>1, <2>2, <2>3 DEF ClaimIsSound, Version
  <2> QED BY <2>1, <2>2, <2>4 DEF ClaimIsSound, Version, Seen
<1> QED BY <1>2, <1>6, <1>8, <1>10
    DEF ReconciliationInv, ReconciliationTyped, MessageIsTrue, Version

LEMMA PlayerInv ==
  ASSUME ReconciliationInv, NEW b \in Bookings, PlayerReads(b)
  PROVE  ReconciliationInv' /\ RecordNeverGoesBack
<1>1. /\ ~IsCancelled(b) /\ calendar[b].edit # booking[b].edit /\ calendar' = calendar
      /\ booking' = [booking EXCEPT ![b] = Changed(b, calendar[b])]
      /\ UNCHANGED <<lease, scheduler, told>>
  BY DEF PlayerReads, Applies, AlreadyCurrent
<1>2. PICK q : q = calendar[b]
  OBVIOUS
<1>3. RowFollows(b) /\ q \in Record /\ q.edit \in Nat /\ booking[b].edit \in Nat
  BY <1>2, VersionFacts DEF ReconciliationInv, ReconciliationTyped, Record
<1>4. Seen(b, q) /\ q.edit > booking[b].edit
  BY <1>1, <1>2, <1>3 DEF RowFollows, Seen
<1>5. booking' = [booking EXCEPT ![b] = Changed(b, q)]
  BY <1>1, <1>2
<1>6. /\ booking' \in [Bookings -> [edit : Nat, changes : Seq(Change)]]
      /\ \A c \in Bookings : c # b => booking'[c] = booking[c]
      /\ booking'[b].edit = q.edit
  BY <1>1, <1>4, <1>5, RowChanges
<1>7. /\ \A c \in Bookings : RowFollows(c)'
      /\ \A at : ClaimIsSound(at) => ClaimIsSound(at)'
  BY <1>1, <1>4, <1>5, ChangeFollows
<1>8. ASSUME NEW s \in Schedulers PROVE ClaimIsSound(scheduler[s])'
  <2>1. PICK at : at = scheduler[s]
    OBVIOUS
  <2>2. ClaimIsSound(at)'
    BY <1>7, <2>1 DEF ReconciliationInv
  <2> QED BY <1>1, <2>1, <2>2 DEF ClaimIsSound, Version, Seen
<1>9. MessageIsTrue'
  BY <1>1, <1>4, <1>5, ChangeKeepsMessages DEF MessageIsTrue, Version
<1>10. RecordNeverGoesBack
  BY <1>4, <1>6, VersionFacts DEF RecordNeverGoesBack, ReconciliationInv
<1> QED BY <1>1, <1>6, <1>7, <1>8, <1>9, <1>10 DEF ReconciliationInv, ReconciliationTyped

\* Where neither rows nor records change, nothing goes back.
LEMMA NothingGoesBack == ReconciliationInv /\ booking' = booking => RecordNeverGoesBack
  BY VersionFacts DEF RecordNeverGoesBack, ReconciliationInv

LEMMA ReconciliationStep ==
  ReconciliationInv /\ [ReconciliationNext]_reconciliationVars
    => ReconciliationInv' /\ RecordNeverGoesBack
<1> SUFFICES ASSUME ReconciliationInv, [ReconciliationNext]_reconciliationVars
             PROVE  ReconciliationInv' /\ RecordNeverGoesBack
  OBVIOUS
<1>1. ASSUME NEW s \in Schedulers, ClaimNext(s) PROVE ReconciliationInv' /\ RecordNeverGoesBack
  BY <1>1, ClaimInv, NothingGoesBack DEF ClaimNext
<1>2. ASSUME NEW s \in Schedulers, ReadRecord(s) PROVE ReconciliationInv' /\ RecordNeverGoesBack
  BY <1>2, ReadInv, NothingGoesBack DEF ReadRecord
<1>3. ASSUME NEW s \in Schedulers, CompleteLease(s)
      PROVE  ReconciliationInv' /\ RecordNeverGoesBack
  BY <1>3, CompleteInv, NothingGoesBack DEF CompleteLease
<1>4. ASSUME NEW s \in Schedulers, SchedulerCrash(s)
      PROVE  ReconciliationInv' /\ RecordNeverGoesBack
  <2>1. ClaimIsSound(Awake(0)) /\ GoOn(s, Awake(0)) /\ UNCHANGED <<booking, calendar, told>>
    BY <1>4 DEF ClaimIsSound, Awake, SchedulerCrash
  <2>2. lease' \in [Bookings -> Lease]
    BY <1>4 DEF SchedulerCrash, ReconciliationInv, ReconciliationTyped
  <2> QED BY <2>1, <2>2, GoesOnInv, NothingGoesBack
<1>5. ASSUME NEW b \in Bookings, StaffEdit(b) PROVE ReconciliationInv' /\ RecordNeverGoesBack
  BY <1>5, EditInv, NothingGoesBack DEF StaffEdit
<1>6. ASSUME UNCHANGED <<booking, calendar, told>>, lease' \in [Bookings -> Lease],
             DOMAIN scheduler' = Schedulers,
             \A s \in Schedulers : scheduler'[s] = scheduler[s] \/ scheduler'[s].pc = "tick"
      PROVE  ReconciliationInv' /\ RecordNeverGoesBack
  <2>1. ASSUME NEW s \in Schedulers PROVE ClaimIsSound(scheduler[s])'
    <3>1. ClaimIsSound(scheduler'[s])
      BY <1>6 DEF ReconciliationInv, ClaimIsSound
    <3> QED BY <1>6, <3>1 DEF ClaimIsSound, Version, Seen
  <2>2. \A b \in Bookings : RowFollows(b)'
    BY <1>6 DEF ReconciliationInv, RowFollows, IsCancelled, Version
  <2>3. MessageIsTrue' /\ ReconciliationTyped'
    BY <1>6 DEF ReconciliationInv, ReconciliationTyped, MessageIsTrue, Version
  <2> QED BY <1>6, <2>1, <2>2, <2>3, NothingGoesBack DEF ReconciliationInv
<1>7. ASSUME NEW b \in Bookings, LeaseRunsOut(b) PROVE ReconciliationInv' /\ RecordNeverGoesBack
  <2>1. lease' \in [Bookings -> Lease]
    BY <1>7 DEF LeaseRunsOut, ReconciliationInv, ReconciliationTyped, Lease
  <2> QED BY <1>6, <1>7, <2>1 DEF LeaseRunsOut, ReconciliationInv, ReconciliationTyped
<1>8. CASE FiveMinutesPass
  <2>1. lease' \in [Bookings -> Lease]
    BY <1>8 DEF FiveMinutesPass, ReconciliationInv, ReconciliationTyped, Lease
  <2>2. /\ DOMAIN scheduler' = Schedulers
        /\ \A s \in Schedulers : scheduler'[s] = scheduler[s] \/ scheduler'[s].pc = "tick"
    BY <1>8 DEF FiveMinutesPass, Awake
  <2> QED BY <1>6, <1>8, <2>1, <2>2 DEF FiveMinutesPass
<1>9. CASE BookingStarts \/ UNCHANGED reconciliationVars
  BY <1>6, <1>9 DEF BookingStarts, reconciliationVars, ReconciliationInv, ReconciliationTyped
<1> QED BY <1>1, <1>2, <1>3, <1>4, <1>5, <1>7, <1>8, <1>9, ApplyInv, PlayerInv
    DEF ReconciliationNext, SchedulerStep

\* Who does not complete its own lease ends no running one.
LEMMA LeasesAreKept ==
  ReconciliationInv /\ [ReconciliationNext]_reconciliationVars => LateCompletionIsHarmless
<1> SUFFICES ASSUME ReconciliationInv, [ReconciliationNext]_reconciliationVars,
                    NEW b \in Bookings, NEW s \in Schedulers,
                    lease[b].running, lease[b].owner = s, scheduler[s].pc \in {"read", "apply"},
                    scheduler'[s] = scheduler[s], scheduler' # scheduler
             PROVE  lease'[b].running
  BY DEF LateCompletionIsHarmless
<1>1. lease \in [Bookings -> Lease]
  BY DEF ReconciliationInv, ReconciliationTyped
<1>2. CASE UNCHANGED lease
  BY <1>2
<1>3. ASSUME NEW r \in Schedulers, ClaimNext(r) PROVE lease'[b].running
  <2>1. lease' = lease \/ lease' = [lease EXCEPT ![Soonest].owner = r, ![Soonest].running = TRUE]
    BY <1>3 DEF ClaimNext
  <2> HIDE DEF Soonest
  <2> QED BY <1>1, <2>1 DEF Lease
<1>4. ASSUME NEW r \in Schedulers, CompleteLease(r) PROVE lease'[b].running
  <2>1. r # s
    BY <1>4 DEF CompleteLease
  <2>2. lease' = lease \/ (Holds(r) /\ lease' = [lease EXCEPT ![scheduler[r].booking] = CompletedLease(r)])
    BY <1>4 DEF CompleteLease
  <2> QED BY <1>1, <2>1, <2>2 DEF Holds
<1>5. CASE FiveMinutesPass
  BY <1>1, <1>5 DEF FiveMinutesPass, Lease
<1> QED BY <1>2, <1>3, <1>4, <1>5
    DEF ReconciliationNext, SchedulerStep, ReadRecord, ApplyRefresh, SchedulerCrash, LeaseRunsOut,
        StaffEdit, PlayerReads, BookingStarts, reconciliationVars

\* Every message names a version of the booking that exists, and says of it
\* what happened, whoever else wrote the change.
THEOREM MessagesAreTrue == ReconciliationSpec => []MessageIsTrue
<1>1. ReconciliationInv => MessageIsTrue
  BY DEF ReconciliationInv
<1> QED BY <1>1, ReconciliationInitially, ReconciliationStep, PTL DEF ReconciliationSpec

\* A scheduler that was overtaken takes back neither an edit of the row nor the
\* lease of the one that works on the booking now.
THEOREM LateCallsStayHarmless == ReconciliationSpec => LateCallsAreHarmless
BY ReconciliationInitially, ReconciliationStep, LeasesAreKept, PTL
   DEF ReconciliationSpec, LateCallsAreHarmless

\* The staff make no more edits than the bound, bookings start one by one, and
\* a scheduler is at a place of its loop.
SchedulersRun ==
  /\ started \in 0..LastBooking
  /\ \A b \in Bookings : calendar[b].edit <= MaxEdits[b]
  /\ \A s \in Schedulers : scheduler[s].pc \in {"rest", "tick", "read", "apply", "complete"}

LEMMA SchedulersBegin == ReconciliationInit => SchedulersRun
<1> SUFFICES ASSUME ReconciliationInit PROVE SchedulersRun
  OBVIOUS
<1>1. \A b \in Bookings : calendar[b].edit = 0 /\ 0 <= MaxEdits[b]
  BY ReconciliationAssumption DEF ReconciliationInit, Bookings
<1>2. \A s \in Schedulers : scheduler[s].pc = "tick"
  BY DEF ReconciliationInit, Awake
<1> QED BY <1>1, <1>2, ReconciliationAssumption DEF ReconciliationInit, SchedulersRun

LEMMA SchedulersRunOn ==
  ReconciliationInv /\ SchedulersRun /\ [ReconciliationNext]_reconciliationVars => SchedulersRun'
<1> SUFFICES ASSUME ReconciliationInv, SchedulersRun, [ReconciliationNext]_reconciliationVars
             PROVE  SchedulersRun'
  OBVIOUS
<1> DEFINE Places == {"rest", "tick", "read", "apply", "complete"}
<1>1. DOMAIN scheduler = Schedulers /\ calendar \in [Bookings -> Record]
  BY DEF ReconciliationInv, ReconciliationTyped
<1>2. ASSUME NEW s \in Schedulers, NEW at, at.pc \in Places, GoOn(s, at),
             UNCHANGED <<calendar, started>>
      PROVE  SchedulersRun'
  <2>1. \A r \in Schedulers : scheduler'[r].pc \in Places
    BY <1>1, <1>2 DEF GoOn, SchedulersRun
  <2> QED BY <1>2, <2>1 DEF SchedulersRun
<1>3. ASSUME NEW s \in Schedulers, SchedulerStep(s) \/ SchedulerCrash(s) PROVE SchedulersRun'
  <2>1. CASE ClaimNext(s)
    BY <1>2, <2>1 DEF ClaimNext, Resting
  <2>2. CASE ReadRecord(s)
    BY <1>2, <2>2 DEF ReadRecord
  <2>3. CASE ApplyRefresh(s)
    BY <1>2, <2>3 DEF ApplyRefresh
  <2>4. CASE CompleteLease(s)
    BY <1>2, <2>4 DEF CompleteLease, Resting, Awake
  <2>5. CASE SchedulerCrash(s)
    BY <1>2, <2>5 DEF SchedulerCrash, Awake
  <2> QED BY <1>3, <2>1, <2>2, <2>3, <2>4, <2>5 DEF SchedulerStep
<1>4. ASSUME NEW b \in Bookings, StaffEdit(b) PROVE SchedulersRun'
  <2>1. PICK deleted \in BOOLEAN :
          calendar' = [calendar EXCEPT ![b] = [edit |-> @.edit + 1, deleted |-> deleted]]
    BY <1>4 DEF StaffEdit
  <2>2. calendar[b].edit \in Nat /\ MaxEdits[b] \in Nat /\ calendar[b].edit < MaxEdits[b]
    BY <1>1, <1>4, ReconciliationAssumption DEF StaffEdit, Record, Bookings
  <2>3. \A c \in Bookings : calendar'[c].edit <= MaxEdits[c]
    BY <1>1, <2>1, <2>2 DEF SchedulersRun
  <2> QED BY <1>4, <2>3 DEF StaffEdit, SchedulersRun
<1>5. CASE FiveMinutesPass
  <2>1. \A s \in Schedulers : scheduler'[s].pc \in Places
    BY <1>5 DEF FiveMinutesPass, Awake, SchedulersRun
  <2> QED BY <1>5, <2>1 DEF FiveMinutesPass, SchedulersRun
<1>6. CASE BookingStarts
  <2>1. started' \in 0..LastBooking
    BY <1>6, ReconciliationAssumption DEF BookingStarts, SchedulersRun
  <2> QED BY <1>6, <2>1 DEF BookingStarts, SchedulersRun
<1>7. ASSUME UNCHANGED <<calendar, started, scheduler>> PROVE SchedulersRun'
  BY <1>7 DEF SchedulersRun
<1>8. ASSUME NEW b \in Bookings, LeaseRunsOut(b) \/ PlayerReads(b) PROVE SchedulersRun'
  BY <1>7, <1>8 DEF LeaseRunsOut, PlayerReads
<1>9. CASE UNCHANGED reconciliationVars
  BY <1>7, <1>9 DEF reconciliationVars
<1> QED BY <1>3, <1>4, <1>5, <1>6, <1>8, <1>9 DEF ReconciliationNext

\* Rows, records, leases and schedulers keep their types, and a row never shows
\* an edit the calendar does not have.
THEOREM ReconciliationIsTyped == ReconciliationSpec => []ReconciliationTypeOK
<1>1. ReconciliationInv /\ SchedulersRun => ReconciliationTypeOK
  <2> SUFFICES ASSUME ReconciliationInv, SchedulersRun PROVE ReconciliationTypeOK
    OBVIOUS
  <2>1. ASSUME NEW b \in Bookings
        PROVE  /\ booking[b].edit \in 0..calendar[b].edit
               /\ booking[b].changes \in Seq({"rescheduled", "cancelled"})
               /\ calendar[b] \in [edit : 0..MaxEdits[b], deleted : BOOLEAN]
               /\ lease[b] \in [owner : Schedulers \cup {"nobody"}, running : BOOLEAN,
                                recent : BOOLEAN]
    <3>1. /\ booking[b] \in [edit : Nat, changes : Seq(Change)]
          /\ calendar[b] \in [edit : Nat, deleted : BOOLEAN] /\ lease[b] \in Lease
          /\ booking[b].edit <= calendar[b].edit /\ calendar[b].edit <= MaxEdits[b]
          /\ MaxEdits[b] \in Nat
      BY <2>1, ReconciliationAssumption
         DEF ReconciliationInv, ReconciliationTyped, RowFollows, SchedulersRun, Record, Bookings
    <3>2. booking[b].edit \in 0..calendar[b].edit /\ calendar[b].edit \in 0..MaxEdits[b]
      BY <3>1
    <3> QED BY <3>1, <3>2 DEF Change, Lease
  <2> QED BY <2>1 DEF SchedulersRun, ReconciliationTypeOK
<1> QED BY <1>1, ReconciliationInitially, ReconciliationStep, SchedulersBegin, SchedulersRunOn, PTL
       DEF ReconciliationSpec

-----------------------------------------------------------------------------
(* RequestLimiter.                                                         *)

\* The starts before the last minute, which the limiter may still remember.
Forgotten == Len(requestStarts) - Len(history)

\* The limiter remembers every start of the last minute.
Remembers ==
  /\ Len(history) <= Len(requestStarts)
  /\ \A i \in 1..Forgotten : requestStarts[i] = Minute
  /\ \A i \in 1..Len(history) : history[i] = requestStarts[Forgotten + i]

\* A permit is for now: the head starts before time passes.
PermitHolds ==
  turn = "start" =>
    /\ requestStarts = history /\ Len(history) < MaxPerMinute
    /\ history # <<>> => history[Len(history)] >= Interval

LimiterInv ==
  /\ requestStarts \in Seq(0..Minute) /\ history \in Seq(0..Minute - 1)
  /\ Remembers /\ PermitHolds /\ RateIsKept

LEMMA FunctionIsSequence ==
  ASSUME NEW S, NEW m \in Nat, NEW f \in [1..m -> S]
  PROVE  f \in Seq(S) /\ Len(f) = m /\ DOMAIN f = 1..m
OBVIOUS

LEMMA OlderFacts ==
  ASSUME NEW ages \in Seq(0..Minute)
  PROVE  /\ Older(ages) \in Seq(0..Minute) /\ Len(Older(ages)) = Len(ages)
         /\ \A i \in 1..Len(ages) :
              Older(ages)[i] = IF ages[i] < Minute THEN ages[i] + 1 ELSE Minute
<1>1. Len(ages) \in Nat /\ DOMAIN ages = 1..Len(ages) /\ Minute \in Nat
  BY LimiterAssumption
<1>2. ASSUME NEW i \in 1..Len(ages)
      PROVE  (IF ages[i] < Minute THEN ages[i] + 1 ELSE Minute) \in 0..Minute
  <2>1. ages[i] \in 0..Minute
    BY ElementOfSeq
  <2> QED BY <1>1, <2>1
<1>3. Older(ages) \in [1..Len(ages) -> 0..Minute]
  BY <1>1, <1>2 DEF Older
<1> QED BY <1>1, <1>3, FunctionIsSequence DEF Older

\* Where old starts come first, the loop drops exactly these.
LEMMA DropsTheOld ==
  ASSUME NEW ages \in Seq(0..Minute), NEW k \in Nat, NEW l \in Nat, Len(ages) = k + l,
         \A i \in 1..k : ages[i] = Minute, \A i \in 1..l : ages[k + i] < Minute
  PROVE  DropOld(ages) = [i \in 1..l |-> ages[k + i]]
<1> DEFINE Stops(n) == /\ \A i \in 1..n : ages[i] >= Minute
                       /\ n < Len(ages) => ages[n + 1] < Minute
<1>1. Minute \in Nat
  BY LimiterAssumption
<1>2. Stops(k) /\ k \in 0..Len(ages)
  <2>1. \A i \in 1..k : ages[i] >= Minute
    BY <1>1
  <2>2. k < Len(ages) => 1 \in 1..l
    OBVIOUS
  <2> QED BY <2>1, <2>2
<1>3. ASSUME NEW n \in 0..Len(ages), Stops(n) PROVE n = k
  <2>1. ASSUME n < k PROVE FALSE
    <3>1. n + 1 \in 1..k /\ n < Len(ages)
      BY <2>1
    <3> QED BY <1>1, <1>3, <3>1
  <2>2. ASSUME n > k PROVE FALSE
    <3>1. k + 1 \in 1..n /\ 1 \in 1..l
      BY <2>2
    <3>2. ages[k + 1] < Minute /\ ages[k + 1] >= Minute
      BY <1>3, <3>1
    <3>3. ages[k + 1] \in Nat
      BY <1>1, <3>1, <2>2
    <3> QED BY <1>1, <3>2, <3>3
  <2> QED BY <2>1, <2>2
<1> HIDE DEF Stops
<1>4. (CHOOSE n \in 0..Len(ages) : Stops(n)) = k
  BY <1>2, <1>3
<1>5. DropOld(ages) = SubSeq(ages, k + 1, Len(ages))
  BY <1>4 DEF DropOld, Stops
<1>6. SubSeq(ages, k + 1, k + l) = [i \in 1..l |-> ages[k + i]]
  <2>1. SubSeq(ages, k + 1, k + l) = [i \in 1..l |-> ages[i + (k + 1) - 1]]
    OBVIOUS
  <2>2. \A i \in 1..l : i + (k + 1) - 1 = k + i
    OBVIOUS
  <2> QED BY <2>1, <2>2
<1> QED BY <1>5, <1>6

LEMMA RemembersTheMinute == LimiterInv => Remembered = history
<1> SUFFICES ASSUME LimiterInv PROVE Remembered = history
  OBVIOUS
<1> DEFINE k == Forgotten
           l == Len(history)
<1>1. /\ requestStarts \in Seq(0..Minute) /\ history \in Seq(0..Minute - 1)
      /\ l \in Nat /\ k \in Nat /\ Len(requestStarts) = k + l
      /\ \A i \in 1..k : requestStarts[i] = Minute
      /\ \A i \in 1..l : history[i] = requestStarts[k + i]
  BY LimiterAssumption DEF LimiterInv, Remembers, Forgotten
<1>2. \A i \in 1..l : history[i] < Minute
  BY <1>1, LimiterAssumption
<1> HIDE DEF k, l
<1>3. \A i \in 1..l : requestStarts[k + i] < Minute
  BY <1>1, <1>2
<1>4. Remembered = [i \in 1..l |-> requestStarts[k + i]]
  BY <1>1, <1>3, DropsTheOld DEF Remembered
<1>5. history = [i \in 1..l |-> history[i]]
  BY <1>1 DEF l
<1> QED BY <1>1, <1>4, <1>5

\* A wait is at most a minute, and none is left only when the next start keeps
\* the rate.
LEMMA NoWaitIsAPermit ==
  ASSUME NEW starts \in Seq(0..Minute - 1)
  PROVE  /\ Wait(starts) \in 0..Minute
         /\ Wait(starts) <= 0 =>
              /\ Len(starts) < MaxPerMinute
              /\ starts # <<>> => starts[Len(starts)] >= Interval
<1> DEFINE I == IntervalWait(starts)
           M == MinuteWait(starts)
           Fits(w) == I <= w /\ M <= w /\ w \in {0, I, M}
<1>1. /\ Len(starts) \in Nat /\ Minute \in Nat \ {0} /\ Interval \in 1..Minute
      /\ MaxPerMinute \in Nat \ {0}
      /\ \A i \in 1..Len(starts) : starts[i] \in 0..Minute - 1
      /\ starts # <<>> <=> Len(starts) > 0
  BY LimiterAssumption
<1>2. I \in Int /\ I <= Minute /\ (starts # <<>> => I = Interval - starts[Len(starts)])
  BY <1>1 DEF IntervalWait
<1>3. /\ M \in 0..Minute /\ (Len(starts) >= MaxPerMinute => M > 0)
  <2>1. CASE Len(starts) < MaxPerMinute
    BY <1>1, <2>1 DEF MinuteWait
  <2>2. CASE ~(Len(starts) < MaxPerMinute)
    <3>1. Len(starts) - MaxPerMinute + 1 \in 1..Len(starts)
      BY <1>1, <2>2
    <3>2. starts[Len(starts) - MaxPerMinute + 1] \in 0..Minute - 1
      BY <1>1, <3>1
    <3>3. M = Minute - starts[Len(starts) - MaxPerMinute + 1]
      BY <2>2 DEF MinuteWait
    <3> QED BY <1>1, <3>2, <3>3
  <2> QED BY <2>1, <2>2
<1> HIDE DEF I, M
<1>4. \E w \in 0..Minute : Fits(w)
  <2>1. CASE I <= M
    BY <1>1, <1>2, <1>3, <2>1
  <2>2. CASE ~(I <= M)
    BY <1>1, <1>2, <1>3, <2>2
  <2> QED BY <2>1, <2>2
<1>5. Wait(starts) = CHOOSE w \in 0..Minute : Fits(w)
  BY DEF Wait, I, M
<1>6. Wait(starts) \in 0..Minute /\ Fits(Wait(starts))
  BY <1>4, <1>5
<1>7. ASSUME Wait(starts) <= 0
      PROVE  Len(starts) < MaxPerMinute /\ (starts # <<>> => starts[Len(starts)] >= Interval)
  <2>1. I <= 0 /\ M <= 0
    BY <1>1, <1>2, <1>3, <1>6, <1>7
  <2>2. Len(starts) < MaxPerMinute
    BY <1>1, <1>3, <2>1
  <2>3. ASSUME starts # <<>> PROVE starts[Len(starts)] >= Interval
    BY <1>1, <1>2, <2>1, <2>3
  <2> QED BY <2>2, <2>3
<1> QED BY <1>6, <1>7

LEMMA LimiterInitially == LimiterInit => LimiterInv
  BY LimiterAssumption DEF LimiterInit, LimiterInv, Remembers, Forgotten, PermitHolds, RateIsKept

LEMMA StartInv == LimiterInv /\ StartRequest => LimiterInv'
<1> SUFFICES ASSUME LimiterInv, StartRequest PROVE LimiterInv'
  OBVIOUS
<1>1. /\ requestStarts = history /\ Len(history) < MaxPerMinute
      /\ history # <<>> => history[Len(history)] >= Interval
      /\ history \in Seq(0..Minute - 1) /\ Len(history) \in Nat
      /\ Minute \in Nat \ {0} /\ Interval \in 1..Minute /\ MaxPerMinute \in Nat
      /\ \A i \in 1..Len(history) : history[i] \in Nat
      /\ \A i, j \in 1..Len(history) : i < j => history[i] >= history[j] + Interval
  BY LimiterAssumption DEF LimiterInv, PermitHolds, StartRequest, RateIsKept
<1>2. requestStarts' = history' /\ history' = Append(history, 0) /\ turn' = "running"
  BY <1>1 DEF StartRequest
<1>3. 0 \in 0..Minute - 1 /\ 0..Minute - 1 \subseteq 0..Minute
  BY <1>1
<1>4. /\ history' \in Seq(0..Minute - 1) /\ history' \in Seq(0..Minute)
      /\ Len(history') = Len(history) + 1
      /\ \A i \in 1..Len(history) : history'[i] = history[i]
      /\ history'[Len(history) + 1] = 0
  BY <1>1, <1>2, <1>3
<1>5. Remembers'
  BY <1>1, <1>2, <1>4 DEF Remembers, Forgotten
<1>6. RateIsKept'
  <2>1. Len(history') <= MaxPerMinute /\ DOMAIN history' = 1..Len(history) + 1
    BY <1>1, <1>4
  <2>2. ASSUME NEW i \in 1..Len(history) PROVE history[i] >= Interval
    <3>1. CASE i = Len(history)
      BY <1>1, <3>1
    <3>2. CASE i < Len(history)
      BY <1>1, <3>2
    <3> QED BY <1>1, <3>1, <3>2
  <2>3. ASSUME NEW i \in 1..Len(history) + 1, NEW j \in 1..Len(history) + 1, i < j
        PROVE  history'[i] >= history'[j] + Interval
    <3>1. i \in 1..Len(history) /\ history'[i] = history[i]
      BY <1>1, <1>4, <2>3
    <3>2. CASE j = Len(history) + 1
      <4>1. history'[j] = 0 /\ history'[i] >= Interval
        BY <1>4, <2>2, <3>1, <3>2
      <4> QED BY <1>1, <4>1
    <3>3. CASE j <= Len(history)
      <4>1. j \in 1..Len(history) /\ history'[j] = history[j]
        BY <1>1, <1>4, <3>3
      <4>2. history[i] >= history[j] + Interval
        BY <1>1, <2>3, <3>1, <4>1
      <4> QED BY <3>1, <4>1, <4>2
    <3> QED BY <1>1, <3>2, <3>3
  <2> QED BY <2>1, <2>3 DEF RateIsKept
<1> QED BY <1>2, <1>4, <1>5, <1>6 DEF LimiterInv, PermitHolds

\* Only the oldest start can grow too old in a tick.
LEMMA OneGrowsOld ==
  ASSUME LimiterInv
  PROVE  \E n \in Nat :
           /\ n <= Len(history) /\ \A i \in 1..n : history[i] + 1 = Minute
           /\ \A i \in 1..Len(history) - n : history[n + i] + 1 < Minute
<1> DEFINE L == Len(history)
<1>1. /\ L \in Nat /\ Minute \in Nat \ {0} /\ Interval \in Nat \ {0}
      /\ \A i \in 1..L : history[i] \in 0..Minute - 1
  BY LimiterAssumption DEF LimiterInv
<1>2. \A i, j \in 1..L : i < j => history[i] >= history[j] + Interval
  BY DEF LimiterInv, RateIsKept
<1> HIDE DEF L
<1>3. ASSUME NEW i \in 1..L, i > 1 PROVE history[i] + 1 < Minute
  <2>1. 1 \in 1..L /\ history[1] >= history[i] + Interval
    BY <1>1, <1>2, <1>3
  <2>2. history[1] \in 0..Minute - 1 /\ history[i] \in 0..Minute - 1
    BY <1>1, <2>1
  <2> QED BY <1>1, <2>1, <2>2
<1>4. CASE L > 0 /\ history[1] + 1 = Minute
  <2>1. \A i \in 1..L - 1 : 1 + i \in 1..L /\ 1 + i > 1
    BY <1>1
  <2>2. 1 \in Nat /\ 1 <= L /\ \A i \in 1..1 : history[i] + 1 = Minute
    BY <1>1, <1>4
  <2>3. \A i \in 1..L - 1 : history[1 + i] + 1 < Minute
    BY <1>3, <2>1
  <2> QED BY <2>2, <2>3 DEF L
<1>5. CASE ~(L > 0 /\ history[1] + 1 = Minute)
  <2>1. ASSUME NEW i \in 1..L PROVE history[i] + 1 < Minute
    <3>1. history[i] \in 0..Minute - 1 /\ 1 \in 1..L
      BY <1>1
    <3>2. CASE i = 1
      BY <1>1, <1>5, <3>1, <3>2
    <3> QED BY <1>1, <1>3, <3>2
  <2>2. \A i \in 1..L - 0 : 0 + i \in 1..L /\ 0 + i = i
    BY <1>1
  <2>3. \A i \in 1..L - 0 : history[0 + i] + 1 < Minute
    BY <2>1, <2>2
  <2>4. 0 \in Nat /\ 0 <= L /\ \A i \in 1..0 : history[i] + 1 = Minute
    BY <1>1
  <2> QED BY <2>3, <2>4 DEF L
<1> QED BY <1>4, <1>5

LEMMA TickInv == LimiterInv /\ TickPasses => LimiterInv'
<1> SUFFICES ASSUME LimiterInv, TickPasses PROVE LimiterInv'
  OBVIOUS
<1> DEFINE L == Len(history)
           k == Forgotten
           r == Older(requestStarts)
           h == Older(history)
<1>1. PICK n \in Nat : /\ n <= L /\ \A i \in 1..n : history[i] + 1 = Minute
                       /\ \A i \in 1..L - n : history[n + i] + 1 < Minute
  BY OneGrowsOld
<1>2. /\ requestStarts \in Seq(0..Minute) /\ history \in Seq(0..Minute - 1)
      /\ L \in Nat /\ k \in Nat /\ Len(requestStarts) = k + L
  BY LimiterAssumption DEF LimiterInv, Remembers, Forgotten
<1>3. \A i \in 1..L : history[i] \in 0..Minute - 1
  BY <1>2, ElementOfSeq
<1>4. Minute \in Nat \ {0} /\ Interval \in 1..Minute /\ MaxPerMinute \in Nat
  BY LimiterAssumption
<1>5. history \in Seq(0..Minute)
  <2>1. \A i \in 1..L : history[i] \in 0..Minute
    BY <1>3, <1>4
  <2>2. history \in [1..L -> 0..Minute]
    BY <1>2, <2>1
  <2> QED BY <1>2, <2>2, FunctionIsSequence
<1>6. /\ h \in Seq(0..Minute) /\ Len(h) = L
      /\ \A i \in 1..L : h[i] = history[i] + 1
  <2>1. \A i \in 1..L : history[i] < Minute
    BY <1>3, <1>4
  <2> QED BY <1>5, <2>1, OlderFacts
<1>7. r \in Seq(0..Minute) /\ Len(r) = k + L
  BY <1>2, OlderFacts
<1>8. \A i \in 1..k + L :
         r[i] = IF requestStarts[i] < Minute THEN requestStarts[i] + 1 ELSE Minute
  BY <1>2, OlderFacts
<1>9. /\ \A i \in 1..k : requestStarts[i] = Minute
      /\ \A i \in 1..L : history[i] = requestStarts[k + i]
  BY DEF LimiterInv, Remembers
<1>10. requestStarts' = r /\ turn' # "start" /\ history' = DropOld(h)
  BY DEF TickPasses
<1> HIDE DEF L, k, r, h
<1> DEFINE s == [i \in 1..L - n |-> h[n + i]]
<1>11. history' = s
  <2>1. \A i \in 1..n : i \in 1..L
    BY <1>1, <1>2
  <2>2. \A i \in 1..n : h[i] = Minute
    BY <1>1, <1>6, <2>1
  <2>3. \A i \in 1..L - n : n + i \in 1..L
    BY <1>1, <1>2
  <2>4. \A i \in 1..L - n : h[n + i] < Minute
    BY <1>1, <1>6, <2>3
  <2>5. L - n \in Nat /\ Len(h) = n + (L - n)
    BY <1>1, <1>2, <1>6
  <2> QED BY <1>6, <1>10, <2>2, <2>4, <2>5, DropsTheOld
<1>12. ASSUME NEW i \in 1..L - n
       PROVE  /\ n + i \in 1..L /\ s[i] = h[n + i] /\ s[i] = history[n + i] + 1
              /\ s[i] \in 0..Minute - 1
  <2>1. n + i \in 1..L
    BY <1>1, <1>2
  <2>2. s[i] = h[n + i] /\ s[i] = history[n + i] + 1
    BY <1>6, <2>1
  <2>3. history[n + i] \in 0..Minute - 1 /\ history[n + i] + 1 < Minute
    BY <1>1, <1>3, <2>1
  <2>4. s[i] \in 0..Minute - 1
    BY <1>4, <2>2, <2>3
  <2> QED BY <2>1, <2>2, <2>4
<1>13. s \in Seq(0..Minute - 1) /\ Len(s) = L - n /\ DOMAIN s = 1..L - n
  <2>1. L - n \in Nat
    BY <1>1, <1>2
  <2>2. s \in [1..L - n -> 0..Minute - 1]
    BY <1>12
  <2> HIDE DEF s
  <2> QED BY <2>1, <2>2, FunctionIsSequence
<1> HIDE DEF s
<1>14. Forgotten' = k + n
  <2>1. Forgotten' = Len(r) - Len(s)
    BY <1>10, <1>11 DEF Forgotten
  <2> QED BY <1>1, <1>2, <1>7, <1>13, <2>1
<1>15. Remembers'
  <2>1. Len(s) <= Len(r)
    BY <1>1, <1>2, <1>7, <1>13
  <2>2. ASSUME NEW i \in 1..L PROVE r[k + i] = h[i]
    <3>1. k + i \in 1..k + L
      BY <1>2
    <3>2. requestStarts[k + i] = history[i] /\ history[i] \in 0..Minute - 1
      BY <1>3, <1>9
    <3>3. r[k + i] = history[i] + 1
      BY <1>4, <1>8, <3>1, <3>2
    <3> QED BY <1>6, <3>3
  <2>3. ASSUME NEW i \in 1..k + n PROVE r[i] = Minute
    <3>1. CASE i <= k
      <4>1. i \in 1..k /\ i \in 1..k + L
        BY <1>2, <3>1
      <4> QED BY <1>4, <1>8, <1>9, <4>1
    <3>2. CASE i > k
      <4>1. i - k \in 1..n /\ i - k \in 1..L /\ k + (i - k) = i
        BY <1>1, <1>2, <3>2
      <4>2. h[i - k] = Minute
        BY <1>1, <1>6, <4>1
      <4> QED BY <2>2, <4>1, <4>2
    <3> QED BY <1>2, <3>1, <3>2
  <2>4. ASSUME NEW i \in 1..L - n PROVE s[i] = r[k + n + i]
    <3>1. n + i \in 1..L /\ k + (n + i) = k + n + i
      BY <1>1, <1>2
    <3> QED BY <1>12, <2>2, <3>1
  <2> QED BY <1>10, <1>11, <1>13, <1>14, <2>1, <2>3, <2>4 DEF Remembers
<1>16. RateIsKept'
  <2>1. L <= MaxPerMinute
    BY DEF LimiterInv, RateIsKept, L
  <2>2. ASSUME NEW i \in 1..L - n, NEW j \in 1..L - n, i < j
        PROVE  s[i] >= s[j] + Interval
    <3>1. n + i \in 1..L /\ n + j \in 1..L /\ n + i < n + j
      BY <1>12, <2>2
    <3>2. history[n + i] >= history[n + j] + Interval
      BY <1>2, <3>1 DEF LimiterInv, RateIsKept, L
    <3>3. history[n + i] \in Nat /\ history[n + j] \in Nat
      BY <1>3, <1>4, <3>1
    <3>4. s[i] = history[n + i] + 1 /\ s[j] = history[n + j] + 1
      BY <1>12
    <3> QED BY ONLY <1>4, <3>2, <3>3, <3>4
  <2>3. Len(s) <= MaxPerMinute
    BY <1>1, <1>2, <1>4, <1>13, <2>1
  <2> QED BY <1>11, <1>13, <2>2, <2>3 DEF RateIsKept
<1>17. PermitHolds'
  BY <1>10 DEF PermitHolds
<1> QED BY <1>7, <1>10, <1>11, <1>13, <1>15, <1>16, <1>17 DEF LimiterInv

LEMMA LimiterStep == LimiterInv /\ [LimiterNext]_limiterVars => LimiterInv'
<1> SUFFICES ASSUME LimiterInv, [LimiterNext]_limiterVars PROVE LimiterInv'
  OBVIOUS
<1>1. ASSUME UNCHANGED <<requestStarts, history>>, turn' = "start" => turn = "start"
      PROVE  LimiterInv'
  BY <1>1 DEF LimiterInv, Remembers, Forgotten, PermitHolds, RateIsKept
<1>2. CASE AskPermit
  <2>1. requestStarts' = history /\ history' = history
    BY <1>2, RemembersTheMinute DEF AskPermit
  <2>2. turn' = "start" => Wait(history) <= 0
    BY <1>2, RemembersTheMinute DEF AskPermit
  <2>3. PermitHolds'
    <3>1. ASSUME turn' = "start"
          PROVE  /\ Len(history) < MaxPerMinute
                 /\ history # <<>> => history[Len(history)] >= Interval
      <4>1. history \in Seq(0..Minute - 1) /\ Wait(history) <= 0
        BY <2>2, <3>1 DEF LimiterInv
      <4> QED BY <4>1, NoWaitIsAPermit
    <3> QED BY <2>1, <3>1 DEF PermitHolds
  <2>4. history \in Seq(0..Minute) /\ Len(history) \in Nat
    BY LimiterAssumption DEF LimiterInv
  <2>5. Remembers'
    BY <2>1, <2>4 DEF Remembers, Forgotten
  <2> QED BY <2>1, <2>3, <2>4, <2>5 DEF LimiterInv, RateIsKept
<1>3. ASSUME NEW c \in Callers, Accept(c) PROVE LimiterInv'
  BY <1>1, <1>3 DEF Accept
<1>4. CASE Wake
  BY <1>1, <1>4 DEF Wake, Woken
<1>5. CASE FinishRequest
  BY <1>1, <1>5 DEF FinishRequest
<1>6. CASE UNCHANGED limiterVars
  BY <1>1, <1>6 DEF limiterVars
<1> QED BY <1>2, <1>3, <1>4, <1>5, <1>6, StartInv, TickInv DEF LimiterNext

\* Whatever the timers do, no minute sees more starts than the provider allows,
\* and two starts are an interval apart.
THEOREM RateIsAlwaysKept == LimiterSpec => []RateIsKept
<1>1. LimiterInv => RateIsKept
  BY DEF LimiterInv
<1> QED BY <1>1, LimiterInitially, LimiterStep, PTL DEF LimiterSpec

\* The queue holds what was accepted and not finished, and its head is the one
\* whose turn it is.
QueueIsCounted ==
  /\ chain \in Seq(Callers) /\ pending = Len(chain) /\ Len(chain) <= MaxPending
  /\ turn \in {"permit", "sleep", "start", "running"} /\ timer \in 0..Minute
  /\ turn # "permit" => chain # <<>>

LEMMA QueueBegins == LimiterInit => QueueIsCounted
BY LimiterAssumption DEF LimiterInit, QueueIsCounted

LEMMA QueueStaysCounted ==
  LimiterInv /\ QueueIsCounted /\ [LimiterNext]_limiterVars => QueueIsCounted'
<1> SUFFICES ASSUME LimiterInv, QueueIsCounted, [LimiterNext]_limiterVars PROVE QueueIsCounted'
  OBVIOUS
<1>1. chain \in Seq(Callers) /\ Len(chain) \in Nat /\ pending = Len(chain)
  BY DEF QueueIsCounted
<1>2. ASSUME NEW c \in Callers, Accept(c) PROVE QueueIsCounted'
  <2>1. chain' = Append(chain, c) /\ pending' = pending + 1 /\ pending < MaxPending
    BY <1>2 DEF Accept
  <2>2. chain' \in Seq(Callers) /\ Len(chain') = Len(chain) + 1 /\ chain' # <<>>
    BY <1>1, <2>1
  <2>3. pending' = Len(chain') /\ Len(chain') <= MaxPending
    BY <1>1, <2>1, <2>2, LimiterAssumption
  <2> QED BY <1>2, <2>2, <2>3 DEF Accept, QueueIsCounted
<1>3. CASE AskPermit
  <2>1. turn' \in {"start", "sleep"} /\ timer' \in 0..Minute
    <3>1. Remembered = history /\ history \in Seq(0..Minute - 1)
      BY RemembersTheMinute DEF LimiterInv
    <3>2. Wait(Remembered) \in 0..Minute
      BY <3>1, NoWaitIsAPermit
    <3> QED BY <1>3, <3>2 DEF AskPermit, QueueIsCounted
  <2> QED BY <1>3, <2>1 DEF AskPermit, QueueIsCounted
<1>4. CASE Wake
  BY <1>4, LimiterAssumption DEF Wake, Woken, QueueIsCounted
<1>5. CASE StartRequest
  BY <1>5 DEF StartRequest, QueueIsCounted
<1>6. CASE FinishRequest
  <2>1. chain # <<>> /\ chain' = Tail(chain) /\ pending' = pending - 1
    BY <1>6 DEF FinishRequest, Released, QueueIsCounted
  <2>2. chain' \in Seq(Callers) /\ Len(chain') = Len(chain) - 1
    BY <1>1, <2>1
  <2>3. pending' = Len(chain') /\ Len(chain') <= MaxPending
    BY <1>1, <2>1, <2>2, LimiterAssumption DEF QueueIsCounted
  <2> QED BY <1>6, <2>2, <2>3 DEF FinishRequest, QueueIsCounted
<1>7. CASE TickPasses
  <2>1. timer' \in 0..Minute
    BY <1>7, LimiterAssumption DEF TickPasses, QueueIsCounted
  <2> QED BY <1>7, <2>1 DEF TickPasses, QueueIsCounted
<1>8. CASE UNCHANGED limiterVars
  BY <1>8 DEF limiterVars, QueueIsCounted
<1> QED BY <1>2, <1>3, <1>4, <1>5, <1>6, <1>7, <1>8 DEF LimiterNext

\* The queue never holds more than MaxPending requests, and the counter that
\* refuses the next one is the number of those that wait or run.
THEOREM LimiterIsTyped == LimiterSpec => []LimiterTypeOK
<1>1. LimiterInv /\ QueueIsCounted => LimiterTypeOK
  BY DEF LimiterInv, QueueIsCounted, LimiterTypeOK
<1> QED BY <1>1, LimiterInitially, LimiterStep, QueueBegins, QueueStaysCounted, PTL
       DEF LimiterSpec

-----------------------------------------------------------------------------
(* OfferSweep.                                                             *)

OffersTyped ==
  offers \in [SweptMatches ->
                [active : BOOLEAN, due : BOOLEAN, waits : BOOLEAN, over : BOOLEAN, made : Nat]]

SweepInv ==
  /\ SweepTypeOK
  /\ OffersTyped
  /\ \A s \in Sweepers : IsFiniteSet(tick[s].todo)

LEMMA UpToIsFinite ==
  ASSUME NEW m \in SweptMatches
  PROVE  IsFiniteSet(UpTo(m)) /\ Cardinality(UpTo(m)) \in Nat
<1>1. UpTo(m) \in SUBSET Nat /\ m \in Nat /\ \A j \in UpTo(m) : j <= m
  BY SweepAssumption DEF UpTo
<1>2. IsFiniteSet(UpTo(m))
  BY <1>1, FS_BoundedSetOfNaturals
<1> QED BY <1>2, FS_CardinalityType

\* No more matches are listed than the limit: each counts those before it.
LEMMA ListedIsBounded ==
  /\ Listed \subseteq SweptMatches /\ IsFiniteSet(Listed)
  /\ Cardinality(Listed) <= SweepLimit
<1> DEFINE rank(m) == Cardinality(UpTo(m))
           room == {SweepLimit - rank(m) : m \in Listed}
           less == OpToRel(<, Nat)
<1>1. SweptMatches \subseteq Nat /\ SweepLimit \in Nat
  BY SweepAssumption
<1>2. Listed \subseteq SweptMatches
  BY DEF Listed
<1>3. \A m \in Listed : rank(m) \in Nat /\ rank(m) <= SweepLimit
  BY UpToIsFinite DEF Listed
<1>4. CASE Listed = {}
  BY <1>1, <1>4, FS_EmptySet
<1>5. CASE Listed # {}
  <2>1. room \subseteq Nat /\ room # {}
    BY <1>1, <1>3, <1>5
  <2>2. IsWellFoundedOn(less, Nat)
    BY NatLessThanWellFounded, Zenon
  <2> HIDE DEF less, room
  <2>3. PICK v \in room : \A w \in room : ~(<<w, v>> \in less)
    BY <2>1, <2>2, WFMin
  <2>4. PICK x \in Listed : v = SweepLimit - rank(x)
    BY DEF room
  <2>5. ASSUME NEW m \in Listed PROVE rank(m) <= rank(x)
    <3>1. SweepLimit - rank(m) \in room
      BY DEF room
    <3>2. ASSUME SweepLimit - rank(m) < v PROVE FALSE
      <4>1. <<SweepLimit - rank(m), v>> \in less
        BY <2>1, <3>1, <3>2, Zenon DEF less, OpToRel
      <4> QED BY <2>3, <3>1, <4>1
    <3>3. rank(m) \in Nat /\ rank(x) \in Nat
      BY <1>3
    <3> HIDE DEF rank
    <3> QED BY <1>1, <2>4, <3>2, <3>3
  <2>6. ASSUME NEW m \in Listed PROVE m \in UpTo(x)
    <3>1. m \in Nat /\ x \in Nat /\ x \in SweptMatches /\ m \in SweptMatches /\ IsDue(m)
      BY <1>1, <1>2 DEF Listed
    <3>2. ASSUME x < m PROVE FALSE
      <4>1. UpTo(x) \in SUBSET UpTo(m) /\ m \in UpTo(m) /\ m \notin UpTo(x)
        <5>1. ASSUME NEW j \in UpTo(x) PROVE j \in UpTo(m)
          <6>1. j \in SweptMatches /\ IsDue(j) /\ j <= x /\ j \in Nat
            BY <1>1 DEF UpTo
          <6>2. j <= m
            BY ONLY <3>1, <3>2, <6>1
          <6> QED BY <6>1, <6>2 DEF UpTo
        <5>2. m <= m /\ ~(m <= x)
          BY ONLY <3>1, <3>2
        <5> QED BY <3>1, <5>1, <5>2 DEF UpTo
      <4>2. rank(x) <= rank(m) /\ rank(x) # rank(m)
        BY <3>1, <4>1, UpToIsFinite, FS_Subset
      <4>3. rank(m) <= rank(x) /\ rank(m) \in Nat /\ rank(x) \in Nat
        BY <1>3, <2>5
      <4> HIDE DEF rank
      <4> QED BY <4>2, <4>3
    <3> QED BY <3>1, <3>2 DEF UpTo
  <2>7. IsFiniteSet(Listed) /\ Cardinality(Listed) <= rank(x)
    <3>1. Listed \in SUBSET UpTo(x) /\ IsFiniteSet(UpTo(x))
      BY <1>2, <2>6, UpToIsFinite
    <3> QED BY <3>1, FS_Subset
  <2>8. Cardinality(Listed) \in Nat /\ rank(x) \in Nat /\ rank(x) <= SweepLimit
    BY <1>3, <2>7, FS_CardinalityType
  <2> HIDE DEF rank
  <2> QED BY <1>1, <1>2, <2>7, <2>8
<1> QED BY <1>4, <1>5

LEMMA SweepInitially == SweepInit => SweepInv
<1> SUFFICES ASSUME SweepInit PROVE SweepInv
  OBVIOUS
<1>1. \A m \in SweptMatches : MaxOffers[m] \in Nat
  BY SweepAssumption
<1>2. OffersTyped /\ \A m \in SweptMatches : offers[m] \in SweptOffer(m)
  BY <1>1 DEF SweepInit, OffersTyped, SweptOffer
<1>3. \A m \in SweptMatches : ~offers[m].due /\ ~offers[m].waits
  BY DEF SweepInit
<1>4. \A s \in Sweepers : tick[s] = [todo |-> {}, over |-> {}]
  BY DEF SweepInit, NoTick
<1>5. tick \in [Sweepers -> [todo : SUBSET SweptMatches, over : SUBSET SweptMatches]]
  BY DEF SweepInit, NoTick
<1>6. \A s \in Sweepers : /\ tick[s].over \subseteq tick[s].todo /\ IsFiniteSet(tick[s].todo)
                          /\ Cardinality(tick[s].todo) <= SweepLimit
  BY <1>4, FS_EmptySet, SweepAssumption
<1> QED BY <1>2, <1>3, <1>5, <1>6 DEF SweepInv, SweepTypeOK

\* The two halves of the invariant: what the ticks are, and what the offers are.
TicksSound ==
  /\ tick \in [Sweepers -> [todo : SUBSET SweptMatches, over : SUBSET SweptMatches]]
  /\ \A s \in Sweepers : /\ tick[s].over \subseteq tick[s].todo
                         /\ Cardinality(tick[s].todo) <= SweepLimit
                         /\ IsFiniteSet(tick[s].todo)

OffersSound ==
  /\ OffersTyped
  /\ \A m \in SweptMatches :
       /\ offers[m] \in SweptOffer(m)
       /\ offers[m].due \/ offers[m].waits => offers[m].active

LEMMA TickMoves ==
  ASSUME TicksSound, NEW s \in Sweepers, NEW todo \in SUBSET SweptMatches,
         NEW over \in SUBSET todo, IsFiniteSet(todo), Cardinality(todo) <= SweepLimit,
         tick' = [tick EXCEPT ![s] = [todo |-> todo, over |-> over]]
  PROVE  TicksSound'
<1>1. tick' \in [Sweepers -> [todo : SUBSET SweptMatches, over : SUBSET SweptMatches]]
  BY DEF TicksSound
<1>2. \A r \in Sweepers :
         tick'[r] = IF r = s THEN [todo |-> todo, over |-> over] ELSE tick[r]
  BY DEF TicksSound
<1> QED BY <1>1, <1>2 DEF TicksSound

LEMMA EndTickSound ==
  ASSUME TicksSound, NEW s \in Sweepers, EndTick(s)
  PROVE  TicksSound'
<1>1. IsFiniteSet({}) /\ Cardinality({}) <= SweepLimit
  BY FS_EmptySet, SweepAssumption
<1>2. {} \in SUBSET SweptMatches /\ {} \in SUBSET {}
  OBVIOUS
<1>3. tick' = [tick EXCEPT ![s] = [todo |-> {}, over |-> {}]]
  BY DEF EndTick, NoTick
<1> QED BY ONLY <1>1, <1>2, <1>3, TicksSound, s \in Sweepers, TickMoves

LEMMA PassBySound ==
  ASSUME TicksSound, NEW s \in Sweepers, NEW m \in SweptMatches, PassBy(s, m)
  PROVE  TicksSound'
<1> DEFINE todo == tick[s].todo \ {m}
           over == tick[s].over \ {m}
<1>1. todo \in SUBSET SweptMatches /\ over \in SUBSET todo /\ IsFiniteSet(tick[s].todo)
      /\ Cardinality(tick[s].todo) <= SweepLimit
  BY DEF TicksSound
<1>2. todo \in SUBSET tick[s].todo
  OBVIOUS
<1>3. IsFiniteSet(todo) /\ Cardinality(todo) <= Cardinality(tick[s].todo)
  BY <1>1, <1>2, FS_Subset
<1>4. Cardinality(todo) \in Nat /\ Cardinality(tick[s].todo) \in Nat /\ SweepLimit \in Nat
  BY <1>1, <1>3, FS_CardinalityType, SweepAssumption
<1>5. tick' = [tick EXCEPT ![s] = [todo |-> todo, over |-> over]]
  BY DEF PassBy, TicksSound
<1> HIDE DEF todo, over
<1>6. Cardinality(todo) <= SweepLimit
  BY <1>1, <1>3, <1>4
<1> QED BY <1>1, <1>3, <1>5, <1>6, TickMoves

\* An offer that changes keeps its shape.
LEMMA OfferMoves ==
  ASSUME OffersSound, NEW m \in SweptMatches, NEW row \in SweptOffer(m),
         row.due \/ row.waits => row.active,
         offers' = [offers EXCEPT ![m] = row]
  PROVE  OffersSound'
<1>1. \A j \in SweptMatches : offers'[j] = IF j = m THEN row ELSE offers[j]
  BY DEF OffersSound, OffersTyped
<1>2. row \in [active : BOOLEAN, due : BOOLEAN, waits : BOOLEAN, over : BOOLEAN, made : Nat]
  BY SweepAssumption DEF SweptOffer
<1>3. OffersTyped'
  BY <1>2 DEF OffersSound, OffersTyped
<1>4. \A j \in SweptMatches : SweptOffer(j)' = SweptOffer(j)
  BY DEF SweptOffer
<1> QED BY <1>1, <1>3, <1>4 DEF OffersSound

LEMMA HandlersSound ==
  ASSUME OffersSound, NEW m \in SweptMatches,
         \/ Close(m) \/ OfferNext(m) \/ EntryIsClosed(m) \/ OfferRunsOut(m)
         \/ SweptMatchStarts(m)
  PROVE  OffersSound'
<1>1. offers[m] \in SweptOffer(m) /\ (offers[m].due \/ offers[m].waits => offers[m].active)
      /\ MaxOffers[m] \in Nat /\ m \in DOMAIN offers
  BY SweepAssumption DEF OffersSound, OffersTyped
<1>2. CASE Close(m)
  <2> DEFINE row == [offers[m] EXCEPT !.active = FALSE, !.due = FALSE, !.waits = FALSE]
  <2>1. row \in SweptOffer(m) /\ (row.due \/ row.waits => row.active)
    BY <1>1 DEF SweptOffer
  <2>2. offers' = [offers EXCEPT ![m] = row]
    BY <1>2 DEF Close, OffersSound, OffersTyped
  <2> HIDE DEF row
  <2> QED BY <2>1, <2>2, OfferMoves
<1>3. CASE OfferNext(m)
  <2> DEFINE row == [offers[m] EXCEPT !.active = TRUE, !.due = FALSE, !.waits = TRUE,
                                      !.made = @ + 1]
  <2>1. row \in SweptOffer(m) /\ (row.due \/ row.waits => row.active)
    <3>1. offers[m].made \in 0..MaxOffers[m] /\ offers[m].made < MaxOffers[m]
      BY <1>1, <1>3 DEF SweptOffer, OfferNext
    <3>2. offers[m].made + 1 \in 0..MaxOffers[m]
      BY <1>1, <3>1
    <3> QED BY <1>1, <3>2 DEF SweptOffer
  <2>2. offers' = [offers EXCEPT ![m] = row]
    BY <1>3 DEF OfferNext, OffersSound, OffersTyped
  <2> HIDE DEF row
  <2> QED BY <2>1, <2>2, OfferMoves
<1>4. CASE EntryIsClosed(m)
  <2> DEFINE row == [offers[m] EXCEPT !.waits = FALSE]
  <2>1. row \in SweptOffer(m) /\ (row.due \/ row.waits => row.active)
    BY <1>1 DEF SweptOffer
  <2>2. offers' = [offers EXCEPT ![m] = row]
    BY <1>4 DEF EntryIsClosed, OffersSound, OffersTyped
  <2> HIDE DEF row
  <2> QED BY <2>1, <2>2, OfferMoves
<1>5. CASE OfferRunsOut(m)
  <2> DEFINE row == [offers[m] EXCEPT !.due = TRUE]
  <2>1. row \in SweptOffer(m) /\ (row.due \/ row.waits => row.active)
    BY <1>1, <1>5 DEF SweptOffer, OfferRunsOut
  <2>2. offers' = [offers EXCEPT ![m] = row]
    BY <1>5 DEF OfferRunsOut, OffersSound, OffersTyped
  <2> HIDE DEF row
  <2> QED BY <2>1, <2>2, OfferMoves
<1>6. CASE SweptMatchStarts(m)
  <2> DEFINE row == [offers[m] EXCEPT !.over = TRUE]
  <2>1. row \in SweptOffer(m) /\ (row.due \/ row.waits => row.active)
    BY <1>1 DEF SweptOffer
  <2>2. offers' = [offers EXCEPT ![m] = row]
    BY <1>6 DEF SweptMatchStarts, OffersSound, OffersTyped
  <2> HIDE DEF row
  <2> QED BY <2>1, <2>2, OfferMoves
<1> QED BY <1>2, <1>3, <1>4, <1>5, <1>6

LEMMA SweepStep == SweepInv /\ [SweepNext]_sweepVars => SweepInv'
<1> SUFFICES ASSUME TicksSound, OffersSound, [SweepNext]_sweepVars
             PROVE  TicksSound' /\ OffersSound'
  BY DEF SweepInv, SweepTypeOK, TicksSound, OffersSound
<1>1. ASSUME UNCHANGED tick PROVE TicksSound'
  BY <1>1 DEF TicksSound
<1>2. ASSUME UNCHANGED offers PROVE OffersSound'
  BY <1>2 DEF OffersSound, OffersTyped, SweptOffer
<1>3. ASSUME NEW s \in Sweepers, BeginTick(s) PROVE TicksSound' /\ OffersSound'
  <2> DEFINE over == {m \in Listed : offers[m].over}
  <2>1. over \in SUBSET Listed /\ tick' = [tick EXCEPT ![s] = [todo |-> Listed, over |-> over]]
    BY <1>3 DEF BeginTick
  <2> HIDE DEF over
  <2>2. TicksSound'
    BY <2>1, ListedIsBounded, TickMoves
  <2> QED BY <1>2, <1>3, <2>2 DEF BeginTick
<1>4. ASSUME NEW s \in Sweepers, TickFails(s) PROVE TicksSound' /\ OffersSound'
  BY <1>2, <1>4, EndTickSound DEF TickFails
<1>5. ASSUME NEW s \in Sweepers, NEW m \in SweptMatches, Visit(s, m)
      PROVE  TicksSound' /\ OffersSound'
  <2>1. CASE PassBy(s, m) /\ UNCHANGED offers
    BY <1>2, <2>1, PassBySound
  <2>2. CASE PassBy(s, m) /\ (Close(m) \/ OfferNext(m))
    BY <2>2, PassBySound, HandlersSound
  <2>3. CASE EndTick(s) /\ UNCHANGED offers
    BY <1>2, <2>3, EndTickSound
  <2> QED BY <1>5, <2>1, <2>2, <2>3 DEF Visit
<1>6. ASSUME NEW m \in SweptMatches,
             \/ OfferIsMade(m) \/ OfferIsAnswered(m) \/ EntryIsClosed(m)
             \/ OfferRunsOut(m) \/ SweptMatchStarts(m)
      PROVE  TicksSound' /\ OffersSound'
  <2>1. UNCHANGED tick
    BY <1>6 DEF OfferIsMade, OfferIsAnswered, EntryIsClosed, OfferRunsOut, SweptMatchStarts
  <2>2. \/ Close(m) \/ OfferNext(m) \/ EntryIsClosed(m) \/ OfferRunsOut(m)
        \/ SweptMatchStarts(m)
    BY <1>6 DEF OfferIsMade, OfferIsAnswered
  <2> QED BY <1>1, <2>1, <2>2, HandlersSound
<1>7. CASE UNCHANGED sweepVars
  BY <1>1, <1>2, <1>7 DEF sweepVars
<1> QED BY <1>3, <1>4, <1>5, <1>6, <1>7 DEF SweepNext

\* Whatever fails, no tick of the sweep has more matches to visit than a batch,
\* and only an active offer is due or bound to an entry that waits.
THEOREM SweepIsTyped == SweepSpec => []SweepTypeOK
<1>1. SweepInv => SweepTypeOK
  BY DEF SweepInv
<1> QED BY <1>1, SweepInitially, SweepStep, PTL DEF SweepSpec

-----------------------------------------------------------------------------
(* The workers together.  A step of the scene that runs is a step of its   *)
(* part and leaves the other parts where they are, so a behaviour of the   *)
(* composition is one of every part.                                       *)

LEMMA WorkersImplementTheirParts ==
  WorkersSpec => DeliverySpec /\ ReconciliationSpec /\ LimiterSpec /\ SweepSpec
<1>1. WorkersInit => DeliveryInit /\ ReconciliationInit /\ LimiterInit /\ SweepInit
  BY DEF WorkersInit
<1>2. [WorkersNext]_workersVars => [DeliveryNext]_deliveryVars
  BY DEF WorkersNext, DeliveryScene, ReconciliationScene, LimiterScene, SweepScene, workersVars
<1>3. [WorkersNext]_workersVars => [ReconciliationNext]_reconciliationVars
  BY DEF WorkersNext, DeliveryScene, ReconciliationScene, LimiterScene, SweepScene, workersVars
<1>4. [WorkersNext]_workersVars => [LimiterNext]_limiterVars
  BY DEF WorkersNext, DeliveryScene, ReconciliationScene, LimiterScene, SweepScene, workersVars
<1>5. [WorkersNext]_workersVars => [SweepNext]_sweepVars
  BY DEF WorkersNext, DeliveryScene, ReconciliationScene, LimiterScene, SweepScene, workersVars
<1> QED BY <1>1, <1>2, <1>3, <1>4, <1>5, PTL
       DEF WorkersSpec, DeliverySpec, ReconciliationSpec, LimiterSpec, SweepSpec

\* Whichever worker runs, its rows, leases, queue and counters keep their types,
\* within the bounds the code sets.
THEOREM WorkersAreTyped == WorkersSpec => []WorkersTypeOK
<1>1. DeliveryTypeOK /\ ReconciliationTypeOK /\ LimiterTypeOK /\ SweepTypeOK => WorkersTypeOK
  BY DEF WorkersTypeOK
<1> QED BY <1>1, WorkersImplementTheirParts, DeliveryIsTyped, ReconciliationIsTyped,
           LimiterIsTyped, SweepIsTyped, PTL

\* What is proved of each worker holds of the workers as they are run: no
\* message is sent twice or told untruly, no change is announced that did not
\* happen, no overtaken scheduler does harm, and the provider's rate is kept.
THEOREM WorkersAreSound ==
  WorkersSpec =>
    /\ []DeliveryIsTrue /\ []MessageIsTrue /\ []RateIsKept
    /\ LateCallsAreHarmless
BY WorkersImplementTheirParts, DeliveryIsAlwaysTrue, MessagesAreTrue, RateIsAlwaysKept,
   LateCallsStayHarmless, PTL
================================================================================
