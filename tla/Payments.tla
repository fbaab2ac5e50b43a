------------------------------ MODULE Payments ------------------------------
(***************************************************************************)
(* One payment order, its attempts, and the acquirer behind its port.  The *)
(* order has no caller in the repository yet: any command comes at any     *)
(* clock reading.  The acquirer is external: it takes a write once for     *)
(* each attempt (providerIdempotencyKey), whenever it arrives, and its     *)
(* answer may be late or never come.                                       *)
(***************************************************************************)
EXTENDS Integers, FiniteSets

CONSTANTS PaymentAttempts,   \* attempts, each with an idempotency key
          LastNow            \* clock readings are 0..LastNow

NoAttempt == "no attempt"

ASSUME PaymentAssumption == NoAttempt \notin PaymentAttempts /\ LastNow \in Nat

VARIABLES
  order,     \* PaymentOrder
  attempt,   \* PaymentAttempt, by its key
  charge,    \* what the acquirer did with each attempt
  writes,    \* write commands on their way to the acquirer
  answers    \* its answers on their way back

paymentVars == <<order, attempt, charge, writes, answers>>

Settled == {"authorized", "paid", "rejected"}
Charged == {"authorized", "paid"}
Readings == 0..LastNow

\* What the validator of an attempt demands: its moments are in order.
ValidAttempt(row) ==
  /\ row.status \in {"absent", "pending", "unknown", "confirmed", "rejected", "reconciled"}
  /\ row.status \in {"unknown", "reconciled"} => row.uncertainAt >= row.createdAt
  /\ row.status = "reconciled" => row.terminalAt >= row.uncertainAt
  /\ row.status \in {"confirmed", "rejected"} => row.terminalAt >= row.createdAt

\* What the validator of an order demands.
ValidOrder(row) ==
  CASE row.status = "pending" -> row.binding = NoAttempt
    [] row.status = "unknown" -> row.binding = NoAttempt /\ row.active \in PaymentAttempts
    [] row.status \in Charged -> row.active = NoAttempt /\ row.binding \in PaymentAttempts
    [] OTHER -> FALSE

PaymentInit ==
  /\ order = [status |-> "pending", active |-> NoAttempt, binding |-> NoAttempt, at |-> 0]
  /\ attempt = [a \in PaymentAttempts |-> [status |-> "absent"]]
  /\ charge = [a \in PaymentAttempts |-> "none"]
  /\ writes = {} /\ answers = {}

-----------------------------------------------------------------------------
(* The state machine.                                                      *)

NextOrder(status, now, active, binding) ==
  [status |-> status, active |-> active, binding |-> binding, at |-> now]

MayStart(now) == order.status = "pending" /\ order.active = NoAttempt /\ now >= order.at

\* A key that has an attempt starts no other.
StartAttempt(a, now) ==
  /\ attempt[a].status = "absent" /\ MayStart(now)
  /\ attempt' = [attempt EXCEPT ![a] = [status |-> "pending", createdAt |-> now]]
  /\ order' = NextOrder("pending", now, a, NoAttempt)
  /\ UNCHANGED <<charge, writes, answers>>

MatchesOrder(a) ==
  CASE attempt[a].status \in {"pending", "unknown"} ->
         order.status = attempt[a].status /\ order.active = a
    [] attempt[a].status \in {"confirmed", "rejected", "reconciled"} ->
         /\ order.active = NoAttempt
         /\ IF attempt[a].result = "rejected" THEN order.status = "pending"
            ELSE order.status = attempt[a].result /\ order.binding = a
    [] OTHER -> FALSE

InTime(a, now) ==
  /\ MatchesOrder(a) /\ now >= order.at /\ now >= attempt[a].createdAt
  /\ attempt[a].status = "unknown" => now >= attempt[a].uncertainAt

\* The order after a result: a rejected attempt leaves it open.
OrderAfter(a, result, now) ==
  IF result = "rejected" THEN NextOrder("pending", now, NoAttempt, NoAttempt)
  ELSE NextOrder(result, now, NoAttempt, a)

\* The commands confirm and reject.
Answered(a, result, now) ==
  /\ InTime(a, now) /\ attempt[a].status = "pending"
  /\ attempt' = [attempt EXCEPT ![a] =
       [status |-> IF result = "rejected" THEN "rejected" ELSE "confirmed",
        createdAt |-> @.createdAt, terminalAt |-> now, result |-> result]]
  /\ order' = OrderAfter(a, result, now)

MarkUnknown(a, now) ==
  /\ attempt[a].status = "pending" /\ InTime(a, now)
  /\ attempt' = [attempt EXCEPT ![a] =
       [status |-> "unknown", createdAt |-> @.createdAt, uncertainAt |-> now]]
  /\ order' = NextOrder("unknown", now, a, NoAttempt)
  /\ UNCHANGED <<charge, writes, answers>>

\* mutant of Reconcilable: nothing found is a rejection
ReconcilableAsFound(a) == IF charge[a] = "none" THEN "rejected" ELSE charge[a]
Reconcilable(a) == charge[a]

\* An acquirer that does not know the attempt leaves it unknown.
Reconcile(a, now) ==
  /\ attempt[a].status = "unknown" /\ InTime(a, now)
  /\ Reconcilable(a) \in Settled
  /\ attempt' = [attempt EXCEPT ![a] =
       [status |-> "reconciled", createdAt |-> @.createdAt, uncertainAt |-> @.uncertainAt,
        terminalAt |-> now, result |-> Reconcilable(a)]]
  /\ order' = OrderAfter(a, Reconcilable(a), now)
  /\ UNCHANGED <<charge, writes, answers>>

-----------------------------------------------------------------------------
(* The port.                                                               *)

\* acquiringPaymentWriteCommand; it may be sent again.
SendWrite(a) ==
  /\ attempt[a].status = "pending" /\ MatchesOrder(a)
  /\ writes' = writes \cup {a}
  /\ UNCHANGED <<order, attempt, charge, answers>>

TakeWrite(a) ==
  /\ a \in writes
  /\ IF charge[a] = "none" THEN \E result \in Settled : charge' = [charge EXCEPT ![a] = result]
     ELSE UNCHANGED charge
  /\ writes' = writes \ {a}
  /\ answers' = answers \cup {a}
  /\ UNCHANGED <<order, attempt>>

\* An answer that comes when the attempt is no longer pending is refused.
HearResult(a, now) ==
  /\ a \in answers
  /\ answers' = answers \ {a}
  /\ Answered(a, charge[a], now) \/ (~(InTime(a, now) /\ attempt[a].status = "pending")
                                      /\ UNCHANGED <<order, attempt>>)
  /\ UNCHANGED <<charge, writes>>

LoseMessage(a) ==
  /\ \/ a \in writes /\ writes' = writes \ {a} /\ UNCHANGED answers
     \/ a \in answers /\ answers' = answers \ {a} /\ UNCHANGED writes
  /\ UNCHANGED <<order, attempt, charge>>

PaymentNext ==
  \E a \in PaymentAttempts :
    \/ SendWrite(a) \/ TakeWrite(a) \/ LoseMessage(a)
    \/ \E now \in Readings :
         StartAttempt(a, now) \/ MarkUnknown(a, now) \/ Reconcile(a, now) \/ HearResult(a, now)

PaymentSpec == PaymentInit /\ [][PaymentNext]_paymentVars

-----------------------------------------------------------------------------
(* Properties                                                              *)

\* Every variable keeps its type, and every attempt and order passes the
\* validators (isPaymentAttempt, isPaymentOrder): its moments are in order.
PaymentTypeOK ==
  /\ order.at \in Readings
  /\ ValidOrder(order) /\ \A a \in PaymentAttempts : ValidAttempt(attempt[a])
  /\ charge \in [PaymentAttempts -> Settled \cup {"none"}]
  /\ writes \subseteq PaymentAttempts /\ answers \subseteq PaymentAttempts

\* The player is charged at most once for an order, although the answer to an
\* attempt may be lost and the player may try again; and what the order says
\* of the money is true: an open order nobody is paying has taken nothing,
\* and a paid one names the attempt that was charged.
OrderTellsCharge ==
  /\ Cardinality({a \in PaymentAttempts : charge[a] \in Charged}) <= 1
  /\ order.status \in Charged => charge[order.binding] = order.status
  /\ order.status = "pending" /\ order.active = NoAttempt =>
       \A a \in PaymentAttempts : charge[a] \notin Charged

\* An attempt whose outcome is open is the one the order names: none is lost
\* when it becomes unknown.
OpenAttemptIsNamed ==
  \A a \in PaymentAttempts : attempt[a].status \in {"pending", "unknown"} =>
    order.active = a /\ order.status = attempt[a].status

\* The order accounts for the money, although answers are lost or late: one
\* charge at most, the one the order names, and no attempt in the open unnamed.
MoneyIsAccountedFor == OrderTellsCharge /\ OpenAttemptIsNamed
=============================================================================
