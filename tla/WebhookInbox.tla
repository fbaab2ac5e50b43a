----------------------------- MODULE WebhookInbox -----------------------------
(***************************************************************************)
(* The inbox of signals YCLIENTS sends when a record changes: one row a    *)
(* record, a bounded number of rows.  A delivery is one transaction of two *)
(* statements, an advisory lock and an insert that counts the rows of its  *)
(* own snapshot.  Deliveries run side by side and may be rolled back.      *)
(***************************************************************************)
EXTENDS Integers, FiniteSets

CONSTANTS Deliveries, SignalRecords,
          MaxSignals   \* MAX_SIGNALS_PER_COMPANY

Nobody == "nobody"

ASSUME InboxAssumption == MaxSignals \in Nat /\ Nobody \notin Deliveries

VARIABLES
  inbox,       \* yclients_record_webhook_signals: deliveries counted, by record
  inboxLock,   \* the delivery that holds the advisory lock
  delivery     \* where each delivery is, and the rows its statement sees

inboxVars == <<inbox, inboxLock, delivery>>

InboxInit ==
  /\ inbox = [r \in SignalRecords |-> 0]
  /\ inboxLock = Nobody
  /\ delivery = [d \in Deliveries |-> [pc |-> "unsent"]]

Kept == {r \in SignalRecords : inbox[r] > 0}

SendSignal(d, r) ==
  /\ delivery[d].pc = "unsent"
  /\ delivery' = [delivery EXCEPT ![d] = [pc |-> "lock", record |-> r]]
  /\ UNCHANGED <<inbox, inboxLock>>

LockFree == inboxLock = Nobody

LockInbox(d) ==
  /\ delivery[d].pc = "lock" /\ LockFree
  /\ inboxLock' = d
  /\ delivery' = [delivery EXCEPT ![d].pc = "insert"]
  /\ UNCHANGED inbox

\* The insert sees the rows that were committed when it began.
BeginInsert(d) ==
  /\ delivery[d].pc = "insert"
  /\ delivery' = [delivery EXCEPT ![d] = [pc |-> "commit", record |-> @.record, sees |-> Kept]]
  /\ UNCHANGED <<inbox, inboxLock>>

\* mutant of Admitted: a full inbox takes nothing
AdmittedNew(d) == Cardinality(delivery[d].sees) < MaxSignals
Admitted(d) == \/ delivery[d].record \in delivery[d].sees
               \/ Cardinality(delivery[d].sees) < MaxSignals

\* The row the conflict finds is the newest one.
Counted(d) == inbox[delivery[d].record] + 1

SignalDone(d, pc) ==
  /\ delivery' = [delivery EXCEPT ![d] = [pc |-> pc, record |-> @.record]]
  /\ inboxLock' = IF inboxLock = d THEN Nobody ELSE inboxLock

CommitSignal(d) ==
  /\ delivery[d].pc = "commit"
  /\ IF Admitted(d)
     THEN /\ inbox' = [inbox EXCEPT ![delivery[d].record] = Counted(d)]
          /\ SignalDone(d, "recorded") \/ SignalDone(d, "unanswered")
     ELSE UNCHANGED inbox /\ SignalDone(d, "refused")

RollBackSignal(d) ==
  /\ delivery[d].pc \in {"lock", "insert", "commit"}
  /\ SignalDone(d, "failed")
  /\ UNCHANGED inbox

InboxNext == \E d \in Deliveries :
  \/ \E r \in SignalRecords : SendSignal(d, r)
  \/ LockInbox(d) \/ BeginInsert(d) \/ CommitSignal(d) \/ RollBackSignal(d)

InboxSpec == InboxInit /\ [][InboxNext]_inboxVars

-----------------------------------------------------------------------------
(* Properties                                                              *)

\* Every variable keeps its type; the inbox counts a record as often as its
\* deliveries were recorded, whether or not the answer arrived.
InboxTypeOK ==
  /\ inboxLock \in Deliveries \cup {Nobody}
  /\ \A d \in Deliveries : delivery[d].pc \in
       {"unsent", "lock", "insert", "commit", "recorded", "unanswered", "refused", "failed"}
  /\ \A r \in SignalRecords : inbox[r] = Cardinality({d \in Deliveries :
       delivery[d].pc \in {"recorded", "unanswered"} /\ delivery[d].record = r})

\* Deliveries side by side never fill the inbox beyond its bound.
InboxIsBounded == Cardinality(Kept) <= MaxSignals

\* A signal about a record the inbox knows is never refused for lack of room.
KnownRecordIsCounted ==
  \A d \in Deliveries :
    delivery[d].pc = "commit" /\ delivery'[d].pc = "refused"
      => delivery[d].record \notin Kept

\* The inbox takes what it has room for and what it knows, and nothing else.
InboxKeepsItsBound == [][InboxIsBounded' /\ KnownRecordIsCounted]_inboxVars
=============================================================================
