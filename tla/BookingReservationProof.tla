------------------------ MODULE BookingReservationProof ------------------------
(***************************************************************************)
(* What holds of BookingReservation for any number of keys, slots and      *)
(* requests, any overlap of slots and any age at which an attempt is given *)
(* up.                                                                     *)
(***************************************************************************)
EXTENDS BookingReservation, TLAPS

\* The commands of a create operation that the service issues.
Issued == {"mark_unknown", "confirm", "reject"}

-----------------------------------------------------------------------------
(* Type correctness.                                                       *)

\* Moving a request to another place keeps the requests well formed.
LEMMA GoType ==
    ASSUME TypeOK, NEW p \in Requests, NEW place \in Place, Go(p, place)
    PROVE  req' \in [Requests -> Request]
BY DEF TypeOK, Go, Request

\* Answering a request keeps the requests well formed.
LEMMA AnswerType ==
    ASSUME TypeOK, NEW p \in Requests, NEW outcome \in Outcome, Answer(p, outcome)
    PROVE  req' \in [Requests -> Request]
<1>1. "done" \in Place
  BY DEF Place
<1>2. [req[p] EXCEPT !.pc = "done", !.outcome = outcome] \in Request
  BY <1>1 DEF TypeOK, Request
<1> QED BY <1>2 DEF TypeOK, Answer

\* A persisted transition keeps the three rows well formed.
LEMMA PersistType ==
    ASSUME TypeOK, NEW k \in Keys, NEW command \in Issued, NEW scans \in 0..1,
           Persist(k, command, scans)
    PROVE  /\ status' \in [Keys -> {"unbooked", "pending_confirmation", "unknown",
                                    "confirmed", "rejected"}]
           /\ op' \in [Keys -> Operation]
           /\ hold' \in [Keys -> Slots \cup {NoSlot}]
<1>1. NextOperationStatus[command] \in {"unknown", "confirmed", "rejected"}
  BY DEF NextOperationStatus, Issued
<1>2. op[k] \in Operation
  BY DEF TypeOK
<1>3. [op[k] EXCEPT !.status = NextOperationStatus[command], !.scans = scans]
        \in Operation
  BY <1>1, <1>2 DEF Operation
<1>4. op' \in [Keys -> Operation]
  BY <1>3 DEF Persist, TypeOK
<1>5. NextReservationStatus("create", command)
        \in {"unknown", "confirmed", "rejected"}
  BY DEF NextReservationStatus, Issued, ConfirmingCommand
<1> QED BY <1>4, <1>5 DEF Persist, TypeOK, HoldAfter

\* Every step keeps the types, one action after the other.
LEMMA TypeStep == TypeOK /\ [Next]_vars => TypeOK'
<1> SUFFICES ASSUME TypeOK, [Next]_vars PROVE TypeOK'
  OBVIOUS
<1> USE BookingAssumption
<1>1. ASSUME NEW p \in Requests, Receive(p) PROVE TypeOK'
  <2>1. req' \in [Requests -> Request]
    BY <1>1, GoType DEF Receive, Place
  <2> QED BY <1>1, <2>1 DEF Receive, database, TypeOK
<1>2. ASSUME NEW p \in Requests, Lookup(p) PROVE TypeOK'
  <2>1. req[p].key \in Keys
    BY DEF TypeOK, Request
  <2>2. ASSUME Retry(p, req[p].key) PROVE req' \in [Requests -> Request]
    BY <2>1, <2>2, GoType, AnswerType DEF Retry, Place, Outcome, TypeOK,
       Operation, TerminalOutcome
  <2>3. ASSUME Go(p, "availability") \/ Answer(p, "unavailable")
        PROVE  req' \in [Requests -> Request]
    BY <2>3, GoType, AnswerType DEF Place, Outcome
  <2>4. req' \in [Requests -> Request]
    BY <1>2, <2>2, <2>3 DEF Lookup
  <2> QED BY <1>2, <2>4 DEF Lookup, database, TypeOK
<1>3. ASSUME NEW p \in Requests, Availability(p) PROVE TypeOK'
  <2>1. req' \in [Requests -> Request]
    BY <1>3, GoType, AnswerType DEF Availability, Place, Outcome
  <2> QED BY <1>3, <2>1 DEF Availability, database, TypeOK
<1>4. ASSUME NEW p \in Requests, Start(p) PROVE TypeOK'
  <2> DEFINE k == req[p].key
  <2>1. k \in Keys /\ req[p].slot \in Slots
    BY DEF TypeOK, Request
  <2>2. CASE Insert(p, k)
    <3>1. req' \in [Requests -> Request]
      BY <2>2, GoType, AnswerType DEF Insert, Place, Outcome
    <3>2. [status |-> "pending", slot |-> req[p].slot, started |-> FALSE,
           age |-> 0, scans |-> 0] \in Operation
      BY <2>1 DEF Operation
    <3>3. op' \in [Keys -> Operation]
      BY <2>1, <2>2, <3>2 DEF Insert, TypeOK
    <3> QED BY <1>4, <2>1, <2>2, <3>1, <3>3 DEF Start, Insert, PendingStatus, TypeOK
  <2>3. CASE Retry(p, k) /\ UNCHANGED database
    <3>1. req' \in [Requests -> Request]
      BY <2>1, <2>3, GoType, AnswerType DEF Retry, Place, Outcome, TypeOK,
         Operation, TerminalOutcome
    <3> QED BY <1>4, <2>3, <3>1 DEF Start, database, TypeOK
  <2>4. CASE Answer(p, "unavailable") /\ UNCHANGED database
    <3>1. req' \in [Requests -> Request]
      BY <2>4, AnswerType DEF Outcome
    <3> QED BY <1>4, <2>4, <3>1 DEF Start, database, TypeOK
  <2> QED BY <1>4, <2>2, <2>3, <2>4 DEF Start
<1>5. ASSUME NEW p \in Requests, Preflight(p) PROVE TypeOK'
  <2>1. req' \in [Requests -> Request]
    BY <1>5, GoType DEF Preflight, Place
  <2> QED BY <1>5, <2>1 DEF Preflight, database, TypeOK
<1>6. ASSUME NEW p \in Requests, ClaimAttempt(p) PROVE TypeOK'
  <2> DEFINE k == req[p].key
  <2>1. k \in Keys /\ op[k] \in Operation
    BY DEF TypeOK, Request
  <2>2. ASSUME NEW o \in Operation
        PROVE  [o EXCEPT !.started = TRUE, !.age = 0] \in Operation
    <3>1. 0 \in 0..StaleAge
      OBVIOUS
    <3> QED BY <3>1 DEF Operation
  <2>3. op' \in [Keys -> Operation]
    <3>1. \/ op' = [op EXCEPT ![k] = [op[k] EXCEPT !.started = TRUE, !.age = 0]]
          \/ op' = op
      BY <1>6, <2>1, Zenon DEF ClaimAttempt, database, TypeOK
    <3> QED BY <2>1, <2>2, <3>1 DEF TypeOK
  <2>4. PICK claim \in Claim, place \in Place, outcome \in Outcome :
           req' = [req EXCEPT ![p].claim = claim, ![p].pc = place,
                              ![p].outcome = outcome]
    BY <1>6 DEF ClaimAttempt, Place, Claim, Outcome
  <2>5. [req[p] EXCEPT !.claim = claim, !.pc = place, !.outcome = outcome]
          \in Request
    BY DEF TypeOK, Request
  <2>6. req' \in [Requests -> Request]
    BY <2>4, <2>5 DEF TypeOK
  <2> QED BY <1>6, <2>3, <2>6 DEF ClaimAttempt, database, TypeOK
<1>7. ASSUME NEW p \in Requests, Dispatch(p) PROVE TypeOK'
  <2>1. req' \in [Requests -> Request]
    BY <1>7, GoType DEF Dispatch, Place
  <2> QED BY <1>7, <2>1 DEF Dispatch, database, TypeOK, Post
<1>8. ASSUME NEW p \in Requests, Await(p) PROVE TypeOK'
  <2>1. req' \in [Requests -> Request]
    BY <1>8, GoType DEF Await, Place
  <2> QED BY <1>8, <2>1 DEF Await, database, TypeOK
<1>9. ASSUME NEW p \in Requests, Confirm(p) PROVE TypeOK'
  <2> DEFINE k == req[p].key
  <2>1. k \in Keys /\ op[k].scans \in 0..1
    BY DEF TypeOK, Request, Operation
  <2>2. req' \in [Requests -> Request]
    BY <1>9, GoType, AnswerType DEF Confirm, Place, Outcome
  <2>3. CASE Persist(k, "confirm", op[k].scans) /\ intents' = intents \cup {k}
    BY <1>9, <2>1, <2>2, <2>3, PersistType DEF Confirm, Issued, TypeOK
  <2>4. CASE UNCHANGED database
    BY <1>9, <2>2, <2>4 DEF Confirm, database, TypeOK
  <2> QED BY <1>9, <2>3, <2>4 DEF Confirm
<1>10. ASSUME NEW p \in Requests,
              MarkUnknown(p) \/ Fallback(p) \/ Reject(p) \/ StaleMark(p)
       PROVE  TypeOK'
  <2> DEFINE k == req[p].key
  <2>1. k \in Keys /\ op[k].scans \in 0..1
    BY DEF TypeOK, Request, Operation
  <2>2. req' \in [Requests -> Request]
    BY <1>10, GoType, AnswerType
       DEF MarkUnknown, Fallback, Reject, StaleMark, Place, Outcome
  <2>3. \/ UNCHANGED database
        \/ /\ UNCHANGED intents
           /\ \E command \in Issued : Persist(k, command, op[k].scans)
    BY <1>10 DEF MarkUnknown, Fallback, Reject, StaleMark, Issued
  <2>4. UNCHANGED post
    BY <1>10 DEF MarkUnknown, Fallback, Reject, StaleMark
  <2>5. CASE UNCHANGED database
    BY <2>2, <2>4, <2>5 DEF database, TypeOK
  <2>6. ASSUME UNCHANGED intents, NEW command \in Issued,
               Persist(k, command, op[k].scans)
        PROVE  TypeOK'
    BY <2>1, <2>2, <2>4, <2>6, PersistType DEF TypeOK
  <2> QED BY <2>3, <2>5, <2>6
<1>11. ASSUME NEW p \in Requests, StaleRead(p) \/ Crash(p) PROVE TypeOK'
  <2>1. req' \in [Requests -> Request]
    BY <1>11, GoType, AnswerType DEF StaleRead, Crash, Place, Outcome
  <2> QED BY <1>11, <2>1 DEF StaleRead, Crash, database, TypeOK
<1>12. ASSUME NEW p \in Requests, ProviderCreates(p) \/ ProviderRefuses(p)
       PROVE  TypeOK'
  BY <1>12 DEF ProviderCreates, ProviderRefuses, database, TypeOK, Post
<1>13. ASSUME NEW k \in Keys, ReadClassify(k) PROVE TypeOK'
  <2>1. op[k].scans \in 0..1
    BY DEF TypeOK, Operation
  <2>2. \E command \in Issued, scans \in 0..1 : Persist(k, command, scans)
    BY <1>13, <2>1 DEF ReadClassify, Issued
  <2> QED BY <1>13, <2>2, PersistType DEF ReadClassify, TypeOK
<1>14. ASSUME NEW k \in Keys, ReadClaimScan(k) PROVE TypeOK'
  <2>1. [op[k] EXCEPT !.scans = 1] \in Operation
    BY DEF TypeOK, Operation
  <2> QED BY <1>14, <2>1 DEF ReadClaimScan, TypeOK
<1>15. CASE Tick
  <2>1. ASSUME NEW k \in Keys PROVE op'[k] \in Operation
    <3>1. op[k] \in Operation
      BY DEF TypeOK
    <3>2. CASE op[k].status = "pending" /\ ~Stale(k)
      <4>1. op[k].age + 1 \in 0..StaleAge
        BY <3>1, <3>2 DEF Operation, Stale
      <4>2. op'[k] = [op[k] EXCEPT !.age = op[k].age + 1]
        BY <1>15, <3>2 DEF Tick
      <4> QED BY <3>1, <4>1, <4>2 DEF Operation
    <3>3. CASE ~(op[k].status = "pending" /\ ~Stale(k))
      BY <1>15, <3>1, <3>3 DEF Tick
    <3> QED BY <3>2, <3>3
  <2>2. op' \in [Keys -> Operation]
    BY <1>15, <2>1 DEF Tick
  <2> QED BY <1>15, <2>2 DEF Tick, TypeOK
<1>16. CASE UNCHANGED vars
  BY <1>16 DEF vars, TypeOK
<1> QED BY <1>1, <1>2, <1>3, <1>4, <1>5, <1>6, <1>7, <1>8, <1>9, <1>10, <1>11,
           <1>12, <1>13, <1>14, <1>15, <1>16 DEF Next, RequestStep

\* The rows and the requests of every reachable state are well formed.
THEOREM TypeCorrect == Spec => []TypeOK
<1>1. Init => TypeOK
  BY BookingAssumption DEF Init, TypeOK, Operation, Request, Place, Claim,
     Outcome, Post
<1> QED BY <1>1, TypeStep, PTL DEF Spec

-----------------------------------------------------------------------------
(* The rows.  Of all the steps only three kinds change what the rows say:   *)
(* an operation is inserted, a command is persisted, or the control data of *)
(* an attempt change.                                                      *)

Inserted(k, s) ==
    /\ op[k].status = "absent"
    /\ SlotFree(k, s)
    /\ status' = [status EXCEPT ![k] = "pending_confirmation"]
    /\ op' = [op EXCEPT ![k] = [status |-> "pending", slot |-> s,
                                started |-> FALSE, age |-> 0, scans |-> 0]]
    /\ hold' = [hold EXCEPT ![k] = s]
    /\ UNCHANGED intents

\* Started, aged or scanned: status and slot stay, and so does a start.
OnlyControl ==
    /\ UNCHANGED <<status, hold, intents>>
    /\ \A k \in Keys : /\ op'[k].status = op[k].status
                       /\ op'[k].slot = op[k].slot
                       /\ op[k].started => op'[k].started
                       /\ op'[k].started => op[k].started \/ op[k].status = "pending"

\* A command is persisted, and who may: a confirmation is stored with its
\* notification and by a request that confirms, a rejection by a request that
\* rejects or by a reader that found the attempt never started.
Settled(k, command, scans) ==
    /\ Persist(k, command, scans)
    /\ intents' = IF command = "confirm" THEN intents \cup {k} ELSE intents
    /\ command = "confirm" =>
         \E p \in Requests : req[p].key = k /\ req[p].pc = "confirm"
    /\ command = "reject" =>
         \/ ~op[k].started
         \/ \E p \in Requests : /\ req[p].key = k
                               /\ req[p].pc = "reject"
                               /\ req'[p].pc = "done"

\* Every step is one of the three.
LEMMA RowStep ==
    ASSUME TypeOK, [Next]_vars
    PROVE  \/ OnlyControl
           \/ \E k \in Keys, s \in Slots : Inserted(k, s)
           \/ \E k \in Keys, command \in Issued, scans \in 0..1 :
                 Settled(k, command, scans)
<1> DEFINE Persisted == \E k \in Keys, command \in Issued, scans \in 0..1 :
                           Settled(k, command, scans)
<1>1. ASSUME UNCHANGED database PROVE OnlyControl
  BY <1>1 DEF OnlyControl, database
<1>2. ASSUME NEW p \in Requests
      PROVE  req[p].key \in Keys /\ req[p].slot \in Slots
  BY DEF TypeOK, Request
<1>3. ASSUME NEW k \in Keys PROVE op[k].scans \in 0..1
  BY DEF TypeOK, Operation
<1>4. ASSUME NEW p \in Requests, Start(p)
      PROVE  OnlyControl \/ \E k \in Keys, s \in Slots : Inserted(k, s)
  <2>1. CASE Insert(p, req[p].key)
    BY <1>2, <2>1 DEF Insert, Inserted, PendingStatus
  <2>2. CASE UNCHANGED database
    BY <1>1, <2>2
  <2> QED BY <1>4, <2>1, <2>2 DEF Start
<1>5. ASSUME NEW p \in Requests, ClaimAttempt(p) PROVE OnlyControl
  <2>1. CASE /\ Claimable(req[p].key)
             /\ op' = [op EXCEPT ![req[p].key].started = TRUE, ![req[p].key].age = 0]
             /\ UNCHANGED <<status, hold, intents>>
    BY <1>2, <2>1 DEF OnlyControl, Claimable, TypeOK, Operation
  <2>2. CASE UNCHANGED database
    BY <1>1, <2>2
  <2> QED BY <1>5, <2>1, <2>2, Zenon DEF ClaimAttempt
<1>6. ASSUME NEW p \in Requests, Confirm(p) PROVE OnlyControl \/ Persisted
  <2>1. CASE /\ Persist(req[p].key, "confirm", op[req[p].key].scans)
             /\ intents' = intents \cup {req[p].key}
    BY <1>2, <1>3, <1>6, <2>1 DEF Confirm, Settled, Issued
  <2>2. CASE UNCHANGED database
    BY <1>1, <2>2
  <2> QED BY <1>6, <2>1, <2>2 DEF Confirm
<1>7. ASSUME NEW p \in Requests, MarkUnknown(p) \/ Fallback(p) \/ StaleMark(p)
       PROVE  OnlyControl \/ Persisted
  <2>1. CASE /\ Persist(req[p].key, "mark_unknown", op[req[p].key].scans)
             /\ UNCHANGED intents
    BY <1>2, <1>3, <2>1 DEF Settled, Issued
  <2>2. CASE UNCHANGED database
    BY <1>1, <2>2
  <2> QED BY <1>7, <2>1, <2>2 DEF MarkUnknown, Fallback, StaleMark
<1>8. ASSUME NEW p \in Requests, Reject(p) PROVE OnlyControl \/ Persisted
  <2>1. CASE /\ Persist(req[p].key, "reject", op[req[p].key].scans)
             /\ UNCHANGED intents
             /\ \E outcome : Answer(p, outcome)
    <3>1. req'[p].pc = "done"
      BY <2>1 DEF Answer, TypeOK, Request
    <3> QED BY <1>2, <1>3, <1>8, <2>1, <3>1 DEF Reject, Settled, Issued
  <2>2. CASE UNCHANGED database
    BY <1>1, <2>2
  <2> QED BY <1>8, <2>1, <2>2 DEF Reject
<1>9. ASSUME NEW p \in Requests,
             \/ Receive(p) \/ Lookup(p) \/ Availability(p) \/ Preflight(p)
             \/ Dispatch(p) \/ Await(p) \/ StaleRead(p) \/ Crash(p)
             \/ ProviderCreates(p) \/ ProviderRefuses(p)
      PROVE  OnlyControl
  <2>1. UNCHANGED database
    BY <1>9 DEF Receive, Lookup, Availability, Preflight, Dispatch, Await,
       StaleRead, Crash, ProviderCreates, ProviderRefuses
  <2> QED BY <1>1, <2>1
<1>10. ASSUME NEW k \in Keys, ReadClassify(k) PROVE Persisted
  BY <1>3, <1>10 DEF ReadClassify, Settled, Issued
<1>11. ASSUME NEW k \in Keys, ReadClaimScan(k) PROVE OnlyControl
  BY <1>11 DEF ReadClaimScan, OnlyControl, TypeOK, Operation
<1>12. CASE Tick
  <2>1. ASSUME NEW k \in Keys
        PROVE  /\ op'[k].status = op[k].status
               /\ op'[k].slot = op[k].slot
               /\ op[k].started <=> op'[k].started
    <3>1. op'[k] = op[k] \/ op'[k] = [op[k] EXCEPT !.age = @ + 1]
      BY <1>12 DEF Tick
    <3>2. op[k] \in Operation
      BY DEF TypeOK
    <3> QED BY <3>1, <3>2 DEF Operation
  <2> QED BY <1>12, <2>1 DEF Tick, OnlyControl
<1>13. CASE UNCHANGED vars
  BY <1>1, <1>13 DEF vars, database
<1> QED BY <1>4, <1>5, <1>6, <1>7, <1>8, <1>9, <1>10, <1>11, <1>12,
           <1>13
        DEF Next, RequestStep

StartedExists == \A k \in Keys : op[k].started => op[k].status # "absent"

\* The rows agree, and no two of them hold overlapping slots.
Rows == TypeOK /\ RowsAgree /\ NoDoubleHold /\ StartedExists

\* What a persisted command of the service leaves behind.
LEMMA PersistEffect ==
    ASSUME Rows, NEW k \in Keys, NEW command \in Issued, NEW scans \in 0..1,
           Persist(k, command, scans)
    PROVE  /\ op[k].status = "pending" /\ status[k] = "pending_confirmation"
           /\ hold[k] = op[k].slot
           /\ \E next \in {"unknown", "confirmed", "rejected"} :
                /\ status' = [status EXCEPT ![k] = next]
                /\ op'[k].status = next
                /\ op'[k].slot = op[k].slot
                /\ op'[k].started = op[k].started
                /\ \A j \in Keys \ {k} : op'[j] = op[j]
                /\ hold' = [hold EXCEPT ![k] = IF next = "rejected" THEN NoSlot
                                               ELSE hold[k]]
                /\ next = "rejected" <=> command = "reject"
                /\ next = "confirmed" <=> command = "confirm"
<1>1. op[k].status = "pending"
  BY DEF Persist, Allowed, Issued
<1>2. status[k] = "pending_confirmation" /\ hold[k] = op[k].slot
  BY <1>1 DEF Rows, RowsAgree, OperationMatches, PendingStatus, HoldsCourtSlot
<1>3. PICK next \in {"unknown", "confirmed", "rejected"} :
        /\ NextOperationStatus[command] = next
        /\ NextReservationStatus("create", command) = next
        /\ next = "rejected" <=> command = "reject"
        /\ next = "confirmed" <=> command = "confirm"
  BY DEF Issued, NextOperationStatus, NextReservationStatus, ConfirmingCommand
<1>4. op' = [op EXCEPT ![k] = [op[k] EXCEPT !.status = next, !.scans = scans]]
  BY <1>3, Zenon DEF Persist
<1>5. op[k] \in Operation /\ op \in [Keys -> Operation]
  BY DEF Rows, TypeOK
<1>6. /\ op'[k].status = next /\ op'[k].slot = op[k].slot
      /\ op'[k].started = op[k].started
      /\ \A j \in Keys \ {k} : op'[j] = op[j]
  BY <1>4, <1>5 DEF Operation
<1>7. status' = [status EXCEPT ![k] = next]
  BY <1>3 DEF Persist
<1>8. hold' = [hold EXCEPT ![k] = IF next = "rejected" THEN NoSlot ELSE hold[k]]
  BY <1>3 DEF Persist, HoldAfter, HoldsCourtSlot
<1> QED BY <1>1, <1>2, <1>3, <1>6, <1>7, <1>8

LEMMA RowsStep == Rows /\ [Next]_vars => Rows'
<1> SUFFICES ASSUME Rows, [Next]_vars PROVE Rows'
  OBVIOUS
<1> USE BookingAssumption
<1>0. TypeOK /\ TypeOK'
  BY TypeStep DEF Rows
<1>1. CASE OnlyControl
  BY <1>0, <1>1 DEF OnlyControl, Rows, RowsAgree, NoDoubleHold, StartedExists
<1>2. ASSUME NEW k \in Keys, NEW s \in Slots, Inserted(k, s) PROVE Rows'
  <2>1. ASSUME NEW j \in Keys
        PROVE  /\ op'[j].status = (IF j = k THEN "pending" ELSE op[j].status)
               /\ op'[j].slot = (IF j = k THEN s ELSE op[j].slot)
               /\ status'[j] = (IF j = k THEN "pending_confirmation" ELSE status[j])
               /\ hold'[j] = (IF j = k THEN s ELSE hold[j])
    BY <1>0, <1>2 DEF Inserted, TypeOK
  <2>2. RowsAgree'
    BY <2>1 DEF Rows, RowsAgree, OperationMatches, PendingStatus, HoldsCourtSlot
  <2>3. NoDoubleHold'
    BY <1>2, <2>1 DEF Inserted, SlotFree, Rows, NoDoubleHold, TypeOK
  <2>4. StartedExists'
    BY <1>0, <1>2 DEF Inserted, Rows, StartedExists, TypeOK
  <2> QED BY <1>0, <2>2, <2>3, <2>4 DEF Rows
<1>3. ASSUME NEW k \in Keys, NEW command \in Issued, NEW scans \in 0..1,
             Persist(k, command, scans)
      PROVE  Rows'
  <2>1. PICK next \in {"unknown", "confirmed", "rejected"} :
          /\ status' = [status EXCEPT ![k] = next]
          /\ op'[k].status = next
          /\ op'[k].slot = op[k].slot
          /\ \A j \in Keys \ {k} : op'[j] = op[j]
          /\ hold' = [hold EXCEPT ![k] = IF next = "rejected" THEN NoSlot
                                         ELSE hold[k]]
    BY <1>3, PersistEffect
  <2>2. hold[k] = op[k].slot
    BY <1>3, PersistEffect
  <2>3. RowsAgree'
    BY <1>0, <2>1, <2>2
       DEF Rows, RowsAgree, OperationMatches, PendingStatus, HoldsCourtSlot, TypeOK
  <2>4. NoDoubleHold'
    BY <1>0, <2>1 DEF Rows, NoDoubleHold, TypeOK
  <2>5. StartedExists'
    BY <2>1 DEF Rows, StartedExists
  <2> QED BY <1>0, <2>3, <2>4, <2>5 DEF Rows
<1> QED BY <1>0, <1>1, <1>2, <1>3, RowStep DEF Settled

LEMMA RowsInit == Init => Rows
<1> SUFFICES ASSUME Init PROVE Rows
  OBVIOUS
<1>1. TypeOK
  BY BookingAssumption DEF Init, TypeOK, Operation, Request, Place, Claim,
     Outcome, Post
<1>2. RowsAgree /\ NoDoubleHold /\ StartedExists
  BY DEF Init, RowsAgree, NoDoubleHold, StartedExists, OperationMatches,
     HoldsCourtSlot
<1> QED BY <1>1, <1>2 DEF Rows

LEMMA RowsInvariant == Spec => []Rows
BY RowsInit, RowsStep, PTL DEF Spec

\* The reservation, its operation and its hold agree in every reachable state.
THEOREM RowsAlwaysAgree == Spec => []RowsAgree
<1>1. Rows => RowsAgree
  BY DEF Rows
<1> QED BY <1>1, RowsInvariant, PTL

\* No two reservations ever hold overlapping slots, whatever overlaps.
THEOREM NeverDoublyHeld == Spec => []NoDoubleHold
<1>1. Rows => NoDoubleHold
  BY DEF Rows
<1> QED BY <1>1, RowsInvariant, PTL

\* What no step undoes: an outcome, the slot of an operation, a start.
LEMMA OutcomeStep ==
    ASSUME Rows, [Next]_vars
    PROVE  \A k \in Keys :
              /\ op[k].status \in {"confirmed", "rejected", "unknown"}
                    => op'[k].status = op[k].status
              /\ op[k].status # "absent" => op'[k].slot = op[k].slot
              /\ op[k].started => op'[k].started
<1>0. TypeOK
  BY DEF Rows
<1> SUFFICES ASSUME NEW j \in Keys
             PROVE  /\ op[j].status \in {"confirmed", "rejected", "unknown"}
                          => op'[j].status = op[j].status
                    /\ op[j].status # "absent" => op'[j].slot = op[j].slot
                    /\ op[j].started => op'[j].started
  OBVIOUS
<1>1. CASE OnlyControl
  BY <1>1 DEF OnlyControl
<1>2. CASE \E k \in Keys, s \in Slots : Inserted(k, s)
  BY <1>0, <1>2 DEF Inserted, Rows, StartedExists, TypeOK
<1>3. CASE \E k \in Keys, command \in Issued, scans \in 0..1 :
              Settled(k, command, scans)
  BY <1>3, PersistEffect DEF Settled
<1> QED BY <1>0, <1>1, <1>2, <1>3, RowStep

\* A key that was used stays used.
LEMMA OperationStays ==
    ASSUME Rows, [Next]_vars
    PROVE  \A k \in Keys : op[k].status # "absent" => op'[k].status # "absent"
<1>0. TypeOK
  BY DEF Rows
<1> SUFFICES ASSUME NEW k \in Keys, op[k].status # "absent"
             PROVE  op'[k].status # "absent"
  OBVIOUS
<1>1. CASE OnlyControl
  BY <1>1 DEF OnlyControl
<1>2. CASE \E j \in Keys, s \in Slots : Inserted(j, s)
  BY <1>0, <1>2 DEF Inserted, TypeOK
<1>3. CASE \E j \in Keys, command \in Issued, scans \in 0..1 :
              Settled(j, command, scans)
  BY <1>3, PersistEffect DEF Settled
<1> QED BY <1>0, <1>1, <1>2, <1>3, RowStep

\* An operation that reached its outcome never leaves it, its slot stays and a
\* started attempt stays started.
THEOREM OutcomeNeverChanges == Spec => OutcomeIsFinal
<1>1. ASSUME Rows, [Next]_vars
      PROVE  \A k \in Keys :
                /\ op[k].status \in {"confirmed", "rejected", "unknown"}
                      => op'[k].status = op[k].status
                /\ op[k].status # "absent" => op'[k].slot = op[k].slot
                /\ op[k].started => op'[k].started
  BY <1>1, OutcomeStep
<1> QED BY <1>1, RowsInvariant, PTL DEF Spec, OutcomeIsFinal, OutcomeStays

-----------------------------------------------------------------------------
(* Booking implements the abstract promise.                                *)

\* The rows before and after a step say what the ledger says.
LEMMA LedgerStep == Rows /\ [Next]_vars => [Ledger!Next]_(Ledger!vars)
<1> SUFFICES ASSUME Rows, [Next]_vars PROVE [Ledger!Next]_(Ledger!vars)
  OBVIOUS
<1> DEFINE promise == [k \in Keys |-> PromiseOf[status[k]]]
<1>0. TypeOK
  BY DEF Rows
<1>1. CASE OnlyControl
  BY <1>1 DEF OnlyControl, Ledger!vars
<1>2. ASSUME NEW k \in Keys, NEW s \in Slots, Inserted(k, s)
      PROVE  Ledger!Hold(k, s)
  <2>1. status[k] = "unbooked"
    BY <1>2 DEF Inserted, Rows, RowsAgree
  <2>2. promise' = [promise EXCEPT ![k] = "held"]
    BY <1>0, <1>2, <2>1 DEF Inserted, PromiseOf, TypeOK
  <2>3. Ledger!Free(k, s)
    BY <1>2 DEF Inserted, SlotFree, Ledger!Free
  <2> QED BY <1>2, <2>1, <2>2, <2>3 DEF Inserted, Ledger!Hold, PromiseOf
<1>3. ASSUME NEW k \in Keys, NEW command \in Issued, NEW scans \in 0..1,
             Persist(k, command, scans)
      PROVE  Ledger!Book(k) \/ Ledger!Close(k) \/ UNCHANGED Ledger!vars
  <2>1. PICK next \in {"unknown", "confirmed", "rejected"} :
          /\ status' = [status EXCEPT ![k] = next]
          /\ hold' = [hold EXCEPT ![k] = IF next = "rejected" THEN NoSlot
                                         ELSE hold[k]]
    BY <1>3, PersistEffect
  <2>2. promise[k] = "held"
    BY <1>3, PersistEffect DEF PromiseOf
  <2>3. promise' = [promise EXCEPT ![k] = PromiseOf[next]]
    BY <1>0, <2>1 DEF TypeOK
  <2>4. CASE next = "unknown"
    <3>1. promise' = promise
      BY <2>2, <2>3, <2>4 DEF PromiseOf
    <3> QED BY <1>0, <2>1, <2>4, <3>1 DEF Ledger!vars, TypeOK
  <2>5. CASE next = "confirmed"
    <3>1. promise' = [promise EXCEPT ![k] = "booked"]
      BY <2>3, <2>5 DEF PromiseOf
    <3> QED BY <1>0, <2>1, <2>2, <2>5, <3>1 DEF Ledger!Book, TypeOK
  <2>6. CASE next = "rejected"
    <3>1. promise' = [promise EXCEPT ![k] = "closed"]
      BY <2>3, <2>6 DEF PromiseOf
    <3> QED BY <2>1, <2>2, <2>6, <3>1 DEF Ledger!Close
  <2> QED BY <2>4, <2>5, <2>6
<1> QED BY <1>0, <1>1, <1>2, <1>3, RowStep DEF Settled, Ledger!Next

\* Whatever requests, reads, the calendar and crashes do, the service only ever
\* holds a free slot, books the held slot, and gives a held slot back for good.
THEOREM BookingKeepsPromise == Spec => KeepsPromise
<1>1. Init => Ledger!Init
  BY DEF Init, Ledger!Init, Ledger!Exclusive, PromiseOf
<1> QED BY <1>1, LedgerStep, RowsInvariant, PTL DEF Spec, KeepsPromise, Ledger!Spec

\* The rows of a reservation agree and no court is held twice.
THEOREM RowsAreAlwaysSound == Spec => []RowsAreSound
<1>1. RowsAgree /\ NoDoubleHold => RowsAreSound
  BY DEF RowsAreSound
<1> QED BY <1>1, RowsAlwaysAgree, NeverDoublyHeld, PTL

-----------------------------------------------------------------------------
(* What the claim of an attempt guarantees: one booking POST at most, no    *)
(* refusal of a request that has sent one, no confirmation without one.    *)

\* Where a request has not yet tried to claim the attempt.
Unclaimed ==
    {"idle", "lookup", "availability", "start", "preflight", "claim", "reject"}

Refusal == {"conflict", "not_bookable", "unavailable", "provider_rejected"}

\* A POST leaves only under a claim, a claim is what started the operation, and
\* so no two requests claim the same one.
ClaimInv ==
    /\ \A p \in Requests :
          /\ post[p] # "unsent" => req[p].claim = "claimed"
          /\ req[p].claim = "claimed" => op[req[p].key].started
          /\ req[p].pc \in Unclaimed => req[p].claim = "not_attempted"
          /\ req[p].pc = "dispatch" => req[p].claim = "claimed" /\ post[p] = "unsent"
          /\ req[p].outcome \in Refusal => req[p].claim # "claimed"
    /\ \A p, q \in Requests :
          /\ req[p].claim = "claimed"
          /\ req[q].claim = "claimed"
          /\ req[p].key = req[q].key
          => p = q

\* Where a request knows that the operation of its key asks for its slot.
Matched == {"preflight", "claim", "dispatch", "await", "confirm"}

\* A request confirms only the record its own POST made, in the slot that the
\* operation of its key asked for.
MatchInv ==
    \A p \in Requests :
        /\ req[p].pc \in Matched => /\ op[req[p].key].status # "absent"
                                    /\ op[req[p].key].slot = req[p].slot
        /\ req[p].pc = "confirm" => post[p] = "created"

\* The refusals that speak of the operation are true of it.
ToldInv ==
    \A p \in Requests :
        LET k == req[p].key IN
        /\ req[p].outcome = "provider_rejected" => op[k].status = "rejected"
        /\ req[p].outcome = "conflict" =>
             op[k].status # "absent" /\ op[k].slot # req[p].slot

DispatchInv == Rows /\ ClaimInv /\ MatchInv /\ ConfirmedIsBooked /\ ToldInv

-----------------------------------------------------------------------------
(* What the steps do to the requests.                                      *)

\* Going on changes the place of one request and nothing else of any.
LEMMA GoEffect ==
    ASSUME TypeOK, NEW p \in Requests, NEW place, Go(p, place)
    PROVE  /\ \A q \in Requests : /\ req'[q].key = req[q].key
                                 /\ req'[q].slot = req[q].slot
                                 /\ req'[q].claim = req[q].claim
                                 /\ req'[q].outcome = req[q].outcome
           /\ \A q \in Requests \ {p} : req'[q] = req[q]
           /\ req'[p].pc = place
BY DEF Go, TypeOK, Request

\* Answering sets the place and the outcome of one request.
LEMMA AnswerEffect ==
    ASSUME TypeOK, NEW p \in Requests, NEW outcome, Answer(p, outcome)
    PROVE  /\ \A q \in Requests : /\ req'[q].key = req[q].key
                                 /\ req'[q].slot = req[q].slot
                                 /\ req'[q].claim = req[q].claim
           /\ \A q \in Requests \ {p} : req'[q] = req[q]
           /\ req'[p].pc = "done"
           /\ req'[p].outcome = outcome
BY DEF Answer, TypeOK, Request

\* Trying to claim: only a claim goes on to dispatch, and only an operation that
\* was not started can be claimed.
LEMMA ClaimEffect ==
    ASSUME TypeOK, NEW p \in Requests, ClaimAttempt(p)
    PROVE  /\ \A q \in Requests : /\ req'[q].key = req[q].key
                                 /\ req'[q].slot = req[q].slot
           /\ \A q \in Requests \ {p} : req'[q] = req[q]
           /\ req'[p].pc \in {"dispatch", "done", "stale_read"}
           /\ req'[p].pc = "dispatch" => req'[p].claim = "claimed"
           /\ req'[p].claim = "claimed" => /\ op[req[p].key].status = "pending"
                                           /\ ~op[req[p].key].started
                                           /\ op'[req[p].key].started
                                           /\ req'[p].outcome = "none"
           /\ req'[p].outcome \notin {"created", "idempotent_retry",
                                      "provider_rejected", "conflict"}
<1> DEFINE Tried(claim, place, outcome) ==
             req' = [req EXCEPT ![p].claim = claim, ![p].pc = place,
                                ![p].outcome = outcome]
           Effect(claim, place, outcome) ==
             /\ \A q \in Requests : /\ req'[q].key = req[q].key
                                   /\ req'[q].slot = req[q].slot
             /\ \A q \in Requests \ {p} : req'[q] = req[q]
             /\ req'[p].claim = claim
             /\ req'[p].pc = place
             /\ req'[p].outcome = outcome
<1>1. ASSUME NEW claim, NEW place, NEW outcome, Tried(claim, place, outcome)
      PROVE  Effect(claim, place, outcome)
  BY <1>1 DEF TypeOK, Request
<1>2. \/ /\ Claimable(req[p].key)
         /\ op' = [op EXCEPT ![req[p].key].started = TRUE, ![req[p].key].age = 0]
         /\ Tried("claimed", "dispatch", "none")
      \/ Tried("failed", "done", "unavailable")
      \/ Tried("already_started", "stale_read", "none")
      \/ Tried("not_pending", "done", "unknown")
  BY Zenon DEF ClaimAttempt
<1> HIDE DEF Tried
<1>3. CASE /\ Claimable(req[p].key)
           /\ op' = [op EXCEPT ![req[p].key].started = TRUE, ![req[p].key].age = 0]
           /\ Tried("claimed", "dispatch", "none")
  <2>1. /\ op[req[p].key].status = "pending"
        /\ ~op[req[p].key].started /\ op'[req[p].key].started
    BY <1>3 DEF Claimable, TypeOK, Request, Operation
  <2> QED BY <1>1, <1>3, <2>1
<1>4. CASE Tried("failed", "done", "unavailable")
  BY <1>1, <1>4
<1>5. CASE Tried("already_started", "stale_read", "none")
  BY <1>1, <1>5
<1>6. CASE Tried("not_pending", "done", "unknown")
  BY <1>1, <1>6
<1> QED BY <1>2, <1>3, <1>4, <1>5, <1>6

\* How a request moves when it claims nothing and sends nothing: from where to
\* where, and with what outcome.
Moved(p) ==
    /\ \A q \in Requests : /\ req'[q].key = req[q].key
                          /\ req'[q].slot = req[q].slot
                          /\ req'[q].claim = req[q].claim
    /\ \A q \in Requests \ {p} : req'[q] = req[q]
    /\ req'[p].pc # "dispatch"
    /\ req'[p].pc \in Unclaimed => req[p].pc \in Unclaimed
    /\ req'[p].outcome \in Refusal =>
          req[p].pc \in Unclaimed \/ req'[p].outcome = req[p].outcome
    /\ req'[p].pc \in Matched =>
          \/ op'[req[p].key].status # "absent" /\ op'[req[p].key].slot = req[p].slot
          \/ req[p].pc \in Matched
    /\ req'[p].pc = "confirm" => post[p] = "created"
    /\ req'[p].outcome \in {"created", "idempotent_retry"} =>
          \/ op'[req[p].key].status = "confirmed"
          \/ req'[p].outcome = req[p].outcome
    /\ req'[p].outcome = "provider_rejected" =>
          op[req[p].key].status = "rejected" \/ req'[p].outcome = req[p].outcome
    /\ req'[p].outcome = "conflict" =>
          \/ op[req[p].key].status # "absent" /\ op[req[p].key].slot # req[p].slot
          \/ req'[p].outcome = req[p].outcome

\* Every step but a claim, a dispatch and a step of the calendar moves one
\* request or none.
LEMMA MoveStep ==
    ASSUME Rows, [Next]_vars
    PROVE  \/ UNCHANGED <<req, post>>
           \/ \E p \in Requests : Moved(p) /\ UNCHANGED post
           \/ \E p \in Requests : ClaimAttempt(p)
           \/ \E p \in Requests : Dispatch(p)
           \/ \E p \in Requests : ProviderCreates(p) \/ ProviderRefuses(p)
<1>0. TypeOK
  BY DEF Rows
<1> USE <1>0
<1>1. ASSUME NEW p \in Requests, Receive(p) PROVE Moved(p) /\ UNCHANGED post
  BY <1>1, GoEffect DEF Receive, Moved, Unclaimed, Matched
<1>2. ASSUME NEW p \in Requests, Retry(p, req[p].key), UNCHANGED op,
             req[p].pc \in Unclaimed
      PROVE  Moved(p)
  <2>1. req[p].key \in Keys /\ op[req[p].key] \in Operation
    BY DEF TypeOK, Request
  <2>2. CASE Go(p, "preflight") /\ op[req[p].key].slot = req[p].slot
    BY <1>2, <2>1, <2>2, GoEffect DEF Retry, Moved, Unclaimed, Matched
  <2>3. CASE /\ op[req[p].key].slot # req[p].slot
             /\ Answer(p, "conflict")
    <3>1. op[req[p].key].status # "absent"
      BY <1>2 DEF Retry
    <3> QED BY <1>2, <2>3, <3>1, AnswerEffect DEF Moved, Unclaimed, Matched
  <2>4. CASE /\ op[req[p].key].status # "pending"
             /\ Answer(p, TerminalOutcome[op[req[p].key].status])
    <3>1. op[req[p].key].status \in {"unknown", "confirmed", "rejected"}
      BY <1>2, <2>1, <2>4 DEF Retry, Operation
    <3>2. TerminalOutcome[op[req[p].key].status] = "idempotent_retry"
            => op[req[p].key].status = "confirmed"
      BY <3>1 DEF TerminalOutcome
    <3>3. TerminalOutcome[op[req[p].key].status] \notin {"created", "conflict"}
      BY <3>1 DEF TerminalOutcome
    <3>4. TerminalOutcome[op[req[p].key].status] = "provider_rejected"
            => op[req[p].key].status = "rejected"
      BY <3>1 DEF TerminalOutcome
    <3> QED BY <1>2, <2>4, <3>2, <3>3, <3>4, AnswerEffect DEF Moved, Unclaimed, Matched
  <2> QED BY <1>2, <2>2, <2>3, <2>4 DEF Retry
<1>3. ASSUME NEW p \in Requests, req[p].pc \in Unclaimed,
             \/ Go(p, "availability") \/ Go(p, "start") \/ Go(p, "reject")
             \/ Answer(p, "unavailable") \/ Answer(p, "not_bookable")
      PROVE  Moved(p)
  BY <1>3, GoEffect, AnswerEffect DEF Moved, Unclaimed, Matched
<1>4. ASSUME NEW p \in Requests, Lookup(p) PROVE Moved(p) /\ UNCHANGED post
  BY <1>2, <1>3, <1>4 DEF Lookup, database, Unclaimed
<1>5. ASSUME NEW p \in Requests, Availability(p) PROVE Moved(p) /\ UNCHANGED post
  BY <1>3, <1>5 DEF Availability, Unclaimed
<1>6. ASSUME NEW p \in Requests, Start(p) PROVE Moved(p) /\ UNCHANGED post
  <2>1. CASE Insert(p, req[p].key)
    <3>1. req[p].key \in Keys
      BY DEF TypeOK, Request
    <3>2. op'[req[p].key].status # "absent" /\ op'[req[p].key].slot = req[p].slot
      BY <2>1, <3>1 DEF Insert, TypeOK
    <3>3. CASE Go(p, "preflight")
      BY <1>6, <3>2, <3>3, GoEffect DEF Start, Moved, Unclaimed, Matched
    <3>4. CASE Answer(p, "unavailable")
      BY <1>6, <1>3, <3>4 DEF Start, Unclaimed
    <3> QED BY <1>6, <2>1, <3>3, <3>4 DEF Start, Insert
  <2>2. CASE Retry(p, req[p].key) /\ UNCHANGED database
    BY <1>2, <1>6, <2>2 DEF Start, database, Unclaimed
  <2>3. CASE Answer(p, "unavailable")
    BY <1>3, <1>6, <2>3 DEF Start, Unclaimed
  <2> QED BY <1>6, <2>1, <2>2, <2>3 DEF Start
<1>7. ASSUME NEW p \in Requests, Preflight(p) PROVE Moved(p) /\ UNCHANGED post
  <2>1. CASE Go(p, "claim")
    BY <1>7, <2>1, GoEffect DEF Preflight, Moved, Unclaimed, Matched
  <2>2. CASE Go(p, "reject")
    BY <1>3, <1>7, <2>2 DEF Preflight, Unclaimed
  <2> QED BY <1>7, <2>1, <2>2 DEF Preflight
<1>8. ASSUME NEW p \in Requests, Await(p) PROVE Moved(p) /\ UNCHANGED post
  BY <1>8, GoEffect DEF Await, Moved, Unclaimed, Matched
<1>9. ASSUME NEW p \in Requests,
             \/ Go(p, "fallback") \/ Go(p, "stale_mark") \/ Go(p, "crashed")
             \/ Answer(p, "unknown")
      PROVE  Moved(p)
  BY <1>9, GoEffect, AnswerEffect DEF Moved, Unclaimed, Matched, Refusal
<1>10. ASSUME NEW p \in Requests, Confirm(p) PROVE Moved(p) /\ UNCHANGED post
  <2>1. CASE Persist(req[p].key, "confirm", op[req[p].key].scans)
             /\ Answer(p, "created")
    <3>1. req[p].key \in Keys /\ op[req[p].key].scans \in 0..1
      BY DEF TypeOK, Request, Operation
    <3>2. op'[req[p].key].status = "confirmed"
      BY <2>1, <3>1, PersistEffect DEF Issued
    <3> QED BY <1>10, <2>1, <3>2, AnswerEffect
            DEF Confirm, Moved, Unclaimed, Matched, Refusal
  <2>2. CASE Go(p, "fallback")
    BY <1>9, <1>10, <2>2 DEF Confirm
  <2> QED BY <1>10, <2>1, <2>2 DEF Confirm
<1>11. ASSUME NEW p \in Requests, MarkUnknown(p) PROVE Moved(p) /\ UNCHANGED post
  BY <1>9, <1>11 DEF MarkUnknown
<1>12. ASSUME NEW p \in Requests, Reject(p) PROVE Moved(p) /\ UNCHANGED post
  BY <1>3, <1>9, <1>12 DEF Reject, Unclaimed
<1>13. ASSUME NEW p \in Requests,
              Fallback(p) \/ StaleRead(p) \/ StaleMark(p) \/ Crash(p)
       PROVE  Moved(p) /\ UNCHANGED post
  BY <1>9, <1>13 DEF Fallback, StaleRead, StaleMark, Crash
<1>14. ASSUME \/ \E k \in Keys : ReadClassify(k) \/ ReadClaimScan(k)
              \/ Tick
              \/ UNCHANGED vars
       PROVE  UNCHANGED <<req, post>>
  BY <1>14 DEF ReadClassify, ReadClaimScan, Tick, vars
<1> QED BY <1>1, <1>4, <1>5, <1>6, <1>7, <1>8, <1>10, <1>11, <1>12, <1>13, <1>14
        DEF Next, RequestStep

-----------------------------------------------------------------------------
(* The claim.                                                              *)

\* A claimable operation is not started, so no request has claimed it yet; from
\* then on it is started for ever, and the next claim fails.
LEMMA ClaimStep ==
    ASSUME Rows, ClaimInv, [Next]_vars
    PROVE  ClaimInv'
<1>0. TypeOK /\ \A p \in Requests : req[p].key \in Keys
  BY DEF Rows, TypeOK, Request
<1>1. \A k \in Keys : op[k].started => op'[k].started
  BY OutcomeStep
<1>2. CASE UNCHANGED <<req, post>>
  BY <1>0, <1>1, <1>2 DEF ClaimInv
<1>3. ASSUME NEW p \in Requests, Moved(p), UNCHANGED post PROVE ClaimInv'
  BY <1>0, <1>1, <1>3 DEF ClaimInv, Moved, Unclaimed
<1>4. ASSUME NEW p \in Requests, ClaimAttempt(p) PROVE ClaimInv'
  <2>1. post' = post /\ post[p] = "unsent"
    BY <1>4 DEF ClaimAttempt, ClaimInv, Unclaimed
  <2>2. /\ \A q \in Requests : req'[q].key = req[q].key
        /\ \A q \in Requests \ {p} : req'[q] = req[q]
        /\ req'[p].pc \notin Unclaimed
        /\ req'[p].pc = "dispatch" => req'[p].claim = "claimed"
    BY <1>0, <1>4, ClaimEffect DEF Unclaimed
  <2>3. CASE req'[p].claim = "claimed"
    <3>1. op'[req[p].key].started /\ req'[p].outcome \notin Refusal
      BY <1>0, <1>4, <2>3, ClaimEffect DEF Refusal
    <3>2. \A q \in Requests : req[q].claim = "claimed" => req[q].key # req[p].key
      BY <1>0, <1>4, <2>3, ClaimEffect DEF ClaimInv
    <3> QED BY <1>0, <1>1, <2>1, <2>2, <2>3, <3>1, <3>2 DEF ClaimInv
  <2>4. CASE req'[p].claim # "claimed"
    BY <1>0, <1>1, <2>1, <2>2, <2>4 DEF ClaimInv
  <2> QED BY <2>3, <2>4
<1>5. ASSUME NEW p \in Requests, Dispatch(p) PROVE ClaimInv'
  <2>1. req[p].claim = "claimed"
    BY <1>5 DEF Dispatch, ClaimInv
  <2>2. PICK place \in {"await", "mark_unknown"} : Go(p, place)
    BY <1>5 DEF Dispatch
  <2>3. /\ \A q \in Requests : /\ req'[q].key = req[q].key
                              /\ req'[q].claim = req[q].claim
                              /\ req'[q].outcome = req[q].outcome
        /\ \A q \in Requests \ {p} : req'[q] = req[q]
        /\ req'[p].pc = place
    BY <1>0, <2>2, GoEffect
  <2>4. \A q \in Requests \ {p} : post'[q] = post[q]
    BY <1>0, <1>5 DEF Dispatch, TypeOK
  <2> QED BY <1>0, <1>1, <2>1, <2>2, <2>3, <2>4 DEF ClaimInv, Unclaimed
<1>6. ASSUME NEW p \in Requests, ProviderCreates(p) \/ ProviderRefuses(p)
      PROVE  ClaimInv'
  <2>1. UNCHANGED req /\ post[p] = "sent"
    BY <1>6 DEF ProviderCreates, ProviderRefuses
  <2>2. \A q \in Requests \ {p} : post'[q] = post[q]
    BY <1>0, <1>6 DEF ProviderCreates, ProviderRefuses, TypeOK
  <2> QED BY <1>0, <1>1, <2>1, <2>2 DEF ClaimInv
<1> QED BY <1>2, <1>3, <1>4, <1>5, <1>6, MoveStep

-----------------------------------------------------------------------------
(* The refusals.                                                           *)

\* An operation keeps its slot, and its rejection, so what was told stays true.
LEMMA ToldStep ==
    ASSUME Rows, ToldInv, [Next]_vars
    PROVE  ToldInv'
<1>0. TypeOK /\ \A p \in Requests : req[p].key \in Keys
  BY DEF Rows, TypeOK, Request
<1>1. \A k \in Keys : /\ op[k].status = "rejected" => op'[k].status = "rejected"
                      /\ op[k].status # "absent" =>
                           op'[k].status # "absent" /\ op'[k].slot = op[k].slot
  BY OutcomeStep, OperationStays
<1>2. CASE UNCHANGED <<req, post>>
  BY <1>0, <1>1, <1>2 DEF ToldInv
<1>3. ASSUME NEW p \in Requests, Moved(p) PROVE ToldInv'
  BY <1>0, <1>1, <1>3 DEF ToldInv, Moved
<1>4. ASSUME NEW p \in Requests, ClaimAttempt(p) PROVE ToldInv'
  BY <1>0, <1>1, <1>4, ClaimEffect DEF ToldInv
<1>5. ASSUME NEW p \in Requests, Dispatch(p) PROVE ToldInv'
  <2>1. PICK place \in {"await", "mark_unknown"} : Go(p, place)
    BY <1>5 DEF Dispatch
  <2> QED BY <1>0, <1>1, <2>1, GoEffect DEF ToldInv
<1>6. ASSUME NEW p \in Requests, ProviderCreates(p) \/ ProviderRefuses(p)
      PROVE  ToldInv'
  <2>1. UNCHANGED req
    BY <1>6 DEF ProviderCreates, ProviderRefuses
  <2> QED BY <1>0, <1>1, <2>1 DEF ToldInv
<1> QED BY <1>2, <1>3, <1>4, <1>5, <1>6, MoveStep

\* Only a pending operation is claimed and only a claimed one is dispatched, so
\* no step touches an operation that was rejected untouched.
LEMMA RejectionStep ==
    ASSUME Rows, ClaimInv, [Next]_vars
    PROVE  RejectionStays
<1> SUFFICES ASSUME NEW k \in Keys, op[k].status = "rejected", Untouched(k)
             PROVE  Untouched(k)'
  BY DEF RejectionStays
<1>0. TypeOK
  BY DEF Rows
<1>1. CASE UNCHANGED <<req, post>>
  BY <1>1 DEF Untouched
<1>2. ASSUME NEW p \in Requests, Moved(p), UNCHANGED post PROVE Untouched(k)'
  BY <1>2 DEF Untouched, Moved
<1>3. ASSUME NEW p \in Requests, ClaimAttempt(p) PROVE Untouched(k)'
  <2>1. post' = post
    BY <1>3 DEF ClaimAttempt
  <2>2. req[p].key = k => req'[p].claim # "claimed"
    BY <1>0, <1>3, ClaimEffect
  <2> QED BY <1>0, <1>3, <2>1, <2>2, ClaimEffect DEF Untouched
<1>4. ASSUME NEW p \in Requests, Dispatch(p) PROVE Untouched(k)'
  <2>1. req[p].claim = "claimed"
    BY <1>4 DEF Dispatch, ClaimInv
  <2>2. PICK place \in {"await", "mark_unknown"} : Go(p, place)
    BY <1>4 DEF Dispatch
  <2>3. \A q \in Requests \ {p} : post'[q] = post[q]
    BY <1>0, <1>4 DEF Dispatch, TypeOK
  <2> QED BY <1>0, <2>1, <2>2, <2>3, GoEffect DEF Untouched
<1>5. ASSUME NEW p \in Requests, ProviderCreates(p) \/ ProviderRefuses(p)
      PROVE  Untouched(k)'
  <2>1. UNCHANGED req /\ post[p] = "sent"
    BY <1>5 DEF ProviderCreates, ProviderRefuses
  <2>2. \A q \in Requests \ {p} : post'[q] = post[q]
    BY <1>0, <1>5 DEF ProviderCreates, ProviderRefuses, TypeOK
  <2> QED BY <2>1, <2>2 DEF Untouched
<1> QED BY <1>1, <1>2, <1>3, <1>4, <1>5, MoveStep

-----------------------------------------------------------------------------
(* The slot a request works for, and the record it confirms.               *)

LEMMA MatchStep ==
    ASSUME Rows, MatchInv, [Next]_vars
    PROVE  MatchInv'
<1>0. TypeOK /\ \A p \in Requests : req[p].key \in Keys
  BY DEF Rows, TypeOK, Request
<1>1. \A k \in Keys : op[k].status # "absent" =>
                        op'[k].status # "absent" /\ op'[k].slot = op[k].slot
  BY OutcomeStep, OperationStays
<1>2. CASE UNCHANGED <<req, post>>
  BY <1>0, <1>1, <1>2 DEF MatchInv
<1>3. ASSUME NEW p \in Requests, Moved(p), UNCHANGED post PROVE MatchInv'
  <2>1. ASSUME NEW q \in Requests, req'[q].pc \in Matched
        PROVE  /\ op'[req'[q].key].status # "absent"
               /\ op'[req'[q].key].slot = req'[q].slot
    BY <1>0, <1>1, <1>3, <2>1 DEF MatchInv, Moved
  <2>2. ASSUME NEW q \in Requests, req'[q].pc = "confirm"
        PROVE  post'[q] = "created"
    BY <1>3, <2>2 DEF MatchInv, Moved
  <2> QED BY <2>1, <2>2 DEF MatchInv
<1>4. ASSUME NEW p \in Requests, ClaimAttempt(p) PROVE MatchInv'
  <2>1. /\ \A q \in Requests : req'[q].key = req[q].key /\ req'[q].slot = req[q].slot
        /\ \A q \in Requests \ {p} : req'[q] = req[q]
        /\ req'[p].pc # "confirm"
    BY <1>0, <1>4, ClaimEffect
  <2>2. req[p].pc \in Matched /\ post' = post
    BY <1>4 DEF ClaimAttempt, Matched
  <2> QED BY <1>0, <1>1, <2>1, <2>2 DEF MatchInv
<1>5. ASSUME NEW p \in Requests, Dispatch(p) PROVE MatchInv'
  <2>1. PICK place \in {"await", "mark_unknown"} : Go(p, place)
    BY <1>5 DEF Dispatch
  <2>2. /\ \A q \in Requests : req'[q].key = req[q].key /\ req'[q].slot = req[q].slot
        /\ \A q \in Requests \ {p} : req'[q] = req[q]
        /\ req'[p].pc = place
    BY <1>0, <2>1, GoEffect
  <2>3. req[p].pc \in Matched
    BY <1>5 DEF Dispatch, Matched
  <2>4. \A q \in Requests \ {p} : post'[q] = post[q]
    BY <1>0, <1>5 DEF Dispatch, TypeOK
  <2> QED BY <1>0, <1>1, <2>1, <2>2, <2>3, <2>4 DEF MatchInv
<1>6. ASSUME NEW p \in Requests, ProviderCreates(p) \/ ProviderRefuses(p)
      PROVE  MatchInv'
  <2>1. /\ UNCHANGED req /\ post[p] = "sent"
        /\ \A q \in Requests \ {p} : post'[q] = post[q]
    BY <1>0, <1>6 DEF ProviderCreates, ProviderRefuses, TypeOK
  <2> QED BY <1>0, <1>1, <2>1 DEF MatchInv
<1> QED BY <1>2, <1>3, <1>4, <1>5, <1>6, MoveStep

-----------------------------------------------------------------------------
(* Confirmed means booked.                                                 *)

\* What a request works on never changes, and a record stays in the calendar.
LEMMA RequestKept ==
    ASSUME Rows, [Next]_vars, NEW p \in Requests
    PROVE  /\ req'[p].key = req[p].key
           /\ req'[p].slot = req[p].slot
           /\ post[p] = "created" /\ req[p].pc # "dispatch" => post'[p] = "created"
<1>0. TypeOK
  BY DEF Rows
<1>1. CASE UNCHANGED <<req, post>>
  BY <1>1
<1>2. ASSUME NEW q \in Requests, Moved(q), UNCHANGED post
      PROVE  /\ req'[p].key = req[p].key /\ req'[p].slot = req[p].slot
             /\ post'[p] = post[p]
  BY <1>2 DEF Moved
<1>3. ASSUME NEW q \in Requests, ClaimAttempt(q)
      PROVE  /\ req'[p].key = req[p].key /\ req'[p].slot = req[p].slot
             /\ post'[p] = post[p]
  <2>1. post' = post
    BY <1>3 DEF ClaimAttempt
  <2> QED BY <1>0, <1>3, <2>1, ClaimEffect
<1>4. ASSUME NEW q \in Requests, Dispatch(q)
      PROVE  /\ req'[p].key = req[p].key /\ req'[p].slot = req[p].slot
             /\ req[p].pc # "dispatch" => post'[p] = post[p]
  <2>1. \E place : Go(q, place)
    BY <1>4 DEF Dispatch
  <2>2. req[p].pc # "dispatch" => post'[p] = post[p]
    BY <1>0, <1>4 DEF Dispatch, TypeOK
  <2> QED BY <1>0, <2>1, <2>2, GoEffect
<1>5. ASSUME NEW q \in Requests, ProviderCreates(q) \/ ProviderRefuses(q)
      PROVE  /\ req'[p].key = req[p].key /\ req'[p].slot = req[p].slot
             /\ post[p] = "created" => post'[p] = "created"
  BY <1>0, <1>5 DEF ProviderCreates, ProviderRefuses, TypeOK
<1> QED BY <1>1, <1>2, <1>3, <1>4, <1>5, MoveStep

\* Only a confirmation confirms, and only a confirmation notifies.
LEMMA IntentStep ==
    ASSUME Rows, [Next]_vars
    PROVE  \/ /\ UNCHANGED intents
              /\ \A k \in Keys : op'[k].status = "confirmed"
                                     <=> op[k].status = "confirmed"
           \/ \E p \in Requests :
                 /\ req[p].pc = "confirm"
                 /\ intents' = intents \cup {req[p].key}
                 /\ op'[req[p].key].status = "confirmed"
                 /\ \A k \in Keys \ {req[p].key} : op'[k] = op[k]
<1>0. TypeOK
  BY DEF Rows
<1>1. CASE OnlyControl
  BY <1>1 DEF OnlyControl
<1>2. CASE \E k \in Keys, s \in Slots : Inserted(k, s)
  BY <1>0, <1>2 DEF Inserted, TypeOK
<1>3. ASSUME NEW k \in Keys, NEW command \in Issued, NEW scans \in 0..1,
             Settled(k, command, scans), command # "confirm"
      PROVE  /\ UNCHANGED intents
             /\ \A j \in Keys : op'[j].status = "confirmed"
                                    <=> op[j].status = "confirmed"
  BY <1>3, PersistEffect DEF Settled
<1>4. ASSUME NEW k \in Keys, NEW scans \in 0..1, Settled(k, "confirm", scans)
      PROVE  \E p \in Requests :
                 /\ req[p].pc = "confirm"
                 /\ intents' = intents \cup {req[p].key}
                 /\ op'[req[p].key].status = "confirmed"
                 /\ \A j \in Keys \ {req[p].key} : op'[j] = op[j]
  BY <1>4, PersistEffect DEF Settled, Issued
<1> QED BY <1>0, <1>1, <1>2, <1>3, <1>4, RowStep

LEMMA BookedStep ==
    ASSUME Rows, ClaimInv, MatchInv, ConfirmedIsBooked, [Next]_vars
    PROVE  ConfirmedIsBooked'
<1>0. TypeOK /\ \A p \in Requests : req[p].key \in Keys
  BY DEF Rows, TypeOK, Request
<1>1. Rows' /\ \A p \in Requests : post[p] = "created" => post'[p] = "created"
  BY RowsStep, RequestKept DEF ClaimInv
<1>2. \A k \in Keys : op[k].status = "confirmed" => op'[k].status = "confirmed"
  BY OutcomeStep
<1>3. \A k \in Keys : op'[k].status = "confirmed" => hold'[k] = op'[k].slot
  BY <1>1 DEF Rows, RowsAgree, HoldsCourtSlot
<1>4. \A k \in Keys : op[k].status = "confirmed" =>
                         hold[k] = op[k].slot /\ op'[k].slot = op[k].slot
  BY OutcomeStep DEF Rows, RowsAgree, HoldsCourtSlot
<1>5. ASSUME NEW k \in Keys, op'[k].status = "confirmed"
      PROVE  \E p \in Requests : /\ post'[p] = "created"
                                /\ req'[p].key = k
                                /\ req'[p].slot = hold'[k]
  <2>1. CASE op[k].status = "confirmed"
    <3>1. PICK p \in Requests : /\ post[p] = "created"
                                /\ req[p].key = k
                                /\ req[p].slot = hold[k]
      BY <2>1 DEF ConfirmedIsBooked
    <3> QED BY <1>1, <1>3, <1>4, <1>5, <2>1, <3>1, RequestKept
  <2>2. CASE op[k].status # "confirmed"
    <3>1. PICK p \in Requests : req[p].pc = "confirm" /\ req[p].key = k
      BY <1>0, <1>5, <2>2, IntentStep
    <3>2. /\ post[p] = "created"
          /\ op[k].status # "absent" /\ op[k].slot = req[p].slot
      BY <3>1 DEF MatchInv, Matched
    <3>3. op'[k].slot = req[p].slot
      BY <3>2, OutcomeStep
    <3> QED BY <1>1, <1>3, <1>5, <3>1, <3>2, <3>3, RequestKept
  <2> QED BY <2>1, <2>2
<1>6. ASSUME NEW k \in Keys
      PROVE  k \in intents' <=> op'[k].status = "confirmed"
  BY <1>0, <1>2, IntentStep DEF ConfirmedIsBooked
<1>7. ASSUME NEW p \in Requests,
             req'[p].outcome \in {"created", "idempotent_retry"}
      PROVE  op'[req'[p].key].status = "confirmed"
  <2>1. req'[p].key = req[p].key
    BY RequestKept
  <2>2. CASE req[p].outcome \in {"created", "idempotent_retry"}
    BY <1>0, <1>2, <2>1, <2>2 DEF ConfirmedIsBooked
  <2>3. CASE req[p].outcome \notin {"created", "idempotent_retry"}
    <3>1. ASSUME NEW q \in Requests, Moved(q)
          PROVE  op'[req[p].key].status = "confirmed"
      BY <1>7, <2>3, <3>1 DEF Moved
    <3>2. ASSUME NEW q \in Requests, ClaimAttempt(q) PROVE FALSE
      BY <1>0, <1>7, <2>3, <3>2, ClaimEffect
    <3>3. ASSUME NEW q \in Requests, Dispatch(q) PROVE FALSE
      <4>1. \E place : Go(q, place)
        BY <3>3 DEF Dispatch
      <4> QED BY <1>0, <1>7, <2>3, <4>1, GoEffect
    <3>4. CASE UNCHANGED req
      BY <1>7, <2>3, <3>4
    <3>5. ASSUME NEW q \in Requests, ProviderCreates(q) \/ ProviderRefuses(q)
          PROVE  UNCHANGED req
      BY <3>5 DEF ProviderCreates, ProviderRefuses
    <3> QED BY <2>1, <3>1, <3>2, <3>3, <3>4, <3>5, MoveStep
  <2> QED BY <2>2, <2>3
<1> QED BY <1>5, <1>6, <1>7 DEF ConfirmedIsBooked

-----------------------------------------------------------------------------
(* The invariant and the theorems.                                         *)

LEMMA DispatchInit == Init => DispatchInv
<1> SUFFICES ASSUME Init PROVE DispatchInv
  OBVIOUS
<1>1. Rows
  BY RowsInit
<1>2. \A p \in Requests : /\ post[p] = "unsent"
                          /\ req[p].pc = "idle"
                          /\ req[p].claim = "not_attempted"
                          /\ req[p].outcome = "none"
  BY DEF Init
<1>3. ClaimInv /\ MatchInv
  BY <1>2 DEF ClaimInv, MatchInv, Matched, Refusal
<1>5. ToldInv
  BY <1>2 DEF ToldInv
<1>4. ConfirmedIsBooked
  BY <1>2 DEF Init, ConfirmedIsBooked
<1> QED BY <1>1, <1>3, <1>4, <1>5 DEF DispatchInv

LEMMA DispatchInvariant == Spec => []DispatchInv
<1>1. DispatchInv /\ [Next]_vars => DispatchInv'
  BY RowsStep, ClaimStep, MatchStep, BookedStep, ToldStep DEF DispatchInv
<1> QED BY <1>1, DispatchInit, PTL DEF Spec

\* At most one booking POST leaves for one key, however often the client sends
\* it again, whatever handles it and wherever it crashes.
THEOREM OnePostPerKey == Spec => []AtMostOnePost
<1>1. DispatchInv => AtMostOnePost
  BY DEF DispatchInv, ClaimInv, AtMostOnePost
<1> QED BY <1>1, DispatchInvariant, PTL

\* A refused request never sends its POST; "provider_rejected" and "conflict"
\* stay true of the operation of its key.
THEOREM RefusalsAreBacked == Spec => []RefusalIsBacked
<1>1. DispatchInv => RefusalIsBacked
  BY DEF DispatchInv, ClaimInv, ToldInv, RefusalIsBacked, Refusal
<1> QED BY <1>1, DispatchInvariant, PTL

\* A confirmed reservation, its answer and its notification stand for a record
\* in the calendar, in the slot that is held.
THEOREM ConfirmationsAreBooked == Spec => []ConfirmedIsBooked
<1>1. DispatchInv => ConfirmedIsBooked
  BY DEF DispatchInv
<1> QED BY <1>1, DispatchInvariant, PTL

\* A court under a claimed attempt is given back by nobody but another request
\* of the same key that rejects it.
THEOREM ClaimsAreHeld == Spec => ClaimedIsHeld
<1>1. ASSUME DispatchInv, [Next]_vars
      PROVE  \A p \in Requests :
                LET k == req[p].key IN
                req[p].claim = "claimed" /\ hold[k] # NoSlot /\ hold'[k] = NoSlot
                  => \E q \in Requests \ {p} :
                        req[q].key = k /\ req[q].pc = "reject" /\ req'[q].pc = "done"
  <2> SUFFICES ASSUME NEW p \in Requests, req[p].claim = "claimed",
                      hold[req[p].key] # NoSlot, hold'[req[p].key] = NoSlot
               PROVE  \E q \in Requests \ {p} :
                         /\ req[q].key = req[p].key
                         /\ req[q].pc = "reject" /\ req'[q].pc = "done"
    OBVIOUS
  <2>0. Rows /\ ClaimInv /\ TypeOK /\ req[p].key \in Keys
    BY <1>1 DEF DispatchInv, Rows, TypeOK, Request
  <2>1. CASE OnlyControl
    BY <2>1 DEF OnlyControl
  <2>2. CASE \E k \in Keys, s \in Slots : Inserted(k, s)
    BY <2>0, <2>2, BookingAssumption DEF Inserted, TypeOK
  <2>3. ASSUME NEW k \in Keys, NEW command \in Issued, NEW scans \in 0..1,
               Settled(k, command, scans)
        PROVE  \E q \in Requests \ {p} :
                  /\ req[q].key = req[p].key
                  /\ req[q].pc = "reject" /\ req'[q].pc = "done"
    <3>1. k = req[p].key /\ command = "reject"
      BY <2>0, <2>3, PersistEffect DEF Settled, TypeOK
    <3>2. op[k].started
      BY <2>0, <3>1 DEF ClaimInv
    <3>3. PICK q \in Requests : /\ req[q].key = k
                               /\ req[q].pc = "reject" /\ req'[q].pc = "done"
      BY <2>3, <3>1, <3>2 DEF Settled
    <3>4. q # p
      BY <2>0, <3>3 DEF ClaimInv, Unclaimed
    <3> QED BY <3>1, <3>3, <3>4
  <2> QED BY <1>1, <2>0, <2>1, <2>2, <2>3, RowStep
<1> QED BY <1>1, DispatchInvariant, PTL DEF Spec, ClaimedIsHeld, ClaimStays

\* No POST follows the rejection of an attempt that nobody had claimed.
THEOREM RejectionsAreForGood == Spec => [][RejectionStays]_vars
<1>1. DispatchInv /\ [Next]_vars => RejectionStays
  BY RejectionStep DEF DispatchInv
<1> QED BY <1>1, DispatchInvariant, PTL DEF Spec

\* A confirmation rests on a record in the calendar, and a refusal on a request
\* that sent nothing and on what the operation of the key says.
THEOREM AnswersAreAlwaysBacked == Spec => []AnswersAreBacked
<1>1. ConfirmedIsBooked /\ RefusalIsBacked => AnswersAreBacked
  BY DEF AnswersAreBacked
<1> QED BY <1>1, ConfirmationsAreBooked, RefusalsAreBacked, PTL

\* What was decided stays decided.
THEOREM CommitmentsAlwaysStand == Spec => CommitmentsStand
BY OutcomeNeverChanges, ClaimsAreHeld, RejectionsAreForGood, PTL
   DEF CommitmentsStand, OutcomeIsFinal, ClaimedIsHeld
=============================================================================
