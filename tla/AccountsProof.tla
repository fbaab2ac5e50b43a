---------------------------- MODULE AccountsProof ---------------------------
(***************************************************************************)
(* What an account may count on: its login, its grants, its one-time codes, *)
(* the proof of its contact, its sessions, its onboarding and its level,   *)
(* each with the inductive invariant its safety property needs.            *)
(***************************************************************************)
EXTENDS SharedProperties, ReservationsProof, PlayerSession, PlayerOnboarding,
        LevelSurvey, NaturalsInduction, WellFoundedInduction

-----------------------------------------------------------------------------
(* TelegramLogin.                                                          *)

LoginPlaces == Working \cup Refusals \cup {"unavailable", "authenticated"}

SentRequest == [pc : LoginPlaces, key : Keys, proof : Proofs, now : 0..LastSecond,
                account : AccountIds \cup {NoAccount}]
LoginRequest == [pc : {"unsent"}] \cup SentRequest

LoginTyped ==
  /\ operations \subseteq OperationRow /\ noted \subseteq AuditRow /\ sessions \subseteq SessionRow
  /\ \A a \in accounts : a.id \in AccountIds
  /\ second \in 0..LastSecond
  /\ login \in [Logins -> LoginRequest]

\* What has been written was written by a request that has gone on since.
Past(q) == login[q].pc \notin {"unsent", "pending"}
Beyond(q) == login[q].pc \notin {"unsent", "pending", "account", "provision"}

RowsWritten ==
  /\ \A o \in operations : \E q \in Logins : Past(q) /\ Id(q) = o.id
  /\ \A e \in noted : \E q \in Logins : Past(q) /\ Id(q) = e.id
  /\ \A o \in operations : o.status = "completed" =>
       /\ \E q \in Logins : Beyond(q) /\ Id(q) = o.id
       /\ \E a \in accounts : a.user = Owner[o.id[2]]

\* A key and a proof belong to one operation.
OneOperation ==
  \A o, p \in operations : o.id[1] = p.id[1] \/ o.id[2] = p.id[2] => o = p

\* The operation was resolved to this account of its user.
Backed(id, account) ==
  \E a \in accounts, o \in operations :
    /\ a.id = account /\ a.user = Owner[id[2]]
    /\ o.id = id /\ o.status = "completed"
    /\ o.resolution \in {Resolved("new", NoAccount), Resolved("existing", account)}

SessionsFollow ==
  /\ \A s, t \in sessions : s.operation = t.operation => s = t
  /\ \A s \in sessions :
       /\ s.credential \in Logins /\ Id(s.credential) = s.operation
       /\ login[s.credential].pc \in {"authenticated", "unavailable"}
       /\ Backed(s.operation, s.account)

\* Another request of the same user, or with the same key.
HasRival(r) ==
  \E q \in Logins \ {r} : login[q].pc # "unsent" /\ (login[q].key = login[r].key \/ User(q) = User(r))
SameUser(r) == \E q \in Logins \ {r} : login[q].pc # "unsent" /\ User(q) = User(r)

\* What a request has found out still holds.
Standing(r) ==
  /\ login[r].pc \in {"account", "provision", "session"} => \E o \in operations : o.id = Id(r)
  /\ login[r].pc = "session" => Backed(Id(r), login[r].account)
  /\ login[r].pc = "provision" /\ Linked(User(r)) # {} => SameUser(r)
  /\ login[r].pc = "authenticated" => \E s \in sessions : s.credential = r
  /\ login[r].pc \in Refusals \ {"account_unavailable"} => HasRival(r)

LoginInv ==
  /\ LoginTyped /\ RowsWritten /\ OneOperation /\ SessionsFollow /\ OneAccountPerUser
  /\ \A r \in Logins : Standing(r)

LEMMA LoginInitially == LoginInit => LoginInv
<1> SUFFICES ASSUME LoginInit PROVE LoginInv
  OBVIOUS
<1>1. [pc |-> "unsent"] \in LoginRequest
  BY DEF LoginRequest
<1>2. LoginTyped
  BY <1>1, LoginAssumption DEF LoginInit, LoginTyped, AccountIds
<1>3. OneAccountPerUser
  BY DEF LoginInit, OneAccountPerUser
<1>4. \A r \in Logins : Standing(r)
  BY DEF LoginInit, Standing, Refusals
<1> QED BY <1>2, <1>3, <1>4 DEF LoginInit, LoginInv, RowsWritten, OneOperation, SessionsFollow

LEMMA LoginInvIsEnough == LoginInv => LoginsAreSound
<1> SUFFICES ASSUME LoginInv PROVE LoginsAreSound
  OBVIOUS
<1>1. ASSUME NEW r \in Logins, login[r].pc = "authenticated"
      PROVE  \E s \in sessions : s.credential = r /\ s.operation = Id(r) /\ Backed(Id(r), s.account)
  BY <1>1 DEF LoginInv, Standing, SessionsFollow
<1>2. AnswerIsBacked
  <2> SUFFICES ASSUME NEW r \in Logins, login[r].pc = "authenticated"
               PROVE  \E s \in sessions, a \in accounts, o \in operations :
                        /\ s.credential = r /\ s.operation = Id(r) /\ s.account = a.id
                        /\ a.user = User(r)
                        /\ o.id = Id(r)
                        /\ o.resolution \in {Resolved("new", NoAccount), Resolved("existing", a.id)}
    BY DEF AnswerIsBacked
  <2>1. PICK s \in sessions : s.credential = r /\ s.operation = Id(r) /\ Backed(Id(r), s.account)
    BY <1>1
  <2>2. Id(r)[2] = login[r].proof
    BY DEF Id
  <2> QED BY <2>1, <2>2 DEF Backed, User
<1>3. ProofEntersOnce
  <2> SUFFICES ASSUME NEW r \in Logins, NEW q \in Logins, r # q,
                      login[r].pc = "authenticated", login[q].pc = "authenticated",
                      login[r].key = login[q].key \/ login[r].proof = login[q].proof
               PROVE  FALSE
    BY DEF ProofEntersOnce
  <2>1. PICK s \in sessions : s.credential = r /\ s.operation = Id(r) /\ Backed(Id(r), s.account)
    BY <1>1
  <2>2. PICK t \in sessions : t.credential = q /\ t.operation = Id(q) /\ Backed(Id(q), t.account)
    BY <1>1
  <2>3. PICK o \in operations : o.id = Id(r)
    BY <2>1 DEF Backed
  <2>4. PICK p \in operations : p.id = Id(q)
    BY <2>2 DEF Backed
  <2>5. o = p
    BY <2>3, <2>4 DEF LoginInv, OneOperation, Id
  <2> QED BY <2>1, <2>2, <2>3, <2>4, <2>5 DEF LoginInv, SessionsFollow
<1>4. RefusalHasRival
  BY DEF LoginInv, Standing, HasRival, RefusalHasRival, Sent
<1> QED BY <1>2, <1>3, <1>4 DEF LoginInv, LoginsAreSound

-----------------------------------------------------------------------------
\* The request r goes on to pc, with this account; the others stay.
TurnsTo(r, pc, account) ==
  /\ login' \in [Logins -> LoginRequest]
  /\ \A q \in Logins \ {r} : login'[q] = login[q]
  /\ login'[r].pc = pc /\ login'[r].account = account
  /\ login'[r].key = login[r].key /\ login'[r].proof = login[r].proof /\ login'[r].now = login[r].now

LEMMA LoginIsSent ==
  ASSUME LoginInv, NEW r \in Logins, login[r].pc # "unsent"
  PROVE  /\ login[r] \in SentRequest
         /\ Id(r) \in Ids /\ Id(r)[1] = login[r].key /\ Id(r)[2] = login[r].proof
         /\ User(r) = Owner[Id(r)[2]]
<1>1. login[r] \in LoginRequest
  BY DEF LoginInv, LoginTyped
<1>2. login[r] \in SentRequest
  BY <1>1 DEF LoginRequest
<1>3. login[r].key \in Keys /\ login[r].proof \in Proofs
  BY <1>2 DEF SentRequest
<1> QED BY <1>2, <1>3 DEF Ids, Id, User

LEMMA GoTurns ==
  ASSUME LoginInv, NEW r \in Logins, login[r].pc # "unsent", NEW pc \in LoginPlaces, Go(r, pc)
  PROVE  TurnsTo(r, pc, login[r].account)
<1> DEFINE x == [login[r] EXCEPT !.pc = pc]
<1>1. login \in [Logins -> LoginRequest] /\ login[r] \in SentRequest
  BY LoginIsSent DEF LoginInv, LoginTyped
<1>2. /\ x \in SentRequest /\ x.pc = pc /\ x.account = login[r].account
      /\ x.key = login[r].key /\ x.proof = login[r].proof /\ x.now = login[r].now
  BY <1>1 DEF SentRequest
<1>3. login' = [login EXCEPT ![r] = x]
  BY <1>1 DEF Go
<1> HIDE DEF x
<1> QED BY <1>1, <1>2, <1>3 DEF TurnsTo, LoginRequest

LEMMA EnterTurns ==
  ASSUME LoginInv, NEW r \in Logins, login[r].pc # "unsent", NEW pc \in LoginPlaces,
         NEW account \in AccountIds,
         login' = [login EXCEPT ![r].pc = pc, ![r].account = account]
  PROVE  TurnsTo(r, pc, account)
<1> DEFINE x == [login[r] EXCEPT !.pc = pc, !.account = account]
<1>1. login \in [Logins -> LoginRequest] /\ login[r] \in SentRequest
  BY LoginIsSent DEF LoginInv, LoginTyped
<1>2. /\ x \in SentRequest /\ x.pc = pc /\ x.account = account
      /\ x.key = login[r].key /\ x.proof = login[r].proof /\ x.now = login[r].now
  BY <1>1 DEF SentRequest
<1>3. login' = [login EXCEPT ![r] = x]
  BY <1>1
<1> HIDE DEF x
<1> QED BY <1>1, <1>2, <1>3 DEF TurnsTo, LoginRequest

\* Rows only come, and what was completed stays.
RowsStay ==
  /\ accounts \subseteq accounts' /\ sessions \subseteq sessions'
  /\ \A o \in operations : o.status = "completed" => o \in operations'
  /\ \A o \in operations : \E p \in operations' : p.id = o.id

LEMMA BackedStays ==
  ASSUME RowsStay, NEW id, NEW account, Backed(id, account)
  PROVE  Backed(id, account)'
BY DEF RowsStay, Backed

\* A step of the request r: what it found out holds, and what the others rely on
\* stays.
LEMMA LoginGoesOn ==
  ASSUME LoginInv, NEW r \in Logins, login[r].pc \in Working, RowsStay,
         NEW pc \in LoginPlaces \ {"pending"}, NEW account, TurnsTo(r, pc, account),
         login[r].pc = "session" => pc \notin {"account", "provision"},
         operations' \subseteq OperationRow, noted' \subseteq AuditRow, sessions' \subseteq SessionRow,
         \A a \in accounts' : a.id \in AccountIds, second' = second,
         OneOperation', OneAccountPerUser',
         \A o \in operations' : (\E p \in operations : p.id = o.id) \/ o.id = Id(r),
         \A o \in operations' : o.status = "completed" =>
           \/ o \in operations
           \/ /\ login[r].pc # "pending" /\ pc \notin {"account", "provision"} /\ o.id = Id(r)
              /\ \E a \in accounts' : a.user = User(r),
         \A e \in noted' : e \in noted \/ e.id = Id(r),
         \A s, t \in sessions' : s.operation = t.operation => s = t,
         \A s \in sessions' : s \in sessions \/
           /\ s.credential = r /\ Id(r) = s.operation /\ pc \in {"authenticated", "unavailable"}
           /\ Backed(Id(r), s.account)',
         \A a \in accounts' : a \in accounts \/ a.user = User(r),
         pc \in {"account", "provision", "session"} => \E o \in operations' : o.id = Id(r),
         pc = "session" => Backed(Id(r), account)',
         pc = "provision" => \A a \in accounts' : a.user # User(r),
         pc = "authenticated" => \E s \in sessions' : s.credential = r,
         pc \in Refusals \ {"account_unavailable"} => HasRival(r)
  PROVE  LoginInv'
<1>1. \A q \in Logins : login[q].pc # "unsent" =>
        /\ login'[q].pc # "unsent" /\ Id(q)' = Id(q) /\ User(q)' = User(q)
        /\ login'[q].key = login[q].key
        /\ Past(q) => Past(q)'
        /\ Beyond(q) => Beyond(q)'
  BY DEF TurnsTo, Id, User, Past, Beyond, LoginPlaces, Working, Refusals
<1>2. login[r].pc # "unsent" /\ Past(r)'
  BY DEF TurnsTo, Past, LoginPlaces, Working, Refusals
<1>3. LoginTyped'
  BY DEF LoginInv, LoginTyped, TurnsTo
<1>4. RowsWritten'
  <2>1. ASSUME NEW o \in operations' PROVE \E q \in Logins : Past(q)' /\ Id(q)' = o.id
    <3>1. CASE o.id = Id(r)
      BY <1>1, <1>2, <3>1
    <3>2. CASE \E p \in operations : p.id = o.id
      <4>1. PICK q \in Logins : Past(q) /\ Id(q) = o.id
        BY <3>2 DEF LoginInv, RowsWritten
      <4> QED BY <1>1, <4>1 DEF Past
    <3> QED BY <3>1, <3>2
  <2>2. ASSUME NEW e \in noted' PROVE \E q \in Logins : Past(q)' /\ Id(q)' = e.id
    <3>1. CASE e.id = Id(r)
      BY <1>1, <1>2, <3>1
    <3>2. CASE e \in noted
      <4>1. PICK q \in Logins : Past(q) /\ Id(q) = e.id
        BY <3>2 DEF LoginInv, RowsWritten
      <4> QED BY <1>1, <4>1 DEF Past
    <3> QED BY <3>1, <3>2
  <2>3. ASSUME NEW o \in operations', o.status = "completed"
        PROVE  /\ \E q \in Logins : Beyond(q)' /\ Id(q)' = o.id
               /\ \E a \in accounts' : a.user = Owner[o.id[2]]
    <3>1. CASE o \in operations
      <4>1. PICK q \in Logins : Beyond(q) /\ Id(q) = o.id
        BY <2>3, <3>1 DEF LoginInv, RowsWritten
      <4>2. \E a \in accounts : a.user = Owner[o.id[2]]
        BY <2>3, <3>1 DEF LoginInv, RowsWritten
      <4> QED BY <1>1, <4>1, <4>2 DEF Beyond, RowsStay
    <3>2. CASE o \notin operations
      <4>1. /\ pc \notin {"account", "provision"} /\ o.id = Id(r)
            /\ \E a \in accounts' : a.user = User(r)
        BY <2>3, <3>2
      <4>2. Beyond(r)'
        BY <4>1 DEF Beyond, TurnsTo, LoginPlaces, Working, Refusals
      <4>3. User(r) = Owner[o.id[2]]
        BY <1>2, <4>1, LoginIsSent
      <4> QED BY <1>1, <1>2, <4>1, <4>2, <4>3
    <3> QED BY <3>1, <3>2
  <2> QED BY <2>1, <2>2, <2>3 DEF RowsWritten
<1>5. SessionsFollow'
  <2> SUFFICES ASSUME NEW s \in sessions'
               PROVE  /\ s.credential \in Logins /\ Id(s.credential)' = s.operation
                      /\ login'[s.credential].pc \in {"authenticated", "unavailable"}
                      /\ Backed(s.operation, s.account)'
    BY DEF SessionsFollow
  <2>1. CASE s \in sessions
    <3>1. /\ s.credential \in Logins /\ Id(s.credential) = s.operation
          /\ login[s.credential].pc \in {"authenticated", "unavailable"}
          /\ Backed(s.operation, s.account)
      BY <2>1 DEF LoginInv, SessionsFollow
    <3>2. s.credential # r
      BY <3>1 DEF Working
    <3>3. login'[s.credential] = login[s.credential]
      BY <3>1, <3>2 DEF TurnsTo
    <3> QED BY <1>1, <3>1, <3>3, BackedStays
  <2>2. CASE s \notin sessions
    <3>1. /\ s.credential = r /\ Id(r) = s.operation /\ pc \in {"authenticated", "unavailable"}
          /\ Backed(Id(r), s.account)'
      BY <2>2
    <3>2. Id(r)' = Id(r)
      BY <1>1, <1>2
    <3>3. Backed(s.operation, s.account)'
      BY <3>1, <3>2 DEF Backed
    <3> QED BY <3>1, <3>2, <3>3 DEF TurnsTo
  <2> QED BY <2>1, <2>2
<1>6. ASSUME NEW q \in Logins PROVE Standing(q)'
  <2>1. CASE q = r
    <3>1. Id(r)' = Id(r) /\ User(r)' = User(r) /\ login'[r].key = login[r].key
      BY <1>1, <1>2
    <3>2. HasRival(r) => HasRival(r)'
      BY <1>1, <3>1 DEF HasRival
    <3>3. pc = "provision" => Linked(User(r))' = {}
      BY <3>1 DEF Linked
    <3>4. login'[r].pc = pc /\ login'[r].account = account
      BY DEF TurnsTo
    <3>5. pc = "session" => Backed(Id(r), login[r].account)'
      BY <3>1, <3>4 DEF Backed
    <3> QED BY <2>1, <3>1, <3>2, <3>3, <3>4, <3>5 DEF Standing
  <2>2. CASE q # r
    <3>1. login'[q] = login[q] /\ Standing(q)
      BY <2>2 DEF TurnsTo, LoginInv
    <3>2. CASE login[q].pc = "unsent"
      BY <3>1, <3>2 DEF Standing, Refusals
    <3>3. CASE login[q].pc # "unsent"
      <4>1. Id(q)' = Id(q) /\ User(q)' = User(q) /\ login'[q].key = login[q].key
        BY <1>1, <3>3
      <4>2. HasRival(q) => HasRival(q)'
        BY <1>1, <4>1 DEF HasRival
      <4>3. SameUser(q) => SameUser(q)'
        BY <1>1, <4>1 DEF SameUser
      <4>4. Linked(User(q))' # {} => Linked(User(q)) # {} \/ User(r) = User(q)
        BY <4>1 DEF Linked
      <4>5. User(r) = User(q) => SameUser(q)
        BY <1>2, <2>2 DEF SameUser
      <4>6. login[q].pc = "provision" /\ Linked(User(q))' # {} => SameUser(q)'
        BY <3>1, <4>3, <4>4, <4>5 DEF Standing
      <4>7. login[q].pc = "session" => Backed(Id(q), login[q].account)'
        <5>1. PICK id, acc : id = Id(q) /\ acc = login[q].account
          OBVIOUS
        <5>2. Backed(id, acc) => Backed(id, acc)'
          BY BackedStays
        <5> QED BY <3>1, <4>1, <5>1, <5>2 DEF Standing, Backed
      <4>8. (\E o \in operations : o.id = Id(q)) => \E o \in operations' : o.id = Id(q)'
        BY <4>1 DEF RowsStay
      <4> QED BY <3>1, <4>1, <4>2, <4>6, <4>7, <4>8 DEF Standing, RowsStay
    <3> QED BY <3>2, <3>3
  <2> QED BY <2>1, <2>2
<1> QED BY <1>3, <1>4, <1>5, <1>6 DEF LoginInv

-----------------------------------------------------------------------------
(* The steps.                                                              *)

LEMMA SendLoginInv ==
  ASSUME LoginInv, NEW r \in Logins, NEW k \in Keys, NEW p \in Proofs, SendLogin(r, k, p)
  PROVE  LoginInv'
<1>1. PICK x : x = [pc |-> "pending", key |-> k, proof |-> p, now |-> second, account |-> NoAccount]
  OBVIOUS
<1>2. x \in LoginRequest /\ x.pc = "pending"
  BY <1>1 DEF LoginRequest, SentRequest, LoginPlaces, Working, LoginInv, LoginTyped
<1>3. /\ login[r].pc = "unsent" /\ login' = [login EXCEPT ![r] = x]
      /\ UNCHANGED <<operations, noted, accounts, sessions, second>>
  BY <1>1 DEF SendLogin
<1>4. login' \in [Logins -> LoginRequest]
      /\ \A q \in Logins : login'[q] = IF q = r THEN x ELSE login[q]
  BY <1>2, <1>3 DEF LoginInv, LoginTyped
<1>5. \A q \in Logins : login[q].pc # "unsent" =>
        /\ login'[q] = login[q] /\ Id(q)' = Id(q) /\ User(q)' = User(q)
        /\ (Past(q) => Past(q)') /\ (Beyond(q) => Beyond(q)')
  BY <1>3, <1>4 DEF Id, User, Past, Beyond
<1>6. RowsWritten'
  <2>1. ASSUME NEW o \in operations PROVE \E q \in Logins : Past(q)' /\ Id(q)' = o.id
    BY <1>5 DEF LoginInv, RowsWritten, Past
  <2>2. ASSUME NEW e \in noted PROVE \E q \in Logins : Past(q)' /\ Id(q)' = e.id
    BY <1>5 DEF LoginInv, RowsWritten, Past
  <2>3. ASSUME NEW o \in operations, o.status = "completed"
        PROVE  \E q \in Logins : Beyond(q)' /\ Id(q)' = o.id
    BY <1>5, <2>3 DEF LoginInv, RowsWritten, Beyond
  <2> QED BY <1>3, <2>1, <2>2, <2>3 DEF LoginInv, RowsWritten
<1>7. \A id, account : Backed(id, account)' <=> Backed(id, account)
  BY <1>3 DEF Backed
<1>8. SessionsFollow'
  BY <1>3, <1>5, <1>7 DEF LoginInv, SessionsFollow
<1>9. ASSUME NEW q \in Logins PROVE Standing(q)'
  <2>1. CASE q = r
    BY <1>2, <1>4, <2>1 DEF Standing, Refusals
  <2>2. CASE login[q].pc = "unsent" /\ q # r
    BY <1>4, <2>2 DEF Standing, Refusals
  <2>3. CASE login[q].pc # "unsent"
    <3>1. /\ login'[q] = login[q] /\ Id(q)' = Id(q) /\ User(q)' = User(q)
          /\ Linked(User(q))' = Linked(User(q))
      BY <1>3, <1>5, <2>3 DEF Linked
    <3>2. (HasRival(q) => HasRival(q)') /\ (SameUser(q) => SameUser(q)')
      BY <1>5, <3>1 DEF HasRival, SameUser
    <3>3. Backed(Id(q), login[q].account) => Backed(Id(q), login[q].account)'
      BY <1>3, <3>1 DEF Backed
    <3> QED BY <1>3, <3>1, <3>2, <3>3 DEF Standing, LoginInv
  <2> QED BY <2>1, <2>2, <2>3
<1> QED BY <1>3, <1>4, <1>6, <1>8, <1>9
    DEF LoginInv, LoginTyped, OneOperation, OneAccountPerUser

\* A request that writes nothing.
LEMMA AbortInv ==
  ASSUME LoginInv, NEW r \in Logins, login[r].pc \in Working,
         NEW pc \in Refusals \cup {"unavailable", "provision"}, Abort(r, pc),
         pc = "provision" => login[r].pc = "account" /\ Linked(User(r)) = {},
         pc \in Refusals \ {"account_unavailable"} => HasRival(r)
  PROVE  LoginInv'
<1>1. /\ UNCHANGED <<operations, noted, accounts, sessions, second>> /\ Go(r, pc)
      /\ login[r].pc # "unsent" /\ pc \in LoginPlaces \ {"pending"}
      /\ pc \notin {"account", "session", "authenticated"}
  BY DEF Abort, LoginAnswered, Working, LoginPlaces, Refusals
<1>2. TurnsTo(r, pc, login[r].account) /\ RowsStay
  BY <1>1, GoTurns DEF RowsStay
<1>3. \A o \in operations : \E p \in operations : p.id = o.id
  OBVIOUS
<1>4. pc = "provision" => /\ \E o \in operations : o.id = Id(r)
                          /\ \A a \in accounts : a.user # User(r)
  BY DEF LoginInv, Standing, Linked
<1>5. \A s, t \in sessions : s.operation = t.operation => s = t
  BY DEF LoginInv, SessionsFollow
<1>6. OneOperation' /\ OneAccountPerUser'
  BY <1>1 DEF LoginInv, OneOperation, OneAccountPerUser
<1>7. /\ operations \subseteq OperationRow /\ noted \subseteq AuditRow /\ sessions \subseteq SessionRow
      /\ \A a \in accounts : a.id \in AccountIds
  BY DEF LoginInv, LoginTyped
<1>8. login[r].pc = "session" => pc # "provision"
  OBVIOUS
<1> QED BY <1>1, <1>2, <1>3, <1>4, <1>5, <1>6, <1>7, <1>8, LoginGoesOn

\* Whoever wrote a row that r meets is not r.
LEMMA AuthorIsRival ==
  ASSUME LoginInv, NEW r \in Logins, NEW q \in Logins, login[r].pc # "unsent", login[q].pc # "unsent",
         q # r, Id(q)[1] = Id(r)[1] \/ Id(q)[2] = Id(r)[2]
  PROVE  HasRival(r)
BY LoginIsSent DEF HasRival

LEMMA PersistInv ==
  ASSUME LoginInv, NEW r \in Logins, PersistPending(r)
  PROVE  LoginInv'
<1>1. login[r].pc = "pending" /\ login[r].pc \in Working /\ login[r].pc # "unsent"
  BY DEF PersistPending, Working
<1>2. login[r] \in SentRequest /\ Id(r) \in Ids
  BY <1>1, LoginIsSent
<1>3. \A q \in Logins : Past(q) => q # r /\ login[q].pc # "unsent"
  BY <1>1 DEF Past
<1>4. CASE Abort(r, "unavailable")
  BY <1>1, <1>4, AbortInv DEF Refusals
<1>5. CASE ~AuditAgrees(r) /\ Abort(r, "internal_failure")
  <2>1. PICK e \in noted : e.id = Id(r)
    BY <1>5 DEF AuditAgrees
  <2>2. PICK q \in Logins : Past(q) /\ Id(q) = e.id
    BY DEF LoginInv, RowsWritten
  <2>3. HasRival(r)
    BY <1>1, <1>3, <2>1, <2>2, AuthorIsRival
  <2> QED BY <1>1, <1>5, <2>3, AbortInv DEF Refusals
<1>6. CASE /\ noted' = noted \cup {Event(r)}
           /\ operations' = IF Found(r) = "created" /\ ~ExactRetry(r)
                            THEN operations \cup NewRow(r) ELSE operations
           /\ IF Found(r) = "created" THEN Committed(r, "account") ELSE Committed(r, Found(r))
           /\ UNCHANGED <<accounts, blocked, sessions, second>>
  <2>1. PICK o0 : o0 = [id |-> Id(r), at |-> login[r].now, status |-> "pending", resolution |-> Unresolved]
    OBVIOUS
  <2>2. PICK e0 : e0 = Event(r)
    OBVIOUS
  <2>3. Found(r) \in {"created", "request_conflict", "proof_replayed"}
    BY DEF Found
  <2>4. login[r].now \in 0..LastSecond
    BY <1>2 DEF SentRequest
  <2>5. e0 \in AuditRow /\ e0.id = Id(r)
    BY <1>2, <2>2, <2>3, <2>4 DEF Event, AuditRow
  <2>6. Unresolved \in Resolution
    BY DEF Unresolved, Resolved, Resolution
  <2>7. o0 \in OperationRow /\ o0.id = Id(r) /\ o0.status = "pending"
    BY <1>2, <2>1, <2>4, <2>6 DEF OperationRow
  <2>8. PICK next \in {"account", "request_conflict", "proof_replayed", "unavailable"} :
          /\ Go(r, next)
          /\ next = "account" => Found(r) = "created"
          /\ next \notin {"account", "unavailable"} => Found(r) = next
    BY <1>6, <2>3 DEF Committed
  <2>9. next \in LoginPlaces \ {"pending"} /\ next \notin {"provision", "session", "authenticated"}
    BY DEF LoginPlaces, Working, Refusals
  <2>10. TurnsTo(r, next, login[r].account)
    BY <1>1, <2>8, <2>9, GoTurns
  <2>11. noted' = noted \cup {e0} /\ accounts' = accounts /\ sessions' = sessions /\ second' = second
    BY <1>6, <2>2
  <2>12. \/ operations' = operations
         \/ /\ operations' = operations \cup {o0}
            /\ \A o \in operations : o.id[1] # Id(r)[1] /\ o.id[2] # Id(r)[2]
    <3>1. Found(r) = "created" /\ ~ExactRetry(r) => SameKey(r) \cup SameProof(r) = {}
      BY DEF Found
    <3>2. Id(r)[1] = login[r].key /\ Id(r)[2] = login[r].proof
      BY <1>1, LoginIsSent
    <3> QED BY <1>6, <2>1, <3>1, <3>2 DEF SameKey, SameProof, NewRow
  <2>13. RowsStay
    BY <2>11, <2>12 DEF RowsStay
  <2>14. operations' \subseteq OperationRow /\ noted' \subseteq AuditRow /\ sessions' \subseteq SessionRow
         /\ \A a \in accounts' : a.id \in AccountIds
    BY <2>5, <2>7, <2>11, <2>12 DEF LoginInv, LoginTyped
  <2>15. OneOperation' /\ OneAccountPerUser'
    BY <2>7, <2>11, <2>12 DEF LoginInv, OneOperation, OneAccountPerUser
  <2>16. /\ \A o \in operations' : (\E p \in operations : p.id = o.id) \/ o.id = Id(r)
         /\ \A o \in operations' : o.status = "completed" => o \in operations
         /\ \A e \in noted' : e \in noted \/ e.id = Id(r)
    BY <2>5, <2>7, <2>11, <2>12
  <2>17. next = "account" => \E o \in operations' : o.id = Id(r)
    <3>1. CASE Found(r) = "created" /\ ~ExactRetry(r)
      BY <1>6, <2>1, <2>7, <3>1 DEF NewRow
    <3>2. CASE ExactRetry(r)
      BY <2>12, <3>2 DEF ExactRetry
    <3> QED BY <2>8, <3>1, <3>2
  <2>18. next \in Refusals \ {"account_unavailable"} => HasRival(r)
    <3> SUFFICES ASSUME next \in {"request_conflict", "proof_replayed"} PROVE HasRival(r)
      BY DEF Refusals
    <3>1. SameKey(r) \cup SameProof(r) # {}
      BY <2>8 DEF Found
    <3>2. PICK o \in operations : o.id[1] = login[r].key \/ o.id[2] = login[r].proof
      BY <3>1 DEF SameKey, SameProof
    <3>3. PICK q \in Logins : Past(q) /\ Id(q) = o.id
      BY DEF LoginInv, RowsWritten
    <3>4. Id(r)[1] = login[r].key /\ Id(r)[2] = login[r].proof
      BY <1>1, LoginIsSent
    <3> QED BY <1>1, <1>3, <3>2, <3>3, <3>4, AuthorIsRival
  <2>19. \A s, t \in sessions' : s.operation = t.operation => s = t
    BY <2>11 DEF LoginInv, SessionsFollow
  <2> QED BY <1>1, <2>9, <2>10, <2>11, <2>13, <2>14, <2>15, <2>16, <2>17, <2>18, <2>19, LoginGoesOn
<1> QED BY <1>4, <1>5, <1>6 DEF PersistPending

\* What completing the operation of r leaves of the operations.
LEMMA Completing ==
  ASSUME LoginInv, NEW r \in Logins, NEW o \in operations, o.id = Id(r),
         NEW resolution \in Resolution,
         o.status = "pending" \/ o.resolution = resolution, CompleteWith(r, resolution)
  PROVE  /\ operations' \subseteq OperationRow /\ OneOperation'
         /\ \A x \in operations : \E y \in operations' : y.id = x.id
         /\ \A x \in operations : x.status = "completed" => x \in operations'
         /\ \A x \in operations' : \E y \in operations : y.id = x.id
         /\ \A x \in operations' : x \in operations \/ x.id = Id(r)
         /\ \E x \in operations' : x.id = Id(r) /\ x.status = "completed" /\ x.resolution = resolution
<1> DEFINE c == [o EXCEPT !.status = "completed", !.resolution = resolution]
<1>1. o \in OperationRow
  BY DEF LoginInv, LoginTyped
<1>2. /\ c \in OperationRow /\ c.id = o.id /\ c.at = o.at
      /\ c.status = "completed" /\ c.resolution = resolution
  BY <1>1 DEF OperationRow
<1>3. \A x \in operations : x.id = Id(r) => x = o
  BY DEF LoginInv, OneOperation
<1>4. operations' = (operations \ {o}) \cup {c}
  BY <1>3 DEF CompleteWith
<1> HIDE DEF c
<1>5. o.status = "completed" => o = c
  BY <1>1, <1>2 DEF OperationRow
<1> QED BY <1>1, <1>2, <1>3, <1>4, <1>5 DEF LoginInv, LoginTyped, OneOperation

LEMMA ResolveInv ==
  ASSUME LoginInv, NEW r \in Logins, ResolveAccount(r)
  PROVE  LoginInv'
<1>1. login[r].pc = "account" /\ login[r].pc \in Working /\ login[r].pc # "unsent"
  BY DEF ResolveAccount, Working
<1>2. CASE Abort(r, "unavailable")
  BY <1>1, <1>2, AbortInv DEF Refusals
<1>3. CASE Linked(User(r)) = {} /\ Abort(r, "provision")
  BY <1>1, <1>3, AbortInv DEF Refusals
<1>4. ASSUME NEW a \in Linked(User(r)),
             IF Completes(OperationOf(r), ResolutionFor(a))
             THEN /\ CompleteWith(r, ResolutionFor(a))
                  /\ \/ login' = [login EXCEPT ![r].pc = IF a.id \in blocked
                                                         THEN "account_unavailable" ELSE "session",
                                               ![r].account = a.id]
                     \/ Go(r, "unavailable")
                  /\ UNCHANGED <<noted, accounts, blocked, sessions, second>>
             ELSE Abort(r, "internal_failure")
      PROVE  LoginInv'
  <2>1. PICK o \in operations : o.id = Id(r)
    BY <1>1 DEF LoginInv, Standing
  <2>2. OperationOf(r) = o
    BY <2>1 DEF OperationOf, LoginInv, OneOperation
  <2>3. PICK resolution : resolution = ResolutionFor(a)
    OBVIOUS
  <2>4. a \in accounts /\ a.user = User(r) /\ a.id \in AccountIds
    BY DEF Linked, LoginInv, LoginTyped
  <2>5. resolution \in Resolution
        /\ (a.id \notin blocked => resolution = Resolved("existing", a.id))
    BY <2>3, <2>4 DEF ResolutionFor, Resolved, Resolution
  <2>6. CASE ~Completes(o, resolution)
    <3>1. o.status = "completed"
      BY <2>6 DEF Completes, LoginInv, LoginTyped, OperationRow
    <3>2. PICK q \in Logins : Beyond(q) /\ Id(q) = o.id
      BY <3>1 DEF LoginInv, RowsWritten
    <3>3. HasRival(r)
      BY <1>1, <2>1, <3>2, AuthorIsRival DEF Beyond
    <3> QED BY <1>1, <1>4, <2>2, <2>3, <2>6, <3>3, AbortInv DEF Refusals
  <2>7. CASE Completes(o, resolution)
    <3>1. CompleteWith(r, resolution) /\ UNCHANGED <<noted, accounts, blocked, sessions, second>>
      BY <1>4, <2>2, <2>3, <2>7
    <3>2. /\ operations' \subseteq OperationRow /\ OneOperation'
          /\ \A x \in operations : \E y \in operations' : y.id = x.id
          /\ \A x \in operations : x.status = "completed" => x \in operations'
          /\ \A x \in operations' : \E y \in operations : y.id = x.id
          /\ \A x \in operations' : x \in operations \/ x.id = Id(r)
          /\ \E x \in operations' : x.id = Id(r) /\ x.status = "completed" /\ x.resolution = resolution
      BY <2>1, <2>5, <2>7, <3>1, Completing DEF Completes
    <3>3. RowsStay
      BY <3>1, <3>2 DEF RowsStay
    <3>4. PICK next \in {"account_unavailable", "session", "unavailable"},
               account \in {login[r].account, a.id} :
            /\ TurnsTo(r, next, account)
            /\ next = "session" => account = a.id /\ a.id \notin blocked
      <4>1. "session" \in LoginPlaces /\ "account_unavailable" \in LoginPlaces
            /\ "unavailable" \in LoginPlaces
        BY DEF LoginPlaces, Working, Refusals
      <4>2. CASE Go(r, "unavailable")
        BY <1>1, <4>1, <4>2, GoTurns
      <4>3. CASE ~Go(r, "unavailable") /\ a.id \in blocked
        <5>1. login' = [login EXCEPT ![r].pc = "account_unavailable", ![r].account = a.id]
          BY <1>4, <2>2, <2>3, <2>7, <4>3
        <5> QED BY <1>1, <2>4, <4>1, <5>1, EnterTurns
      <4>4. CASE ~Go(r, "unavailable") /\ a.id \notin blocked
        <5>1. login' = [login EXCEPT ![r].pc = "session", ![r].account = a.id]
          BY <1>4, <2>2, <2>3, <2>7, <4>4
        <5> QED BY <1>1, <2>4, <4>1, <4>4, <5>1, EnterTurns
      <4> QED BY <4>2, <4>3, <4>4
    <3>5. next \in LoginPlaces \ {"pending"} /\ next \notin {"account", "provision", "authenticated"}
          /\ next \notin Refusals \ {"account_unavailable"}
      BY DEF LoginPlaces, Working, Refusals
    <3>6. Id(r)' = Id(r) /\ User(r)' = User(r) /\ User(r) = Owner[Id(r)[2]]
      BY <1>1, <3>4, LoginIsSent DEF TurnsTo, Id, User
    <3>7. next = "session" => Backed(Id(r), account)'
      <4> SUFFICES ASSUME next = "session" PROVE Backed(Id(r), account)'
        OBVIOUS
      <4>1. account = a.id /\ resolution = Resolved("existing", account) /\ a \in accounts'
        BY <2>4, <2>5, <3>1, <3>4
      <4>2. PICK x \in operations' : x.id = Id(r) /\ x.status = "completed" /\ x.resolution = resolution
        BY <3>2
      <4> QED BY <2>4, <3>6, <4>1, <4>2 DEF Backed
    <3>8. OneAccountPerUser'
      BY <3>1 DEF LoginInv, OneAccountPerUser
    <3>9. \A s, t \in sessions : s.operation = t.operation => s = t
      BY DEF LoginInv, SessionsFollow
    <3>10. \A x \in operations' : x.status = "completed" =>
             x \in operations \/ (x.id = Id(r) /\ \E b \in accounts' : b.user = User(r))
      BY <2>4, <3>1, <3>2
    <3>11. noted \subseteq AuditRow /\ sessions \subseteq SessionRow
           /\ \A b \in accounts : b.id \in AccountIds
      BY DEF LoginInv, LoginTyped
    <3>12. \E x \in operations' : x.id = Id(r)
      BY <3>2
    <3> QED BY <1>1, <3>1, <3>2, <3>3, <3>4, <3>5, <3>7, <3>8, <3>9, <3>10, <3>11, <3>12, LoginGoesOn
  <2> QED BY <2>6, <2>7
<1> QED BY <1>1, <1>2, <1>3, <1>4 DEF ResolveAccount

LEMMA ProvisionInv ==
  ASSUME LoginInv, NEW r \in Logins, ProvisionAccount(r)
  PROVE  LoginInv'
<1>1. login[r].pc = "provision" /\ login[r].pc \in Working /\ login[r].pc # "unsent"
  BY DEF ProvisionAccount, Working
<1>2. CASE Abort(r, "unavailable")
  BY <1>1, <1>2, AbortInv DEF Refusals
<1>3. CASE Reserved(r) /\ Abort(r, "request_conflict")
  <2>1. HasRival(r)
    BY <1>1, <1>3 DEF Reserved, LoginInv, Standing, SameUser, HasRival
  <2> QED BY <1>1, <1>3, <2>1, AbortInv DEF Refusals
<1>4. CASE /\ ~Reserved(r)
           /\ accounts' = accounts \cup {[id |-> Id(r), user |-> User(r)]}
           /\ CompleteWith(r, Resolved("new", NoAccount))
           /\ \/ login' = [login EXCEPT ![r].pc = "session", ![r].account = Id(r)]
              \/ Go(r, "unavailable")
           /\ UNCHANGED <<noted, blocked, sessions, second>>
  <2>1. PICK o \in operations : o.id = Id(r)
    BY <1>1 DEF LoginInv, Standing
  <2>2. User(r) = Owner[Id(r)[2]] /\ Id(r) \in Ids /\ Id(r) \in AccountIds
    BY <1>1, LoginIsSent DEF AccountIds
  <2>3. o.status = "pending"
    <3>1. \A b \in accounts : b.user # User(r)
      BY <1>4 DEF Reserved, Linked
    <3> QED BY <2>1, <2>2, <3>1 DEF LoginInv, LoginTyped, OperationRow, RowsWritten
  <2>4. PICK resolution : resolution = Resolved("new", NoAccount)
    OBVIOUS
  <2>5. resolution \in Resolution
    BY <2>4 DEF Resolved, Resolution
  <2>6. /\ operations' \subseteq OperationRow /\ OneOperation'
        /\ \A x \in operations : \E y \in operations' : y.id = x.id
        /\ \A x \in operations : x.status = "completed" => x \in operations'
        /\ \A x \in operations' : \E y \in operations : y.id = x.id
        /\ \A x \in operations' : x \in operations \/ x.id = Id(r)
        /\ \E x \in operations' : x.id = Id(r) /\ x.status = "completed" /\ x.resolution = resolution
    BY <1>4, <2>1, <2>3, <2>4, <2>5, Completing
  <2>7. PICK a : a = [id |-> Id(r), user |-> User(r)]
    OBVIOUS
  <2>8. accounts' = accounts \cup {a} /\ a.id = Id(r) /\ a.user = User(r)
    BY <1>4, <2>7
  <2>9. RowsStay
    BY <1>4, <2>6, <2>8 DEF RowsStay
  <2>10. PICK next \in {"session", "unavailable"}, account \in {login[r].account, Id(r)} :
           TurnsTo(r, next, account) /\ (next = "session" => account = Id(r))
    BY <1>1, <1>4, <2>2, GoTurns, EnterTurns DEF LoginPlaces, Working
  <2>11. next \in LoginPlaces \ {"pending"} /\ next \notin {"account", "provision", "authenticated"}
         /\ next \notin Refusals
    BY DEF LoginPlaces, Working, Refusals
  <2>12. Id(r)' = Id(r)
    BY <2>10 DEF TurnsTo, Id
  <2>13. next = "session" => Backed(Id(r), account)'
    BY <2>2, <2>4, <2>6, <2>8, <2>10, <2>12 DEF Backed
  <2>14. OneAccountPerUser'
    <3>1. \A b \in accounts : b.user # User(r)
      BY <1>4 DEF Reserved, Linked
    <3> QED BY <2>8, <3>1 DEF LoginInv, OneAccountPerUser
  <2>15. \A s, t \in sessions : s.operation = t.operation => s = t
    BY DEF LoginInv, SessionsFollow
  <2>16. \A x \in operations' : x.status = "completed" =>
           x \in operations \/ (x.id = Id(r) /\ \E b \in accounts' : b.user = User(r))
    BY <2>6, <2>8
  <2>17. noted \subseteq AuditRow /\ sessions \subseteq SessionRow
         /\ \A b \in accounts' : b.id \in AccountIds
    BY <2>2, <2>8 DEF LoginInv, LoginTyped
  <2>18. \E x \in operations' : x.id = Id(r)
    BY <2>6
  <2>19. \A b \in accounts' : b \in accounts \/ b.user = User(r)
    BY <2>8
  <2>20. noted' = noted /\ sessions' = sessions /\ second' = second
    BY <1>4
  <2> QED BY <1>1, <2>6, <2>9, <2>10, <2>11, <2>13, <2>14, <2>15, <2>16, <2>17, <2>18, <2>19, <2>20, LoginGoesOn
<1> QED BY <1>2, <1>3, <1>4 DEF ProvisionAccount

LEMMA CreateSessionInv ==
  ASSUME LoginInv, NEW r \in Logins, CreateSession(r)
  PROVE  LoginInv'
<1>1. login[r].pc = "session" /\ login[r].pc \in Working /\ login[r].pc # "unsent"
  BY DEF CreateSession, Working
<1>2. CASE Abort(r, "unavailable")
  BY <1>1, <1>2, AbortInv DEF Refusals
<1>3. CASE Abort(r, "account_unavailable")
  BY <1>1, <1>3, AbortInv DEF Refusals
<1>4. CASE SessionOf(r) # {} /\ Abort(r, "request_conflict")
  <2>1. PICK s \in sessions : s.operation = Id(r)
    BY <1>4 DEF SessionOf
  <2>2. /\ s.credential \in Logins /\ Id(s.credential) = Id(r)
        /\ login[s.credential].pc \in {"authenticated", "unavailable"}
    BY <2>1 DEF LoginInv, SessionsFollow
  <2>3. HasRival(r)
    BY <1>1, <2>2, AuthorIsRival
  <2> QED BY <1>1, <1>4, <2>3, AbortInv DEF Refusals
<1>5. CASE /\ SessionOf(r) = {}
           /\ sessions' = sessions \cup {[operation |-> Id(r), account |-> SessionAccount(r),
                                          credential |-> r]}
           /\ Committed(r, "authenticated")
           /\ UNCHANGED <<operations, noted, accounts, blocked, second>>
  <2>1. PICK s : s = [operation |-> Id(r), account |-> login[r].account, credential |-> r]
    OBVIOUS
  <2>2. Backed(Id(r), login[r].account)
    BY <1>1 DEF LoginInv, Standing
  <2>3. Id(r) \in Ids /\ login[r].account \in AccountIds
    BY <1>1, <2>2, LoginIsSent DEF Backed, LoginInv, LoginTyped
  <2>4. /\ s \in SessionRow /\ s.operation = Id(r) /\ s.credential = r
        /\ s.account = login[r].account
    BY <2>1, <2>3 DEF SessionRow
  <2>5. sessions' = sessions \cup {s}
    BY <1>5, <2>1 DEF SessionAccount
  <2>6. PICK next \in {"authenticated", "unavailable"} : TurnsTo(r, next, login[r].account)
    BY <1>1, <1>5, GoTurns DEF Committed, LoginPlaces
  <2>7. next \in LoginPlaces \ {"pending"} /\ next \notin Refusals
        /\ next \notin {"account", "provision", "session"}
    BY DEF LoginPlaces, Working, Refusals
  <2>8. Id(r)' = Id(r)
    BY <2>6 DEF TurnsTo, Id
  <2>9. RowsStay
    BY <1>5, <2>5 DEF RowsStay
  <2>10. Backed(Id(r), s.account)'
    BY <1>5, <2>2, <2>4, <2>8 DEF Backed
  <2>11. \A t, u \in sessions' : t.operation = u.operation => t = u
    BY <1>5, <2>4, <2>5 DEF LoginInv, SessionsFollow, SessionOf
  <2>12. OneOperation' /\ OneAccountPerUser'
    BY <1>5 DEF LoginInv, OneOperation, OneAccountPerUser
  <2>13. /\ operations \subseteq OperationRow /\ noted \subseteq AuditRow
         /\ sessions' \subseteq SessionRow /\ \A a \in accounts : a.id \in AccountIds
    BY <2>4, <2>5 DEF LoginInv, LoginTyped
  <2>14. \A t \in sessions' : t \in sessions \/
           /\ t.credential = r /\ Id(r) = t.operation /\ Backed(Id(r), t.account)'
    BY <2>4, <2>5, <2>10
  <2>15. \E t \in sessions' : t.credential = r
    BY <2>4, <2>5
  <2>16. \A o \in operations : \E p \in operations : p.id = o.id
    OBVIOUS
  <2>17. operations' = operations /\ noted' = noted /\ accounts' = accounts /\ second' = second
    BY <1>5
  <2> QED BY <1>1, <2>6, <2>7, <2>9, <2>11, <2>12, <2>13, <2>14, <2>15, <2>16, <2>17, LoginGoesOn
<1> QED BY <1>2, <1>3, <1>4, <1>5 DEF CreateSession

LEMMA LoginStepInv == LoginInv /\ [LoginNext]_loginVars => LoginInv'
<1> SUFFICES ASSUME LoginInv, [LoginNext]_loginVars PROVE LoginInv'
  OBVIOUS
<1>1. ASSUME NEW r \in Logins, NEW k \in Keys, NEW p \in Proofs, SendLogin(r, k, p) PROVE LoginInv'
  BY <1>1, SendLoginInv
<1>2. ASSUME NEW r \in Logins, LoginStep(r) PROVE LoginInv'
  BY <1>2, PersistInv, ResolveInv, ProvisionInv, CreateSessionInv DEF LoginStep
<1>3. ASSUME UNCHANGED <<operations, noted, accounts, sessions, login>>, second' \in 0..LastSecond
      PROVE  LoginInv'
  <2>1. LoginTyped' /\ RowsWritten' /\ OneOperation' /\ OneAccountPerUser'
    BY <1>3 DEF LoginInv, LoginTyped, RowsWritten, Past, Beyond, Id, OneOperation, OneAccountPerUser
  <2>2. SessionsFollow'
    BY <1>3 DEF LoginInv, SessionsFollow, Backed, Id
  <2>3. ASSUME NEW r \in Logins PROVE Standing(r)'
    <3>1. Id(r)' = Id(r) /\ Linked(User(r))' = Linked(User(r))
      BY <1>3 DEF Id, User, Linked
    <3>2. (HasRival(r) => HasRival(r)') /\ (SameUser(r) => SameUser(r)')
      BY <1>3 DEF HasRival, SameUser, User
    <3>3. Backed(Id(r), login[r].account) => Backed(Id(r), login[r].account)'
      BY <1>3 DEF Backed, Id
    <3> QED BY <1>3, <3>1, <3>2, <3>3 DEF LoginInv, Standing
  <2> QED BY <2>1, <2>2, <2>3 DEF LoginInv
<1>4. ASSUME NEW a \in accounts, BlockAccount(a) PROVE LoginInv'
  BY <1>3, <1>4 DEF BlockAccount, LoginInv, LoginTyped
<1>5. ASSUME NextSecond PROVE LoginInv'
  <2>1. second' \in 0..LastSecond
    BY <1>5, LoginAssumption DEF NextSecond, LoginInv, LoginTyped
  <2> QED BY <1>3, <1>5, <2>1 DEF NextSecond
<1>6. ASSUME UNCHANGED loginVars PROVE LoginInv'
  BY <1>3, <1>6 DEF loginVars, LoginInv, LoginTyped
<1> QED BY <1>1, <1>2, <1>4, <1>5, <1>6 DEF LoginNext

\* Logins that race, repeat or stop between their transactions make one account
\* for a user and one session for a proof; an answer is what was stored, and a
\* refusal has a cause.
THEOREM LoginsAreAlwaysSound == LoginSpec => []LoginsAreSound
BY LoginInitially, LoginStepInv, LoginInvIsEnough, PTL DEF LoginSpec

LEMMA LoginOutcomesStandStep ==
  LoginInv /\ [LoginNext]_loginVars => [BlockedAccountStaysOut /\ ResolutionIsFinal]_loginVars
<1> SUFFICES ASSUME LoginInv, LoginNext PROVE BlockedAccountStaysOut /\ ResolutionIsFinal
  OBVIOUS
<1>1. ASSUME NEW s \in sessions' \ sessions PROVE s.account \notin blocked
  <2>1. PICK r \in Logins : CreateSession(r)
    BY <1>1 DEF LoginNext, SendLogin, LoginStep, PersistPending, ResolveAccount, ProvisionAccount,
                BlockAccount, NextSecond, Abort
  <2> QED BY <1>1, <2>1 DEF CreateSession, Abort, MayEnter, SessionAccount
<1>2. ASSUME NEW o \in operations, o.status = "completed" PROVE o \in operations'
  <2>1. CASE operations' = operations
    BY <2>1
  <2>2. ASSUME NEW r \in Logins, PersistPending(r) PROVE o \in operations'
    BY <2>2 DEF PersistPending, Abort
  <2>3. ASSUME NEW r \in Logins, ResolveAccount(r) PROVE o \in operations'
    <3>1. PICK p \in operations : p.id = Id(r)
      BY <2>3 DEF ResolveAccount, LoginInv, Standing
    <3>2. OperationOf(r) = p
      BY <3>1 DEF OperationOf, LoginInv, OneOperation
    <3>3. CASE operations' = operations
      BY <3>3
    <3>4. ASSUME NEW a \in Linked(User(r)), Completes(p, ResolutionFor(a)),
                 CompleteWith(r, ResolutionFor(a))
          PROVE  o \in operations'
      <4>1. ResolutionFor(a) \in Resolution
        BY DEF Linked, LoginInv, LoginTyped, ResolutionFor, Resolved, Resolution
      <4> QED BY <1>2, <3>1, <3>4, <4>1, Completing DEF Completes
    <3> QED BY <2>3, <3>2, <3>3, <3>4 DEF ResolveAccount, Abort
  <2>4. ASSUME NEW r \in Logins, ProvisionAccount(r) PROVE o \in operations'
    <3>1. PICK p \in operations : p.id = Id(r)
      BY <2>4 DEF ProvisionAccount, LoginInv, Standing
    <3>2. CASE operations' = operations
      BY <3>2
    <3>3. CASE ~Reserved(r) /\ CompleteWith(r, Resolved("new", NoAccount))
      <4>1. Resolved("new", NoAccount) \in Resolution
        BY DEF Resolved, Resolution
      <4>2. User(r) = Owner[Id(r)[2]]
        BY <2>4, LoginIsSent DEF ProvisionAccount
      <4>3. p.status = "pending"
        BY <3>1, <3>3, <4>2 DEF Reserved, Linked, LoginInv, LoginTyped, OperationRow, RowsWritten
      <4> QED BY <1>2, <3>1, <3>3, <4>1, <4>3, Completing
    <3> QED BY <2>4, <3>2, <3>3 DEF ProvisionAccount, Abort
  <2> QED BY <2>1, <2>2, <2>3, <2>4
      DEF LoginNext, SendLogin, LoginStep, CreateSession, BlockAccount, NextSecond, Abort
<1> QED BY <1>1, <1>2 DEF BlockedAccountStaysOut, ResolutionIsFinal

\* No later request takes back the resolution of an operation, and no account
\* that is blocked when a session is made gets one.
THEOREM LoginOutcomesAreFinal == LoginSpec => LoginOutcomesStand
BY LoginInitially, LoginStepInv, LoginOutcomesStandStep, PTL DEF LoginSpec, LoginOutcomesStand

\* An account is of a user who has a proof, and one that is blocked exists.
AccountRow == [id : AccountIds, user : {Owner[p] : p \in Proofs}]
AccountsFit == accounts \subseteq AccountRow /\ blocked \subseteq AccountIds

LEMMA AccountsStayFit ==
  ASSUME LoginInv, AccountsFit, [LoginNext]_loginVars PROVE AccountsFit'
<1>0. login \in [Logins -> LoginRequest]
  BY DEF LoginInv, LoginTyped
<1>1. CASE UNCHANGED <<accounts, blocked>>
  BY <1>1 DEF AccountsFit
<1>2. ASSUME NEW r \in Logins, ProvisionAccount(r), ~UNCHANGED <<accounts, blocked>> PROVE AccountsFit'
  <2>1. PICK id, user : id = Id(r) /\ user = User(r)
    OBVIOUS
  <2>2. PICK a : a = [id |-> id, user |-> user]
    OBVIOUS
  <2>3. accounts' = accounts \cup {a} /\ blocked' = blocked /\ login[r].pc = "provision"
    BY <1>2, <2>1, <2>2 DEF ProvisionAccount, Abort
  <2>4. login[r] \in SentRequest
    <3>1. login[r] \in LoginRequest
      BY <1>0
    <3> QED BY <2>3, <3>1 DEF LoginRequest
  <2>5. id \in Ids /\ user \in {Owner[p] : p \in Proofs}
    BY <2>1, <2>4 DEF SentRequest, Id, User, Ids
  <2>6. a \in AccountRow
    BY <2>2, <2>5 DEF AccountRow, AccountIds
  <2> QED BY <2>3, <2>6 DEF AccountsFit
<1>3. ASSUME NEW a \in accounts, BlockAccount(a) PROVE AccountsFit'
  <2>1. a.id \in AccountIds
    BY DEF AccountsFit, AccountRow
  <2> QED BY <1>3, <2>1 DEF BlockAccount, AccountsFit
<1> QED BY <1>1, <1>2, <1>3 DEF LoginNext, SendLogin, LoginStep, PersistPending, ResolveAccount,
           CreateSession, NextSecond, Abort, loginVars

LEMMA AccountsBeginFit == LoginInit => AccountsFit
<1> SUFFICES ASSUME LoginInit, NEW a \in accounts PROVE a \in AccountRow
  BY DEF AccountsFit, LoginInit
<1>1. PICK u \in Returning : a = [id |-> <<u>>, user |-> u]
  BY DEF LoginInit
<1>2. PICK id : id = <<u>> /\ id \in AccountIds
  BY DEF AccountIds
<1>3. u \in {Owner[p] : p \in Proofs}
  BY LoginAssumption
<1> QED BY <1>1, <1>2, <1>3 DEF AccountRow

\* LoginTypeOK, of every set of requests, keys, proofs and users.
THEOREM LoginIsTyped == LoginSpec => []LoginTypeOK
<1>1. LoginInv /\ AccountsFit => LoginTypeOK
  <2> SUFFICES ASSUME LoginInv, AccountsFit PROVE LoginTypeOK
    OBVIOUS
  <2>1. /\ operations \subseteq OperationRow /\ noted \subseteq AuditRow /\ sessions \subseteq SessionRow
        /\ second \in 0..LastSecond /\ login \in [Logins -> LoginRequest]
        /\ \A r \in Logins : Standing(r)
    BY DEF LoginInv, LoginTyped
  <2>2. ASSUME NEW r \in Sent
        PROVE  login[r].pc \in Working \cup Refusals \cup {"unavailable", "authenticated"}
    <3>1. login[r] \in LoginRequest /\ login[r].pc # "unsent"
      BY <2>1 DEF Sent
    <3>2. login[r] \in SentRequest
      BY <3>1 DEF LoginRequest
    <3> QED BY <3>2 DEF SentRequest, LoginPlaces
  <2>3. ASSUME NEW r \in Logins, login[r].pc \in {"account", "provision", "session"}
        PROVE  \E o \in operations : o.id = Id(r)
    BY <2>1, <2>3 DEF Standing
  <2> QED BY <2>1, <2>2, <2>3 DEF LoginTypeOK, AccountsFit, AccountRow
<1> QED BY <1>1, LoginInitially, LoginStepInv, AccountsBeginFit, AccountsStayFit, PTL DEF LoginSpec

-----------------------------------------------------------------------------
(* ScopedGrant.                                                            *)

Closing == [command : GrantCommands, at : Moments]
GrantRow ==
  [status : {"active", "consumed", "revoked", "expired"}, session : GrantSessions,
   resource : Resources, from : Moments, to : Moments, applied : Seq(Closing)]

\* The grant begins and ends inside the window w.
Inside(w) == w.from <= grant.from /\ grant.to <= w.to

GrantInv ==
  /\ \A s \in GrantSessions : lives[s].from \in Moments /\ lives[s].to \in Moments
  /\ DOMAIN lives = GrantSessions
  /\ grant # NoGrant =>
       /\ grant \in GrantRow /\ GrantStateFits(grant)
       /\ evidence.session = grant.session
       /\ evidence.from \in Moments /\ evidence.to \in Moments
       /\ Inside(evidence) /\ Inside(lives[grant.session])

LEMMA GrantInitially == GrantInit => GrantInv
BY DEF GrantInit, GrantInv, Windows

LEMMA CreateGrantInv ==
  ASSUME GrantInv, NEW w \in Windows, NEW window \in Windows, NEW s \in GrantSessions,
         NEW resource \in Resources, CreateGrant(w, window, s, resource)
  PROVE  GrantInv'
<1>1. PICK g, e : /\ g = [status |-> "active", session |-> s, resource |-> resource,
                          from |-> w.from, to |-> w.to, applied |-> << >>]
                  /\ e = [session |-> s, from |-> window.from, to |-> window.to]
  OBVIOUS
<1>2. grant' = g /\ evidence' = e /\ UNCHANGED lives /\ GrantFits(w, e)
  BY <1>1 DEF CreateGrant
<1>3. /\ w.from \in Moments /\ w.to \in Moments /\ window.from \in Moments /\ window.to \in Moments
  BY DEF Windows
<1>4. << >> \in Seq(Closing)
  OBVIOUS
<1>5. g \in GrantRow /\ GrantStateFits(g)
  BY ONLY <1>1, <1>3, <1>4, s \in GrantSessions, resource \in Resources DEF GrantRow, GrantStateFits
<1>6. /\ w.from >= e.from /\ w.to <= e.to
      /\ w.from >= lives[s].from /\ w.to <= lives[s].to
  BY <1>1, <1>2 DEF GrantFits, Within
<1>7. Inside(evidence)' /\ Inside(lives[grant.session])'
  BY <1>1, <1>2, <1>3, <1>6 DEF Inside, GrantInv, Moments
<1> QED BY <1>1, <1>2, <1>3, <1>5, <1>7 DEF GrantInv

\* A command closes an open grant once.
LEMMA ClosesInv ==
  ASSUME GrantInv, NEW c \in GrantCommands, NEW now \in Moments, NEW status,
         GrantMayApply(now), GrantEnds(c, now, status),
         \/ status = "expired" /\ c.type = "expire_grant" /\ now >= grant.to
         \/ status = "revoked" /\ c.type = "revoke_grant" /\ now < grant.to
         \/ /\ status = "consumed" /\ c.type = "consume_grant" /\ now < grant.to
            /\ c.session = grant.session /\ c.resource = grant.resource
  PROVE  GrantInv'
<1>1. PICK g, x : /\ x = [command |-> c, at |-> now]
                  /\ g = [grant EXCEPT !.status = status, !.applied = Append(grant.applied, x)]
  OBVIOUS
<1>2. /\ grant # NoGrant /\ grant \in GrantRow /\ grant.status = "active" /\ now >= grant.from
      /\ grant.applied = << >>
  <2>1. grant # NoGrant /\ grant \in GrantRow /\ grant.status = "active" /\ now >= grant.from
    BY DEF GrantMayApply, GrantInv
  <2> QED BY <2>1 DEF GrantMayApply, GrantStateFits
<1>3. grant' = g /\ UNCHANGED <<evidence, lives>>
  BY <1>1 DEF GrantEnds
<1>4. Append(<< >>, x) \in Seq(Closing) /\ Len(Append(<< >>, x)) = 1 /\ Append(<< >>, x)[1] = x
  BY <1>1 DEF Closing
<1>5. /\ g \in GrantRow /\ g.status = status /\ g.applied = Append(<< >>, x)
      /\ g.session = grant.session /\ g.resource = grant.resource
      /\ g.from = grant.from /\ g.to = grant.to
  <2>1. status \in {"active", "consumed", "revoked", "expired"}
    OBVIOUS
  <2> QED BY ONLY <1>1, <1>2, <1>4, <2>1 DEF GrantRow
<1>6. GrantStateFits(g)
  BY <1>1, <1>2, <1>4, <1>5 DEF GrantStateFits, Within
<1>7. Inside(evidence)' /\ Inside(lives[grant.session])'
  BY <1>2, <1>3, <1>5 DEF Inside, GrantInv
<1> QED BY <1>2, <1>3, <1>5, <1>6, <1>7 DEF GrantInv

LEMMA GrantStep == GrantInv /\ [GrantNext]_grantVars => GrantInv'
<1> SUFFICES ASSUME GrantInv, [GrantNext]_grantVars PROVE GrantInv'
  OBVIOUS
<1>1. ASSUME NEW c \in GrantCommands, NEW now \in Moments, NEW session, Grant(c, now, session)
      PROVE  GrantInv'
  BY <1>1, ClosesInv DEF Grant
<1>2. ASSUME NEW s \in GrantSessions, EndSession(s) PROVE GrantInv'
  <2>1. \A t \in GrantSessions : lives'[t].from = lives[t].from /\ lives'[t].to = lives[t].to
    BY <1>2 DEF EndSession, GrantInv
  <2>2. grant # NoGrant => grant.session \in GrantSessions
    BY DEF GrantInv, GrantRow
  <2> QED BY <1>2, <2>1, <2>2 DEF EndSession, GrantInv, Inside
<1>3. CASE UNCHANGED grantVars
  BY <1>3 DEF grantVars, GrantInv, Inside
<1> QED BY <1>1, <1>2, <1>3, CreateGrantInv DEF GrantNext

LEMMA GrantSoundness == GrantInv => GrantIsSound
<1> SUFFICES ASSUME GrantInv, grant # NoGrant
    PROVE /\ GrantStateFits(grant)
          /\ grant.status = "consumed" =>
               LET a == grant.applied[1]
               IN /\ a.command.session = evidence.session /\ a.command.resource = grant.resource
                  /\ Within(a.at, evidence)
                  /\ Within(a.at, lives[evidence.session])
  BY DEF GrantIsSound
<1>1. GrantStateFits(grant)
  BY DEF GrantInv
<1>2. ASSUME grant.status = "consumed"
      PROVE /\ grant.applied[1].command.session = evidence.session
            /\ grant.applied[1].command.resource = grant.resource
            /\ Within(grant.applied[1].at, evidence)
            /\ Within(grant.applied[1].at, lives[evidence.session])
  <2>1. PICK a : a = grant.applied[1]
    OBVIOUS
  <2>2. grant \in GrantRow /\ grant.session \in GrantSessions /\ Len(grant.applied) = 1
    BY <1>1, <1>2 DEF GrantInv, GrantRow, GrantStateFits
  <2>3. a \in Closing
    BY <2>1, <2>2 DEF GrantRow
  <2>4. /\ a.command.session = grant.session /\ a.command.resource = grant.resource
        /\ Within(a.at, grant)
    BY <1>1, <1>2, <2>1 DEF GrantStateFits
  <2>5. /\ a.at \in Moments /\ grant.from \in Moments /\ grant.to \in Moments
    BY <2>2, <2>3 DEF Closing, GrantRow
  <2>6. Within(a.at, evidence) /\ Within(a.at, lives[grant.session])
    BY <2>2, <2>4, <2>5 DEF Within, Inside, GrantInv, Moments
  <2> QED BY <2>1, <2>4, <2>6 DEF GrantInv
<1> QED BY <1>1, <1>2

\* No series of calls on the grants leads to one that its validator refuses,
\* and a grant that was used was used by its own session, on its own resource,
\* while it and the session were open.
THEOREM GrantsStaySound == GrantSpec => []GrantIsSound
BY GrantInitially, GrantStep, GrantSoundness, PTL DEF GrantSpec

\* What the grant's session and its evidence name exists.
GrantFrame ==
  /\ evidence = NoEvidence \/ evidence.session \in GrantSessions
  /\ \A s \in GrantSessions : lives[s].id = s /\ lives[s].status \in {"active", "ended"}

LEMMA GrantFrameHolds ==
  ASSUME GrantInv, GrantFrame, [GrantNext]_grantVars PROVE GrantFrame'
<1>1. CASE UNCHANGED <<evidence, lives>>
  BY <1>1 DEF GrantFrame
<1>2. ASSUME NEW w \in Windows, NEW window \in Windows, NEW s \in GrantSessions,
             NEW resource \in Resources, CreateGrant(w, window, s, resource)
      PROVE  GrantFrame'
  <2>1. PICK e : e = [session |-> s, from |-> window.from, to |-> window.to]
    OBVIOUS
  <2>2. evidence' = e /\ lives' = lives /\ e.session = s
    BY <1>2, <2>1 DEF CreateGrant
  <2> QED BY <2>2 DEF GrantFrame
<1>3. ASSUME NEW s \in GrantSessions, EndSession(s) PROVE GrantFrame'
  <2>1. PICK ended : ended = "ended" /\ lives' = [lives EXCEPT ![s].status = ended]
    BY <1>3 DEF EndSession
  <2>2. \A t \in GrantSessions : lives'[t].id = lives[t].id
                                 /\ lives'[t].status \in {lives[t].status, ended}
    BY <2>1 DEF GrantInv, EndSession
  <2> QED BY <1>3, <2>1, <2>2 DEF EndSession, GrantFrame
<1> QED BY <1>1, <1>2, <1>3 DEF GrantNext, Grant, GrantEnds, grantVars

\* GrantTypeOK, of every set of sessions, resources and commands.
THEOREM GrantIsTyped == GrantSpec => []GrantTypeOK
<1>1. GrantInit => GrantFrame
  <2> SUFFICES ASSUME GrantInit PROVE GrantFrame
    OBVIOUS
  <2>1. PICK w \in [GrantSessions -> Windows] :
          lives = [s \in GrantSessions |-> [id |-> s, from |-> w[s].from, to |-> w[s].to,
                                            status |-> "active"]]
    BY DEF GrantInit
  <2>2. \A s \in GrantSessions : lives[s].id = s /\ lives[s].status = "active"
    BY <2>1
  <2> QED BY <2>2 DEF GrantInit, GrantFrame
<1>2. GrantInv /\ GrantFrame => GrantTypeOK
  <2> SUFFICES ASSUME GrantInv, GrantFrame PROVE GrantTypeOK
    OBVIOUS
  <2>1. ASSUME grant # NoGrant
        PROVE  /\ grant.status \in {"active", "consumed", "revoked", "expired"}
               /\ grant.session \in GrantSessions /\ grant.resource \in Resources
               /\ grant.from \in Moments /\ grant.to \in Moments
               /\ \A i \in DOMAIN grant.applied : grant.applied[i].command \in GrantCommands
    <3>1. grant \in GrantRow /\ grant.applied \in Seq(Closing)
      BY <2>1 DEF GrantInv, GrantRow
    <3>2. \A i \in DOMAIN grant.applied : grant.applied[i] \in Closing
      BY <3>1
    <3> QED BY <3>1, <3>2 DEF GrantRow, Closing
  <2> QED BY <2>1 DEF GrantTypeOK, GrantFrame
<1> QED BY <1>1, <1>2, GrantInitially, GrantStep, GrantFrameHolds, PTL DEF GrantSpec

-----------------------------------------------------------------------------
(* OtpChallenge.                                                           *)

OtpOutcomes == {"verified", "attempts_exhausted", "expired", "cancelled"}
MetadataRow == [at : Int, id : OtpIds \cup {"none"},
                reason : {"right", "wrong", "none", "user_cancelled", "superseded"}]
AppliedRow ==
  [command : OtpCommands, at : 0..LastReading, result : OtpOutcomes \cup {"incorrect_code"},
   metadata : MetadataRow, left : 0..OtpAttempts]
OtpState ==
  [status : OtpOutcomes \cup {"pending"}, left : 0..OtpAttempts, metadata : MetadataRow,
   applied : Seq(AppliedRow)]

OtpInv == otp \in OtpState /\ OtpIsSound

LEMMA OtpInitially == OtpInit => OtpInv
<1> SUFFICES ASSUME OtpInit PROVE OtpInv
  OBVIOUS
<1>1. << >> \in Seq(AppliedRow) /\ Len(<< >>) = 0 /\ DOMAIN << >> = {}
  OBVIOUS
<1>2. NoMetadata \in MetadataRow
  BY DEF NoMetadata, MetadataRow
<1>3. otp \in OtpState
  BY <1>1, <1>2, OtpAssumption DEF OtpInit, OtpState
<1>4. OtpStateFits(otp)
  BY <1>1, OtpAssumption DEF OtpInit, OtpStateFits, CountedDown
<1>5. OtpAcceptsOnce
  BY <1>1 DEF OtpInit, OtpAcceptsOnce
<1> QED BY <1>3, <1>4, <1>5 DEF OtpInv, OtpIsSound, OtpStaysUsable

\* While a challenge is open, its history is wrong codes only.
LEMMA OpenHistory ==
  ASSUME OtpInv, NEW c \in OtpCommands, OtpMayApply(c)
  PROVE  \E h, n :
           /\ h = otp.applied /\ h \in Seq(AppliedRow) /\ n = Len(h) /\ n \in Nat
           /\ otp.left = OtpAttempts - n /\ n < OtpAttempts /\ CountedDown(h)
           /\ \A i \in 1..n : /\ AppliedFits(h[i]) /\ h[i].command.value = "wrong"
                              /\ h[i].command.id # c.id
           /\ \A i, j \in 1..n : i # j => h[i].command.id # h[j].command.id
<1>1. PICK h, n : h = otp.applied /\ n = Len(h)
  OBVIOUS
<1>2. h \in Seq(AppliedRow) /\ n \in Nat /\ DOMAIN h = 1..n
  BY <1>1 DEF OtpInv, OtpState
<1>3. /\ \A i \in 1..n : AppliedFits(h[i])
      /\ \A i, j \in 1..n : i # j => h[i].command.id # h[j].command.id
      /\ otp.left >= 1 /\ CountedDown(h) /\ otp.left = OtpAttempts - n
      /\ \A i \in 1..n : h[i].command.id # c.id
  BY <1>1, <1>2 DEF OtpMayApply, OtpStateFits
<1>4. \A i \in 1..n : h[i].command.value = "wrong"
  <2> SUFFICES ASSUME NEW i \in 1..n PROVE h[i].command.value = "wrong"
    OBVIOUS
  <2>1. PICK a : a = h[i]
    OBVIOUS
  <2>2. h[i] \in AppliedRow
    BY <1>2
  <2>3. a.result = "incorrect_code" /\ AppliedFits(a) /\ a.command \in OtpCommands
    BY <1>2, <1>3, <2>1, <2>2 DEF CountedDown, AppliedRow
  <2>4. a.command.type \in {"submit_otp", "expire_otp", "cancel_otp"}
    BY <2>3 DEF OtpCommands
  <2> QED BY <2>1, <2>3, <2>4 DEF AppliedFits
<1>5. n < OtpAttempts
  BY <1>2, <1>3, OtpAssumption
<1> QED BY <1>1, <1>2, <1>3, <1>4, <1>5

LEMMA CommandsHaveMetadata ==
  \A c \in OtpCommands : \A now \in 0..LastReading : Metadata(c, now) \in MetadataRow
BY OtpAssumption DEF OtpCommands, Metadata, MetadataRow

\* The challenge ends, with an entry that its command explains.
LEMMA EndsInv ==
  ASSUME OtpInv, NEW c \in OtpCommands, NEW now \in 0..LastReading, OtpMayApply(c),
         NEW status \in OtpOutcomes, NEW left, OtpEnds(c, now, status, left),
         AppliedFits(Applied(c, now, status, Metadata(c, now), 0)) \/ now < OtpCreated,
         now < OtpExpires \/ status # "verified",
         status = "verified" <=> c.value = "right",
         status = "attempts_exhausted" => left = 0 /\ otp.left = 1,
         status # "attempts_exhausted" => left = otp.left
  PROVE  OtpInv'
<1>1. PICK h, n :
           /\ h = otp.applied /\ h \in Seq(AppliedRow) /\ n = Len(h) /\ n \in Nat
           /\ otp.left = OtpAttempts - n /\ n < OtpAttempts /\ CountedDown(h)
           /\ \A i \in 1..n : /\ AppliedFits(h[i]) /\ h[i].command.value = "wrong"
                              /\ h[i].command.id # c.id
           /\ \A i, j \in 1..n : i # j => h[i].command.id # h[j].command.id
  BY OpenHistory
<1>2. PICK x, t, s : /\ x = Applied(c, now, status, Metadata(c, now), 0)
                     /\ t = Append(h, x)
                     /\ s = [status |-> status, left |-> left, metadata |-> Metadata(c, now),
                             applied |-> t]
  OBVIOUS
<1>3. /\ x \in AppliedRow /\ x.command = c /\ x.at = now /\ x.result = status
      /\ x.metadata = Metadata(c, now)
  <2>1. Metadata(c, now) \in MetadataRow /\ 0 \in 0..OtpAttempts
    BY CommandsHaveMetadata, OtpAssumption
  <2> QED BY ONLY <1>2, <2>1, c \in OtpCommands, now \in 0..LastReading, status \in OtpOutcomes
          DEF Applied, AppliedRow
<1>4. /\ t \in Seq(AppliedRow) /\ Len(t) = n + 1 /\ DOMAIN t = 1..n + 1 /\ t[n + 1] = x
      /\ \A i \in 1..n : t[i] = h[i]
  BY <1>1, <1>2, <1>3
<1>5. /\ s.status = status /\ s.left = left /\ s.metadata = Metadata(c, now) /\ s.applied = t
  BY <1>2
<1>6. otp' = s
  BY <1>1, <1>2 DEF OtpEnds
<1>7. s \in OtpState
  <2>1. Metadata(c, now) \in MetadataRow /\ left \in 0..OtpAttempts
    BY <1>1, CommandsHaveMetadata, OtpAssumption
  <2> QED BY ONLY <1>2, <1>4, <2>1, status \in OtpOutcomes DEF OtpState
<1>8. ASSUME AppliedFits(x) PROVE OtpStateFits(s)
  <2>1. \A i \in 1..n + 1 : AppliedFits(t[i])
    BY <1>1, <1>4, <1>8
  <2>2. \A i, j \in 1..n + 1 : i # j => t[i].command.id # t[j].command.id
    <3> SUFFICES ASSUME NEW i \in 1..n + 1, NEW j \in 1..n + 1, i # j
                 PROVE  t[i].command.id # t[j].command.id
      OBVIOUS
    <3>1. CASE i \in 1..n /\ j \in 1..n
      <4>1. h[i].command.id # h[j].command.id
        BY <1>1, <3>1
      <4> QED BY <1>4, <3>1, <4>1
    <3>2. CASE i = n + 1 /\ j \in 1..n
      <4>1. h[j].command.id # c.id
        BY <1>1, <3>2
      <4> QED BY <1>3, <1>4, <3>2, <4>1
    <3>3. CASE j = n + 1 /\ i \in 1..n
      <4>1. h[i].command.id # c.id
        BY <1>1, <3>3
      <4> QED BY <1>3, <1>4, <3>3, <4>1
    <3>4. /\ i \in 1..n \/ i = n + 1
          /\ j \in 1..n \/ j = n + 1
      <4>1. n \in Nat
        BY <1>1
      <4> QED BY ONLY <4>1, i \in 1..n + 1, j \in 1..n + 1
    <3> QED BY <3>1, <3>2, <3>3, <3>4
  <2>3. CountedDown(SubSeq(t, 1, n))
    <3>1. PICK u : u = SubSeq(t, 1, n)
      OBVIOUS
    <3>2. DOMAIN u = 1..n /\ \A i \in 1..n : u[i] = h[i]
      BY <1>1, <1>4, <3>1
    <3>3. DOMAIN h = 1..n
      BY <1>1
    <3> QED BY <1>1, <3>1, <3>2, <3>3 DEF CountedDown
  <2>4. n + 1 > 0 /\ (n + 1) - 1 = n
    BY <1>1
  <2>5. LastOtp(s) = x
    BY <1>4, <1>5 DEF LastOtp
  <2>6. CASE status = "attempts_exhausted"
    <3>1. left = 0 /\ n + 1 = OtpAttempts
      BY <1>1, <2>6, OtpAssumption
    <3> QED BY <1>3, <1>4, <1>5, <2>1, <2>2, <2>3, <2>4, <2>5, <2>6, <3>1 DEF OtpStateFits
  <2>7. CASE status # "attempts_exhausted"
    <3>1. left >= 1 /\ left = OtpAttempts - n /\ status # "pending"
      BY <1>1, <2>7, OtpAssumption DEF OtpOutcomes
    <3> QED BY <1>3, <1>4, <1>5, <2>1, <2>2, <2>3, <2>4, <2>5, <2>7, <3>1 DEF OtpStateFits
  <2> QED BY <2>6, <2>7
<1>9. OtpStaysUsable'
  <2>1. CASE now < OtpCreated
    <3>1. n + 1 \in DOMAIN t /\ t[n + 1].at < OtpCreated
      BY <1>1, <1>3, <1>4, <2>1
    <3> QED BY <1>5, <1>6, <3>1 DEF OtpStaysUsable
  <2>2. CASE AppliedFits(x)
    BY <1>6, <1>8, <2>2 DEF OtpStaysUsable
  <2> QED BY <1>2, <2>1, <2>2
<1>10. OtpAcceptsOnce'
  <2>1. PICK wrong, right : /\ wrong = {i \in DOMAIN t : t[i].command.value = "wrong"}
                            /\ right = {i \in DOMAIN t : t[i].command.value = "right"}
    OBVIOUS
  <2>2. right = IF status = "verified" THEN {n + 1} ELSE {}
    <3>1. \A i \in 1..n : t[i].command.value = "wrong"
      BY <1>1, <1>4
    <3>2. t[n + 1].command.value = "right" <=> status = "verified"
      BY <1>3, <1>4
    <3>3. DOMAIN t = (1..n) \cup {n + 1}
      BY <1>1, <1>4
    <3> QED BY ONLY <2>1, <3>1, <3>2, <3>3
  <2>3. \A i \in wrong : i <= OtpAttempts /\ (status = "verified" => i < OtpAttempts)
    BY <1>1, <1>3, <1>4, <2>1, OtpAssumption
  <2>4. status = "verified" => t[n + 1].at < OtpExpires
    BY <1>3, <1>4
  <2> QED BY <1>4, <1>5, <1>6, <2>1, <2>2, <2>3, <2>4 DEF OtpAcceptsOnce
<1> QED BY <1>6, <1>7, <1>9, <1>10 DEF OtpInv, OtpIsSound

\* A wrong code that is not the last.
LEMMA MissesInv ==
  ASSUME OtpInv, NEW c \in OtpCommands, NEW now \in 0..LastReading, OtpMayApply(c),
         c.type = "submit_otp", c.value = "wrong", now < OtpExpires, otp.left - 1 # 0,
         otp' = [otp EXCEPT !.left = @ - 1,
                   !.applied = Append(@, Applied(c, now, "incorrect_code", NoMetadata, otp.left - 1))]
  PROVE  OtpInv'
<1>1. PICK h, n :
           /\ h = otp.applied /\ h \in Seq(AppliedRow) /\ n = Len(h) /\ n \in Nat
           /\ otp.left = OtpAttempts - n /\ n < OtpAttempts /\ CountedDown(h)
           /\ \A i \in 1..n : /\ AppliedFits(h[i]) /\ h[i].command.value = "wrong"
                              /\ h[i].command.id # c.id
           /\ \A i, j \in 1..n : i # j => h[i].command.id # h[j].command.id
  BY OpenHistory
<1>2. PICK left, x, t, s : /\ left = otp.left - 1
                           /\ x = Applied(c, now, "incorrect_code", NoMetadata, left)
                           /\ t = Append(h, x)
                           /\ s = [otp EXCEPT !.left = left, !.applied = t]
  OBVIOUS
<1>3. left \in 1..OtpAttempts /\ left = OtpAttempts - (n + 1) /\ n + 1 < OtpAttempts
  <2>1. left = OtpAttempts - n - 1 /\ left # 0 /\ n \in Nat /\ n < OtpAttempts
    BY <1>1, <1>2
  <2> QED BY ONLY <2>1, OtpAssumption
<1>4. /\ x \in AppliedRow /\ x.command = c /\ x.at = now /\ x.result = "incorrect_code"
      /\ x.left = left
  <2>1. NoMetadata \in MetadataRow /\ left \in 0..OtpAttempts
    BY <1>3, OtpAssumption DEF NoMetadata, MetadataRow
  <2> QED BY ONLY <1>2, <2>1, c \in OtpCommands, now \in 0..LastReading DEF Applied, AppliedRow
<1>5. /\ t \in Seq(AppliedRow) /\ Len(t) = n + 1 /\ DOMAIN t = 1..n + 1 /\ t[n + 1] = x
      /\ \A i \in 1..n : t[i] = h[i]
  BY <1>1, <1>2, <1>4
<1>6. otp \in OtpState /\ otp.status = "pending"
  BY DEF OtpInv, OtpMayApply
<1>7. s \in OtpState /\ s.status = "pending" /\ s.left = left /\ s.applied = t
  <2>1. left \in 0..OtpAttempts
    BY <1>3, OtpAssumption
  <2> QED BY ONLY <1>2, <1>5, <1>6, <2>1 DEF OtpState
<1>8. otp' = s
  BY <1>1, <1>2
<1>9. now >= OtpCreated => OtpStateFits(s)
  <2> SUFFICES ASSUME now >= OtpCreated PROVE OtpStateFits(s)
    OBVIOUS
  <2>1. AppliedFits(x)
    BY <1>3, <1>4 DEF AppliedFits, OtpCreated
  <2>2. \A i \in 1..n + 1 : AppliedFits(t[i])
    BY <1>1, <1>5, <2>1
  <2>3. \A i, j \in 1..n + 1 : i # j => t[i].command.id # t[j].command.id
    <3> SUFFICES ASSUME NEW i \in 1..n + 1, NEW j \in 1..n + 1, i # j
                 PROVE  t[i].command.id # t[j].command.id
      OBVIOUS
    <3>1. CASE i \in 1..n /\ j \in 1..n
      <4>1. h[i].command.id # h[j].command.id
        BY <1>1, <3>1
      <4> QED BY <1>5, <3>1, <4>1
    <3>2. CASE i = n + 1 /\ j \in 1..n
      <4>1. h[j].command.id # c.id
        BY <1>1, <3>2
      <4> QED BY <1>4, <1>5, <3>2, <4>1
    <3>3. CASE j = n + 1 /\ i \in 1..n
      <4>1. h[i].command.id # c.id
        BY <1>1, <3>3
      <4> QED BY <1>4, <1>5, <3>3, <4>1
    <3>4. /\ i \in 1..n \/ i = n + 1
          /\ j \in 1..n \/ j = n + 1
      <4>1. n \in Nat
        BY <1>1
      <4> QED BY ONLY <4>1, i \in 1..n + 1, j \in 1..n + 1
    <3> QED BY <3>1, <3>2, <3>3, <3>4
  <2>4. CountedDown(t)
    <3>1. \A i \in 1..n : h[i].result = "incorrect_code" /\ h[i].left = OtpAttempts - i
      BY <1>1 DEF CountedDown
    <3> QED BY <1>1, <1>3, <1>4, <1>5, <3>1 DEF CountedDown
  <2> QED BY <1>3, <1>5, <1>7, <2>2, <2>3, <2>4 DEF OtpStateFits
<1>10. OtpStaysUsable'
  <2>1. CASE now < OtpCreated
    <3>1. n + 1 \in DOMAIN t /\ t[n + 1].at < OtpCreated
      BY <1>1, <1>4, <1>5, <2>1
    <3> QED BY <1>7, <1>8, <3>1 DEF OtpStaysUsable
  <2>2. CASE now >= OtpCreated
    BY <1>8, <1>9, <2>2 DEF OtpStaysUsable
  <2> QED BY <2>1, <2>2 DEF OtpCreated
<1>11. OtpAcceptsOnce'
  <2>1. PICK wrong, right : /\ wrong = {i \in DOMAIN t : t[i].command.value = "wrong"}
                            /\ right = {i \in DOMAIN t : t[i].command.value = "right"}
    OBVIOUS
  <2>2. right = {}
    BY <1>1, <1>4, <1>5, <2>1
  <2>3. \A i \in wrong : i <= OtpAttempts
    BY <1>1, <1>3, <1>5, <2>1, OtpAssumption
  <2> QED BY <1>5, <1>7, <1>8, <2>1, <2>2, <2>3 DEF OtpAcceptsOnce
<1> QED BY <1>7, <1>8, <1>10, <1>11 DEF OtpInv, OtpIsSound

\* Each end is the result of its command.
LEMMA EndsFit ==
  ASSUME NEW c, NEW now \in Int, NEW status,
         \/ status = "expired" /\ c.type = "expire_otp" /\ now >= OtpExpires
         \/ status = "cancelled" /\ c.type = "cancel_otp" /\ now < OtpExpires
         \/ status = "verified" /\ c.type = "submit_otp" /\ c.value = "right" /\ now < OtpExpires
         \/ /\ status = "attempts_exhausted" /\ c.type = "submit_otp" /\ c.value = "wrong"
            /\ now < OtpExpires
  PROVE  \/ AppliedFits(Applied(c, now, status, Metadata(c, now), 0))
         \/ now < OtpCreated /\ status # "expired"
<1>1. PICK x, d : d = Metadata(c, now) /\ x = Applied(c, now, status, d, 0)
  OBVIOUS
<1>2. x.command = c /\ x.at = now /\ x.result = status /\ x.metadata = d
  BY <1>1 DEF Applied
<1>3. now >= OtpCreated \/ now < OtpCreated
  BY DEF OtpCreated
<1>4. d = Metadata(x.command, x.at)
  BY <1>1, <1>2
<1>5. status = "expired" => AppliedFits(x)
  BY <1>2, <1>4 DEF AppliedFits
<1>6. status # "expired" /\ now >= OtpCreated => AppliedFits(x)
  BY <1>2, <1>4 DEF AppliedFits
<1> QED BY <1>1, <1>3, <1>5, <1>6

LEMMA OtpStep == OtpInv /\ [OtpNext]_otp => OtpInv'
<1> SUFFICES ASSUME OtpInv, [OtpNext]_otp PROVE OtpInv'
  OBVIOUS
<1>1. CASE UNCHANGED otp
  BY <1>1 DEF OtpInv, OtpIsSound, OtpStaysUsable, OtpAcceptsOnce
<1>2. ASSUME NEW c \in OtpCommands, NEW now \in 0..LastReading, Otp(c, now) PROVE OtpInv'
  <2>1. OtpMayApply(c) /\ now \in Int /\ otp.left \in Nat
    BY <1>2 DEF Otp, OtpInv, OtpState
  <2>2. c.type = "submit_otp" => c.value \in {"right", "wrong"}
    BY DEF OtpCommands
  <2>3. c.type # "submit_otp" => c.value \notin {"right", "wrong"}
    BY DEF OtpCommands
  <2>4. CASE c.type = "expire_otp" /\ now >= OtpExpires /\ OtpEnds(c, now, "expired", otp.left)
    <3>1. AppliedFits(Applied(c, now, "expired", Metadata(c, now), 0))
      BY <2>4, EndsFit
    <3> QED BY <2>1, <2>3, <2>4, <3>1, EndsInv DEF OtpOutcomes
  <2>5. CASE c.type = "cancel_otp" /\ now < OtpExpires /\ OtpEnds(c, now, "cancelled", otp.left)
    <3>1. AppliedFits(Applied(c, now, "cancelled", Metadata(c, now), 0)) \/ now < OtpCreated
      BY <2>5, EndsFit
    <3> QED BY <2>1, <2>3, <2>5, <3>1, EndsInv DEF OtpOutcomes
  <2>6. CASE c.type = "submit_otp" /\ now < OtpExpires /\ SubmitOtp(c, now)
    <3>1. CASE c.value = "right"
      <4>1. AppliedFits(Applied(c, now, "verified", Metadata(c, now), 0)) \/ now < OtpCreated
        BY <2>6, <3>1, EndsFit
      <4> QED BY <2>1, <2>6, <3>1, <4>1, EndsInv DEF OtpOutcomes, SubmitOtp
    <3>2. CASE c.value = "wrong" /\ otp.left - 1 = 0
      <4>1. AppliedFits(Applied(c, now, "attempts_exhausted", Metadata(c, now), 0)) \/ now < OtpCreated
        BY <2>6, <3>2, EndsFit
      <4>2. OtpEnds(c, now, "attempts_exhausted", 0) /\ otp.left = 1
        BY <2>1, <2>6, <3>2 DEF SubmitOtp
      <4> QED BY <2>1, <3>2, <4>1, <4>2, EndsInv DEF OtpOutcomes
    <3>3. CASE c.value = "wrong" /\ otp.left - 1 # 0
      BY <2>1, <2>6, <3>3, MissesInv DEF SubmitOtp
    <3> QED BY <2>2, <2>6, <3>1, <3>2, <3>3
  <2> QED BY <1>2, <2>4, <2>5, <2>6 DEF Otp
<1> QED BY <1>1, <1>2 DEF OtpNext

\* No series of codes, cancellations and expiries leads to a challenge that its
\* validator refuses, and a code is accepted once, in time, and after fewer
\* wrong ones than there are attempts.
THEOREM OtpStaysSound == OtpSpec => []OtpIsSound
<1>1. OtpInv => OtpIsSound
  BY DEF OtpInv
<1> QED BY <1>1, OtpInitially, OtpStep, PTL DEF OtpSpec

\* OtpTypeOK, of every set of commands and number of attempts.
THEOREM OtpIsTyped == OtpSpec => []OtpTypeOK
<1>1. OtpInv => OtpTypeOK
  <2> SUFFICES ASSUME OtpInv PROVE OtpTypeOK
    OBVIOUS
  <2>1. otp \in OtpState /\ otp.applied \in Seq(AppliedRow)
    BY DEF OtpInv, OtpState
  <2>2. \A i \in DOMAIN otp.applied : otp.applied[i] \in AppliedRow
    BY <2>1
  <2> QED BY <2>1, <2>2 DEF OtpTypeOK, OtpState, OtpOutcomes, AppliedRow
<1> QED BY <1>1, OtpInitially, OtpStep, PTL DEF OtpSpec

-----------------------------------------------------------------------------
(* ContactVerification.                                                    *)

ProofOutcomes == {"verified", "attempts_exhausted", "expired", "cancelled"}
Repeatable == {"incorrect_proof", "resend_reserved"}
ProofEntry ==
  [command : ProofCommands, at : 0..ProofExpires, result : ProofOutcomes \cup Repeatable,
   left : Int]
ProofRow ==
  [status : ProofOutcomes \cup {"pending"}, left : Int, lastDispatch : Int, resends : Int,
   applied : Seq(ProofEntry)]

\* A resend is the answer to a command that asked for one.
ResendsAreAsked(h) ==
  \A i \in DOMAIN h : h[i].result = "resend_reserved" => h[i].command.type = "reserve_resend"

ProofInv == proof \in ProofRow /\ ResendsAreAsked(proof.applied) /\ ContactIsSound

LEMMA CommandsDiffer ==
  \A c \in ProofCommands :
    /\ c.type \in {"submit_proof", "expire", "cancel", "reserve_resend"}
    /\ c.type = "submit_proof" => c.value \in {"right", "wrong"}
    /\ c.type # "submit_proof" => c.value \notin {"right", "wrong"}
<1> TAKE c \in ProofCommands
<1>1. CASE c \in ProofCommand("submit_proof", {"right", "wrong"}, {NoneGiven}, {NoneGiven})
  BY <1>1 DEF ProofCommand
<1>2. CASE c \in ProofCommand("expire", {NoneGiven}, {NoneGiven}, {NoneGiven})
  BY <1>2 DEF ProofCommand, NoneGiven
<1>3. CASE c \in ProofCommand("cancel", {"contact_changed"}, {NoneGiven}, {NoneGiven})
  BY <1>3 DEF ProofCommand
<1>4. CASE c \in ProofCommand("reserve_resend", {NoneGiven}, ResendKeys, Dispatches)
  BY <1>4 DEF ProofCommand, NoneGiven
<1> QED BY <1>1, <1>2, <1>3, <1>4, Zenon DEF ProofCommands

Latest(S) == CHOOSE j \in S : \A k \in S : k <= j

LEMMA LatestIsLast ==
  ASSUME NEW n \in Nat, NEW S, S \subseteq 1..n, S # {}
  PROVE  Latest(S) \in S /\ \A k \in S : k <= Latest(S)
<1> DEFINE less == OpToRel(<, Nat)
           T == {n - k : k \in S}
<1>1. IsWellFoundedOn(less, Nat)
  BY NatLessThanWellFounded, Zenon
<1>2. T \subseteq Nat /\ T # {}
  <2>1. \A k \in S : n - k \in Nat
    OBVIOUS
  <2> QED BY <2>1, Zenon
<1> HIDE DEF less
<1>3. PICK m \in T : \A x \in T : ~(<<x, m>> \in less)
  BY <1>1, <1>2, WFMin
<1>4. PICK j \in S : m = n - j
  OBVIOUS
<1>5. ASSUME NEW k \in S PROVE k <= j
  <2> SUFFICES ASSUME k > j PROVE FALSE
    OBVIOUS
  <2>1. n - k \in T /\ n - k \in Nat /\ m \in Nat /\ n - k < m
    BY <1>2, <1>4
  <2>2. <<n - k, m>> \in less
    BY <2>1, Zenon DEF less, OpToRel
  <2> QED BY <1>3, <2>1, <2>2
<1> QED BY <1>5 DEF Latest

LEMMA DispatchedAtIs ==
  \A h, i : DispatchedAt(h, i) =
              IF SentAgain(h, i) = {} THEN 0 ELSE h[Latest(SentAgain(h, i))].at
BY DEF DispatchedAt, Latest

LEMMA SomeSent ==
  \A h, i : SentAgain(h, i) \subseteq 1..i /\ Missed(h, i) \subseteq 1..i
BY DEF SentAgain, Missed

-----------------------------------------------------------------------------
(* One more entry in the history.                                          *)

Longer(h, n, t, x) ==
  /\ h \in Seq(ProofEntry) /\ n = Len(h) /\ n \in Nat
  /\ x \in ProofEntry
  /\ t \in Seq(ProofEntry) /\ Len(t) = n + 1 /\ DOMAIN t = 1..n + 1
  /\ t[n + 1] = x /\ \A i \in 1..n : t[i] = h[i]

LEMMA AppendIsLonger ==
  ASSUME NEW h \in Seq(ProofEntry), NEW x \in ProofEntry
  PROVE  Longer(h, Len(h), Append(h, x), x)
BY DEF Longer

LEMMA SentBefore ==
  ASSUME NEW h, NEW n, NEW t, NEW x, Longer(h, n, t, x), NEW i \in 0..n
  PROVE  /\ SentAgain(t, i) = SentAgain(h, i) /\ Missed(t, i) = Missed(h, i)
         /\ DispatchedAt(t, i) = DispatchedAt(h, i) /\ LeftAfter(t, i) = LeftAfter(h, i)
<1>1. \A j \in 1..i : t[j] = h[j]
  BY DEF Longer
<1>2. SentAgain(t, i) = SentAgain(h, i) /\ Missed(t, i) = Missed(h, i)
  BY <1>1 DEF SentAgain, Missed
<1>3. i \in Nat
  BY DEF Longer
<1>4. CASE SentAgain(h, i) = {}
  BY <1>2, <1>4, DispatchedAtIs DEF LeftAfter
<1>5. CASE SentAgain(h, i) # {}
  <2>1. Latest(SentAgain(h, i)) \in 1..i
    BY <1>3, <1>5, LatestIsLast, SomeSent
  <2> QED BY <1>1, <1>2, <1>5, <2>1, DispatchedAtIs DEF LeftAfter
<1> QED BY <1>4, <1>5

LEMMA SentAfter ==
  ASSUME NEW h, NEW n, NEW t, NEW x, Longer(h, n, t, x)
  PROVE  /\ x.result = "resend_reserved" =>
              SentAgain(t, n + 1) = SentAgain(h, n) \cup {n + 1} /\ DispatchedAt(t, n + 1) = x.at
         /\ x.result # "resend_reserved" =>
              /\ SentAgain(t, n + 1) = SentAgain(h, n)
              /\ DispatchedAt(t, n + 1) = DispatchedAt(h, n)
         /\ Missed(t, n + 1) = IF x.result \in {"incorrect_proof", "attempts_exhausted"}
                               THEN Missed(h, n) \cup {n + 1} ELSE Missed(h, n)
<1>1. /\ n \in Nat /\ t[n + 1] = x /\ 1..n + 1 = (1..n) \cup {n + 1}
      /\ \A i \in 1..n : t[i] = h[i]
  BY DEF Longer
<1>2. Missed(t, n + 1) = IF x.result \in {"incorrect_proof", "attempts_exhausted"}
                         THEN Missed(h, n) \cup {n + 1} ELSE Missed(h, n)
  BY <1>1 DEF Missed
<1>3. CASE x.result = "resend_reserved"
  <2>1. SentAgain(t, n + 1) = SentAgain(h, n) \cup {n + 1}
    BY <1>1, <1>3 DEF SentAgain
  <2>2. n + 1 \in Nat /\ SentAgain(t, n + 1) \subseteq 1..n + 1 /\ SentAgain(t, n + 1) # {}
        /\ n + 1 \in SentAgain(t, n + 1)
    BY <1>1, <2>1, SomeSent
  <2>3. PICK l : l = Latest(SentAgain(t, n + 1))
    OBVIOUS
  <2>4. l \in 1..n + 1 /\ n + 1 <= l
    BY <2>2, <2>3, LatestIsLast
  <2>5. l = n + 1
    BY ONLY <1>1, <2>4
  <2> QED BY <1>1, <1>2, <1>3, <2>1, <2>2, <2>3, <2>5, DispatchedAtIs
<1>4. CASE x.result # "resend_reserved"
  <2>1. SentAgain(t, n + 1) = SentAgain(h, n) /\ SentAgain(t, n) = SentAgain(h, n)
    BY <1>1, <1>4 DEF SentAgain
  <2>2. DispatchedAt(t, n + 1) = DispatchedAt(t, n)
    BY <2>1, DispatchedAtIs
  <2>3. DispatchedAt(t, n) = DispatchedAt(h, n)
    BY <1>1, SentBefore
  <2> QED BY <1>2, <1>4, <2>1, <2>2, <2>3
<1> QED BY <1>3, <1>4

-----------------------------------------------------------------------------
(* One more command on an open challenge.                                  *)

\* The challenge is open: what its validator found of its history.
OpenProof(h, n) ==
  /\ h = proof.applied /\ n = Len(h) /\ n \in Nat /\ h \in Seq(ProofEntry)
  /\ proof.status = "pending" /\ ProofStateFits(proof)
  /\ proof.left \in Int /\ proof.left > 0 /\ proof.left = LeftAfter(h, n)
  /\ proof.lastDispatch \in Int /\ proof.lastDispatch = DispatchedAt(h, n)
  /\ proof.resends \in Int /\ proof.resends = Cardinality(SentAgain(h, n))
  /\ \A i \in 1..n : h[i].result \in Repeatable

LEMMA OpenHistoryFits ==
  ASSUME ProofInv, NEW c, NEW now, ProofMayApply(c, now)
  PROVE  OpenProof(proof.applied, Len(proof.applied))
<1>1. PICK h, n : h = proof.applied /\ n = Len(h)
  OBVIOUS
<1>2. /\ h \in Seq(ProofEntry) /\ n \in Nat /\ proof.left \in Int /\ proof.lastDispatch \in Int
      /\ proof.resends \in Int /\ proof.status = "pending" /\ ProofStateFits(proof)
  BY <1>1 DEF ProofInv, ProofRow, ProofMayApply
<1>3. /\ \A i \in 1..n : EntryFits(h, i)
      /\ proof.left = LeftAfter(h, n) /\ proof.left > 0
      /\ proof.lastDispatch = DispatchedAt(h, n) /\ proof.resends = Cardinality(SentAgain(h, n))
      /\ n > 0 => h[n].result \in Repeatable
  BY <1>1, <1>2 DEF ProofStateFits, Repeatable
<1>4. ASSUME NEW i \in 1..n PROVE h[i].result \in Repeatable
  <2>1. CASE i = n
    BY <1>2, <1>3, <2>1
  <2>2. CASE i # Len(h)
    BY <1>3, <2>2 DEF EntryFits, Repeatable
  <2> QED BY <1>1, <2>1, <2>2
<1> QED BY <1>1, <1>2, <1>3, <1>4 DEF OpenProof

\* The history of an open challenge with one more entry.
HistoryGrown(h, n, t, x) ==
  /\ Longer(h, n, t, x)
  /\ \A i, j \in 1..n + 1 : i # j => t[i].command.id # t[j].command.id
  /\ \A i \in 1..n : EntryFits(t, i) /\ t[i].result \in Repeatable
  /\ x.at >= (IF n + 1 = 1 THEN 0 ELSE t[n + 1 - 1].at)
  /\ SentAgain(t, n) = SentAgain(h, n) /\ DispatchedAt(t, n) = proof.lastDispatch
  /\ ResendsAreAsked(t)

LEMMA HistoryGrows ==
  ASSUME ProofInv, NEW c \in ProofCommands, NEW now \in 0..ProofExpires, ProofMayApply(c, now),
         NEW x \in ProofEntry, x.command = c, x.at = now,
         x.result = "resend_reserved" => c.type = "reserve_resend"
  PROVE  HistoryGrown(proof.applied, Len(proof.applied), Append(proof.applied, x), x)
<1>1. PICK h, n, t : h = proof.applied /\ n = Len(h) /\ t = Append(h, x)
  OBVIOUS
<1>2. OpenProof(h, n)
  BY <1>1, OpenHistoryFits
<1>3. h \in Seq(ProofEntry) /\ n \in Nat /\ DOMAIN h = 1..n
  BY <1>1, <1>2 DEF OpenProof
<1>4. Longer(h, n, t, x)
  BY <1>1, <1>3, AppendIsLonger
<1>5. /\ DOMAIN t = 1..n + 1 /\ t[n + 1] = x /\ Len(t) = n + 1
      /\ \A i \in 1..n : t[i] = h[i]
  BY <1>4 DEF Longer
<1>6. \A i \in 1..n : h[i].command.id # c.id /\ now >= h[i].at
  BY <1>1, <1>3 DEF ProofMayApply
<1>7. /\ \A i, j \in 1..n : i # j => h[i].command.id # h[j].command.id
      /\ \A i \in 1..n : EntryFits(h, i) /\ h[i].result \in Repeatable
  BY <1>1, <1>2 DEF OpenProof, ProofStateFits
<1>8. \A i, j \in 1..n + 1 : i # j => t[i].command.id # t[j].command.id
  <2> SUFFICES ASSUME NEW i \in 1..n + 1, NEW j \in 1..n + 1, i # j
               PROVE  t[i].command.id # t[j].command.id
    OBVIOUS
  <2>1. CASE i \in 1..n /\ j \in 1..n
    BY <1>5, <1>7, <2>1
  <2>2. CASE i = n + 1 /\ j \in 1..n
    BY <1>5, <1>6, <2>2
  <2>3. CASE j = n + 1 /\ i \in 1..n
    BY <1>5, <1>6, <2>3
  <2>4. /\ i \in 1..n \/ i = n + 1
        /\ j \in 1..n \/ j = n + 1
    BY <1>3
  <2> QED BY <2>1, <2>2, <2>3, <2>4
<1>9. ASSUME NEW i \in 1..n PROVE EntryFits(t, i) /\ t[i].result \in Repeatable
  <2>1. EntryFits(h, i) /\ h[i].result \in Repeatable /\ t[i] = h[i]
    BY <1>5, <1>7
  <2>2. i - 1 \in 0..n /\ i \in 0..n /\ i # n + 1
    BY <1>3
  <2>3. i # 1 => t[i - 1] = h[i - 1]
    BY <1>3, <1>5
  <2>4. /\ DispatchedAt(t, i - 1) = DispatchedAt(h, i - 1)
        /\ SentAgain(t, i - 1) = SentAgain(h, i - 1) /\ LeftAfter(t, i) = LeftAfter(h, i)
    BY <1>4, <2>2, SentBefore
  <2>5. \A j \in SentAgain(h, i - 1) : t[j] = h[j]
    <3>1. SentAgain(h, i - 1) \subseteq 1..i - 1 /\ 1..i - 1 \subseteq 1..n
      BY <1>3, SomeSent
    <3> QED BY <1>5, <3>1
  <2>6. t[i].at >= (IF i = 1 THEN 0 ELSE t[i - 1].at)
    BY <2>1, <2>3 DEF EntryFits
  <2>7. CASE h[i].result = "resend_reserved"
    BY <2>1, <2>4, <2>5, <2>6, <2>7 DEF EntryFits
  <2>8. CASE h[i].result = "incorrect_proof"
    BY <2>1, <2>4, <2>6, <2>8 DEF EntryFits
  <2> QED BY <2>1, <2>7, <2>8 DEF Repeatable
<1>10. x.at >= (IF n + 1 = 1 THEN 0 ELSE t[n + 1 - 1].at)
  <2>1. CASE n = 0
    BY <2>1
  <2>2. CASE n # 0
    <3>1. n \in 1..n /\ n + 1 # 1 /\ n + 1 - 1 = n
      BY <1>3, <2>2
    <3> QED BY <1>5, <1>6, <3>1
  <2> QED BY <2>1, <2>2
<1>11. SentAgain(t, n) = SentAgain(h, n) /\ DispatchedAt(t, n) = proof.lastDispatch
  <2>1. n \in 0..n
    BY <1>3
  <2> QED BY <1>2, <1>4, <2>1, SentBefore DEF OpenProof
<1>12. ResendsAreAsked(t)
  <2> SUFFICES ASSUME NEW i \in 1..n + 1, t[i].result = "resend_reserved"
               PROVE  t[i].command.type = "reserve_resend"
    BY <1>5 DEF ResendsAreAsked
  <2>1. CASE i = n + 1
    BY <1>5, <2>1
  <2>2. CASE i \in 1..n
    BY <1>1, <1>3, <1>5, <2>2 DEF ProofInv, ResendsAreAsked
  <2> QED BY <1>3, <2>1, <2>2
<1> QED BY <1>1, <1>4, <1>8, <1>9, <1>10, <1>11, <1>12 DEF HistoryGrown

LEMMA GrownCounts ==
  ASSUME NEW h, NEW n, NEW t, NEW x, OpenProof(h, n), HistoryGrown(h, n, t, x)
  PROVE  /\ LeftAfter(t, n + 1) =
              IF x.result \in {"incorrect_proof", "attempts_exhausted"}
              THEN proof.left - 1 ELSE proof.left
         /\ Cardinality(SentAgain(t, n + 1)) =
              IF x.result = "resend_reserved" THEN proof.resends + 1 ELSE proof.resends
         /\ DispatchedAt(t, n + 1) =
              IF x.result = "resend_reserved" THEN x.at ELSE proof.lastDispatch
<1>1. Longer(h, n, t, x) /\ n \in Nat
  BY DEF HistoryGrown, OpenProof
<1>2. /\ IsFiniteSet(Missed(h, n)) /\ n + 1 \notin Missed(h, n)
      /\ IsFiniteSet(SentAgain(h, n)) /\ n + 1 \notin SentAgain(h, n)
  <2>1. IsFiniteSet(1..n) /\ n + 1 \notin 1..n
    BY <1>1, FS_Interval
  <2> QED BY <2>1, SomeSent, FS_Subset
<1>3. /\ Cardinality(Missed(h, n) \cup {n + 1}) = Cardinality(Missed(h, n)) + 1
      /\ Cardinality(SentAgain(h, n) \cup {n + 1}) = Cardinality(SentAgain(h, n)) + 1
      /\ Cardinality(Missed(h, n)) \in Nat
  BY <1>2, FS_AddElement, FS_CardinalityType
<1>4. /\ proof.left = LeftAfter(h, n) /\ proof.resends = Cardinality(SentAgain(h, n))
      /\ proof.lastDispatch = DispatchedAt(h, n)
  BY DEF OpenProof
<1>0. /\ x.result = "resend_reserved" =>
           SentAgain(t, n + 1) = SentAgain(h, n) \cup {n + 1} /\ DispatchedAt(t, n + 1) = x.at
      /\ x.result # "resend_reserved" =>
           /\ SentAgain(t, n + 1) = SentAgain(h, n)
           /\ DispatchedAt(t, n + 1) = DispatchedAt(h, n)
      /\ Missed(t, n + 1) = IF x.result \in {"incorrect_proof", "attempts_exhausted"}
                            THEN Missed(h, n) \cup {n + 1} ELSE Missed(h, n)
  BY <1>1, SentAfter, Zenon
<1>5. DispatchedAt(t, n + 1) =
        IF x.result = "resend_reserved" THEN x.at ELSE proof.lastDispatch
  BY <1>0, <1>4
<1>6. Cardinality(SentAgain(t, n + 1)) =
        IF x.result = "resend_reserved" THEN proof.resends + 1 ELSE proof.resends
  BY <1>0, <1>3, <1>4
<1>7. CASE x.result \in {"incorrect_proof", "attempts_exhausted"}
  <2>1. LeftAfter(t, n + 1) = ProofAttempts - (Cardinality(Missed(h, n)) + 1)
    BY <1>0, <1>3, <1>7 DEF LeftAfter
  <2>2. proof.left = ProofAttempts - Cardinality(Missed(h, n))
    BY <1>4 DEF LeftAfter
  <2>3. LeftAfter(t, n + 1) = proof.left - 1
    BY ONLY <1>3, <2>1, <2>2, ContactAssumption
  <2> QED BY <1>5, <1>6, <1>7, <2>3
<1>8. CASE x.result \notin {"incorrect_proof", "attempts_exhausted"}
  <2>1. Missed(t, n + 1) = Missed(h, n)
    BY <1>0, <1>8
  <2> QED BY <1>4, <1>5, <1>6, <1>8, <2>1 DEF LeftAfter
<1> QED BY <1>7, <1>8

LEMMA GrownFits ==
  ASSUME NEW h, NEW n, NEW t, NEW x, OpenProof(h, n), HistoryGrown(h, n, t, x),
         NEW s, s.applied = t, s.left = LeftAfter(t, n + 1),
         s.lastDispatch = DispatchedAt(t, n + 1),
         s.resends = Cardinality(SentAgain(t, n + 1)), EntryFits(t, n + 1),
         IF s.status = "pending" THEN s.left > 0 /\ x.result \in Repeatable
         ELSE x.result = s.status
  PROVE  ProofStateFits(s)
<1>1. /\ n \in Nat /\ Len(t) = n + 1 /\ t[n + 1] = x
      /\ \A i, j \in 1..n + 1 : i # j => t[i].command.id # t[j].command.id
      /\ \A i \in 1..n : EntryFits(t, i)
  BY DEF OpenProof, HistoryGrown, Longer
<1>2. \A i \in 1..n + 1 : EntryFits(t, i)
  <2>1. \A i \in 1..n + 1 : i \in 1..n \/ i = n + 1
    BY <1>1
  <2> QED BY <1>1, <2>1
<1>3. n + 1 > 0
  BY <1>1
<1>4. IF s.status = "pending"
      THEN s.left > 0
           /\ (n + 1 > 0 => t[n + 1].result \in {"incorrect_proof", "resend_reserved"})
      ELSE n + 1 > 0 /\ t[n + 1].result = s.status
  BY <1>1, <1>3 DEF Repeatable
<1> QED BY <1>1, <1>2, <1>4 DEF ProofStateFits

LEMMA GrownIsProved ==
  ASSUME ProofInv, NEW h, NEW n, NEW t, NEW x, OpenProof(h, n), HistoryGrown(h, n, t, x),
         proof'.applied = t, proof'.status = "verified" <=> x.result = "verified",
         x.result = "verified" => x.command.value = "right" /\ x.at < ProofExpires,
         x.result = "resend_reserved" => x.at - proof.lastDispatch >= Cooldown
  PROVE  ContactIsProved'
<1>1. /\ n \in Nat /\ h = proof.applied /\ h \in Seq(ProofEntry) /\ Len(h) = n /\ DOMAIN h = 1..n
      /\ Len(t) = n + 1 /\ t[n + 1] = x /\ DOMAIN t = 1..n + 1
      /\ \A i \in 1..n : t[i] = h[i] /\ t[i].result \in Repeatable
      /\ \A i \in 1..n + 1 : i \in 1..n \/ i = n + 1
  BY DEF OpenProof, HistoryGrown, Longer
<1>2. Longer(h, n, t, x) /\ proof.lastDispatch \in Int /\ x \in ProofEntry
  BY DEF OpenProof, HistoryGrown, Longer
<1>3. proof'.status = "verified" <=> \E i \in 1..n + 1 : t[i].result = "verified"
  <2>1. n + 1 \in 1..n + 1
    BY <1>1
  <2> QED BY <1>1, <2>1 DEF Repeatable
<1>4. ASSUME x.result = "verified"
      PROVE  Cardinality({i \in 1..n + 1 : t[i].command.value = "wrong"}) < ProofAttempts
  <2>1. PICK W : W = {i \in 1..n + 1 : t[i].command.value = "wrong"}
    OBVIOUS
  <2>2. W \subseteq Missed(h, n)
    <3> SUFFICES ASSUME NEW i \in W PROVE i \in Missed(h, n)
      OBVIOUS
    <3>1. i \in 1..n /\ h[i].command.value = "wrong" /\ h[i].result \in Repeatable
      BY <1>1, <1>4, <2>1
    <3>2. h[i] \in ProofEntry
      BY <1>1, <3>1
    <3>3. h[i].command \in ProofCommands
      BY <3>2 DEF ProofEntry
    <3>4. h[i].command.type = "submit_proof"
      BY <3>1, <3>3, CommandsDiffer
    <3>5. h[i].result # "resend_reserved"
      BY <1>1, <3>1, <3>4 DEF ProofInv, ResendsAreAsked
    <3> QED BY <3>1, <3>5 DEF Missed, Repeatable
  <2>3. IsFiniteSet(Missed(h, n))
    <3>1. IsFiniteSet(1..n)
      BY <1>1, FS_Interval
    <3> QED BY <3>1, SomeSent, FS_Subset
  <2>4. Cardinality(W) <= Cardinality(Missed(h, n)) /\ IsFiniteSet(W)
    BY <2>2, <2>3, FS_Subset
  <2>5. proof.left = ProofAttempts - Cardinality(Missed(h, n)) /\ proof.left > 0
    BY DEF OpenProof, LeftAfter
  <2>6. Cardinality(W) \in Nat /\ Cardinality(Missed(h, n)) \in Nat
    BY <2>3, <2>4, FS_CardinalityType
  <2>7. Cardinality(W) < ProofAttempts
    BY ONLY <2>4, <2>5, <2>6, ContactAssumption
  <2> QED BY <2>1, <2>7
<1>5. /\ \A i, j \in SentAgain(h, n) : i < j => h[j].at - h[i].at >= Cooldown
      /\ \A i \in SentAgain(h, n) : h[i].at >= Cooldown
      /\ \A i \in SentAgain(h, n) : i \in 1..n /\ h[i].at \in Nat /\ t[i] = h[i]
  <2>1. ASSUME NEW i \in 1..n PROVE h[i].at \in Nat
    <3>1. h[i] \in ProofEntry
      BY <1>1
    <3>2. h[i].at \in 0..ProofExpires
      BY <3>1 DEF ProofEntry
    <3> QED BY ONLY <3>2, ContactAssumption
  <2> QED BY <1>1, <2>1, SomeSent DEF ProofInv, ContactIsSound, ContactIsProved
<1>6. proof.lastDispatch >= 0 /\ \A i \in SentAgain(h, n) : h[i].at <= proof.lastDispatch
  <2>1. CASE SentAgain(h, n) = {}
    BY <2>1, DispatchedAtIs DEF OpenProof
  <2>2. CASE SentAgain(h, n) # {}
    <3>1. PICK m : m = Latest(SentAgain(h, n))
      OBVIOUS
    <3>2. m \in SentAgain(h, n) /\ \A i \in SentAgain(h, n) : i <= m
      BY <1>1, <2>2, <3>1, LatestIsLast, SomeSent
    <3>3. proof.lastDispatch = h[m].at
      BY <2>2, <3>1, DispatchedAtIs DEF OpenProof
    <3>4. ASSUME NEW i \in SentAgain(h, n) PROVE h[i].at <= h[m].at
      <4>1. i \in Int /\ m \in Int /\ h[i].at \in Nat /\ h[m].at \in Nat
        BY <1>5, <3>2
      <4>2. i < m => h[m].at - h[i].at >= Cooldown
        BY <1>5, <3>2
      <4>3. i = m \/ i < m
        BY <3>2, <4>1
      <4> QED BY <4>1, <4>2, <4>3, ContactAssumption
    <3>5. h[m].at >= 0
      BY <1>5, <3>2
    <3> QED BY <3>3, <3>4, <3>5
  <2> QED BY <2>1, <2>2
<1>7. /\ SentAgain(t, n + 1) \subseteq SentAgain(h, n) \cup {n + 1}
      /\ n + 1 \in SentAgain(t, n + 1) => x.at - proof.lastDispatch >= Cooldown
  <2>1. n + 1 \notin SentAgain(h, n)
    BY <1>1, SomeSent
  <2> QED BY <1>2, <2>1, SentAfter
<1>8. x.at \in Nat
  BY <1>2, ContactAssumption DEF ProofEntry
<1>9. ASSUME NEW i \in SentAgain(t, n + 1) PROVE t[i].at >= Cooldown
  <2>1. CASE i \in SentAgain(h, n)
    BY <1>5, <2>1
  <2>2. CASE i = n + 1
    <3>1. x.at - proof.lastDispatch >= Cooldown
      BY <1>7, <2>2
    <3>2. x.at >= Cooldown
      BY ONLY <1>2, <1>6, <1>8, <3>1, ContactAssumption
    <3> QED BY <1>1, <2>2, <3>2
  <2> QED BY <1>7, <2>1, <2>2
<1>10. ASSUME NEW i \in SentAgain(t, n + 1), NEW j \in SentAgain(t, n + 1), i < j
       PROVE  t[j].at - t[i].at >= Cooldown
  <2>1. CASE i \in SentAgain(h, n) /\ j \in SentAgain(h, n)
    BY <1>5, <1>10, <2>1
  <2>2. CASE i \in SentAgain(h, n) /\ j = n + 1
    <3>1. x.at - proof.lastDispatch >= Cooldown /\ h[i].at <= proof.lastDispatch
          /\ h[i].at \in Nat
      BY <1>5, <1>6, <1>7, <2>2
    <3>2. x.at - h[i].at >= Cooldown
      BY ONLY <1>2, <1>8, <3>1, ContactAssumption
    <3> QED BY <1>1, <1>5, <2>2, <3>2
  <2>3. CASE i = n + 1
    <3>1. j \in 1..n + 1
      BY SomeSent
    <3> QED BY <1>1, <1>10, <2>3, <3>1
  <2> QED BY <1>7, <2>1, <2>2, <2>3
<1>11. /\ proof'.applied = t /\ Len(t) = n + 1
       /\ proof'.status = "verified" =>
            /\ t[n + 1].command.value = "right" /\ t[n + 1].at < ProofExpires
            /\ Cardinality({i \in 1..n + 1 : t[i].command.value = "wrong"}) < ProofAttempts
  BY <1>1, <1>4
<1> QED BY <1>3, <1>9, <1>10, <1>11 DEF ContactIsProved

-----------------------------------------------------------------------------
(* The invariant.                                                          *)

\* What a command adds to the history, and the challenge it leaves.
Entered(c, now, result, left) == [command |-> c, at |-> now, result |-> result, left |-> left]

EntryMade(c, now, result, left, h, n, t, x) ==
  /\ x = Entered(c, now, result, left)
  /\ x \in ProofEntry /\ x.command = c /\ x.at = now /\ x.result = result
  /\ x.left = left
  /\ h = proof.applied /\ n = Len(h) /\ t = Append(h, x)
  /\ t = ProofRecorded(c, now, result, left) /\ t \in Seq(ProofEntry)
  /\ OpenProof(h, n) /\ HistoryGrown(h, n, t, x) /\ proof \in ProofRow

LEMMA EntryIsTyped ==
  ASSUME NEW c \in ProofCommands, NEW now \in 0..ProofExpires,
         NEW result \in ProofOutcomes \cup Repeatable, NEW left \in Int,
         ProofInv, ProofMayApply(c, now), result = "resend_reserved" => c.type = "reserve_resend"
  PROVE  \E h, n, t, x : EntryMade(c, now, result, left, h, n, t, x)
<1>1. PICK h, n, t, x : /\ x = Entered(c, now, result, left)
                        /\ h = proof.applied /\ n = Len(h) /\ t = Append(h, x)
  OBVIOUS
<1>2. x \in ProofEntry /\ x.command = c /\ x.at = now /\ x.result = result /\ x.left = left
  BY <1>1 DEF Entered, ProofEntry
<1>3. OpenProof(h, n)
  BY <1>1, OpenHistoryFits
<1>4. HistoryGrown(h, n, t, x)
  BY <1>1, <1>2, HistoryGrows
<1>5. t \in Seq(ProofEntry) /\ proof \in ProofRow
  BY <1>4 DEF HistoryGrown, Longer, ProofInv
<1>6. t = ProofRecorded(c, now, result, left)
  BY <1>1 DEF ProofRecorded, Entered
<1> QED BY <1>1, <1>2, <1>3, <1>4, <1>5, <1>6 DEF EntryMade

\* One more entry: what the last command must leave for the state to fit.
LEMMA ProofMoves ==
  ASSUME ProofInv, NEW h, NEW n, NEW t, NEW x, OpenProof(h, n), HistoryGrown(h, n, t, x),
         proof' \in ProofRow, proof'.applied = t,
         proof'.status = "verified" <=> x.result = "verified",
         x.result = "verified" => x.command.value = "right" /\ x.at < ProofExpires,
         x.result = "resend_reserved" => x.at - proof.lastDispatch >= Cooldown,
         proof'.left = LeftAfter(t, n + 1), proof'.lastDispatch = DispatchedAt(t, n + 1),
         proof'.resends = Cardinality(SentAgain(t, n + 1)), EntryFits(t, n + 1),
         IF proof'.status = "pending" THEN proof'.left > 0 /\ x.result \in Repeatable
         ELSE x.result = proof'.status
  PROVE  ProofInv'
<1>1. ContactIsProved'
  BY GrownIsProved
<1>2. ProofStateFits(proof')
  <2>1. PICK s : s = proof'
    OBVIOUS
  <2>2. ProofStateFits(s)
    BY <2>1, GrownFits
  <2> QED BY <2>1, <2>2
<1>3. ResendsAreAsked(proof'.applied)
  BY DEF HistoryGrown
<1> QED BY <1>1, <1>2, <1>3 DEF ProofInv, ContactIsSound, ProofStaysUsable

LEMMA ProofEndsInv ==
  ASSUME ProofInv, NEW c \in ProofCommands, NEW now \in 0..ProofExpires,
         ProofMayApply(c, now), NEW status \in {"expired", "cancelled", "verified"},
         ProofEnds(c, now, status),
         \/ status = "expired" /\ now >= ProofExpires
         \/ status = "cancelled" /\ now < ProofExpires /\ c.type = "cancel"
         \/ status = "verified" /\ now < ProofExpires /\ c.value = "right"
  PROVE  ProofInv'
<1>a. PICK h, n, t, x : EntryMade(c, now, status, 0, h, n, t, x)
  <2>1. status \in ProofOutcomes \cup Repeatable /\ 0 \in Int /\ status # "resend_reserved"
    BY DEF ProofOutcomes
  <2> QED BY <2>1, EntryIsTyped
<1>1. /\ x \in ProofEntry /\ x.command = c /\ x.at = now /\ x.result = status
      /\ x.left = 0 /\ h = proof.applied /\ n = Len(h) /\ t \in Seq(ProofEntry)
      /\ t = ProofRecorded(c, now, status, 0)
      /\ OpenProof(h, n) /\ HistoryGrown(h, n, t, x) /\ proof \in ProofRow
  BY <1>a DEF EntryMade
<1>2. PICK s : s = [proof EXCEPT !.status = status, !.applied = t]
  OBVIOUS
<1>3. proof' = s
  BY <1>1, <1>2 DEF ProofEnds
<1>4. /\ s \in ProofRow /\ s.applied = t /\ s.status = status /\ s.left = proof.left
      /\ s.lastDispatch = proof.lastDispatch /\ s.resends = proof.resends
  <2>1. status \in ProofOutcomes
    BY DEF ProofOutcomes
  <2> QED BY ONLY <1>1, <1>2, <2>1 DEF ProofRow
<1>5. /\ s.left = LeftAfter(t, n + 1) /\ s.lastDispatch = DispatchedAt(t, n + 1)
      /\ s.resends = Cardinality(SentAgain(t, n + 1))
  BY <1>1, <1>4, GrownCounts
<1>6. EntryFits(t, n + 1)
  <2>1. t[n + 1] = x /\ Len(t) = n + 1 /\ x.at >= (IF n + 1 = 1 THEN 0 ELSE t[n + 1 - 1].at)
    BY <1>1 DEF HistoryGrown, Longer
  <2>2. now \in Int /\ (now < ProofExpires \/ ~(now < ProofExpires))
    BY ContactAssumption
  <2>3. CASE status = "expired"
    <3>1. ~(now < ProofExpires)
      BY <2>2, <2>3, ContactAssumption
    <3> QED BY <1>1, <2>1, <2>3, <3>1 DEF EntryFits
  <2>4. CASE status # "expired"
    BY <1>1, <2>1, <2>4 DEF EntryFits
  <2> QED BY <2>3, <2>4
<1>7. x.result = "verified" => x.command.value = "right" /\ x.at < ProofExpires
  BY <1>1
<1>8. s.status # "pending" /\ x.result = s.status /\ x.result # "resend_reserved"
  BY <1>1, <1>4
<1> QED BY <1>1, <1>3, <1>4, <1>5, <1>6, <1>7, <1>8, ProofMoves

LEMMA ProofMissesInv ==
  ASSUME ProofInv, NEW c \in ProofCommands, NEW now \in 0..ProofExpires,
         ProofMayApply(c, now), now < ProofExpires, c.type = "submit_proof", c.value # "right",
         PresentProof(c, now)
  PROVE  ProofInv'
<1>0. c.value = "wrong"
  BY CommandsDiffer
<1>1. CASE proof.left - 1 = 0
  <2>a. PICK h, n, t, x : EntryMade(c, now, "attempts_exhausted", 0, h, n, t, x)
    <3>1. /\ "attempts_exhausted" \in ProofOutcomes \cup Repeatable /\ 0 \in Int
          /\ "attempts_exhausted" # "resend_reserved"
      BY DEF ProofOutcomes
    <3> QED BY <3>1, EntryIsTyped
  <2>1. /\ x \in ProofEntry /\ x.command = c /\ x.at = now /\ x.result = "attempts_exhausted"
        /\ x.left = 0 /\ h = proof.applied /\ n = Len(h) /\ t \in Seq(ProofEntry)
        /\ t = ProofRecorded(c, now, "attempts_exhausted", 0)
        /\ OpenProof(h, n) /\ HistoryGrown(h, n, t, x) /\ proof \in ProofRow
    BY <2>a DEF EntryMade
  <2>2. PICK s, status, left : /\ status = "attempts_exhausted" /\ left = 0
                               /\ s = [proof EXCEPT !.status = status, !.left = left,
                                                    !.applied = t]
    OBVIOUS
  <2>3. proof' = s
    BY <1>1, <2>1, <2>2 DEF PresentProof
  <2>4. /\ s \in ProofRow /\ s.applied = t /\ s.status = "attempts_exhausted" /\ s.left = 0
        /\ s.lastDispatch = proof.lastDispatch /\ s.resends = proof.resends
    <3>1. status \in ProofOutcomes /\ left \in Int
      BY <2>2 DEF ProofOutcomes
    <3>2. /\ s \in ProofRow /\ s.applied = t /\ s.status = status /\ s.left = left
          /\ s.lastDispatch = proof.lastDispatch /\ s.resends = proof.resends
      BY ONLY <2>1, <2>2, <3>1 DEF ProofRow
    <3> QED BY <2>2, <3>2
  <2>5. /\ s.left = LeftAfter(t, n + 1) /\ s.lastDispatch = DispatchedAt(t, n + 1)
        /\ s.resends = Cardinality(SentAgain(t, n + 1))
    BY <1>1, <2>1, <2>4, GrownCounts
  <2>6. EntryFits(t, n + 1)
    <3>1. t[n + 1] = x /\ Len(t) = n + 1 /\ x.at >= (IF n + 1 = 1 THEN 0 ELSE t[n + 1 - 1].at)
      BY <2>1 DEF HistoryGrown, Longer
    <3> QED BY <1>0, <2>1, <2>4, <2>5, <3>1 DEF EntryFits
  <2> QED BY <2>1, <2>3, <2>4, <2>5, <2>6, ProofMoves
<1>2. CASE proof.left - 1 # 0
  <2>0. proof.left \in Int
    BY DEF ProofInv, ProofRow
  <2>a. PICK h, n, t, x : EntryMade(c, now, "incorrect_proof", proof.left - 1, h, n, t, x)
    <3>1. /\ proof.left - 1 \in Int /\ "incorrect_proof" \in ProofOutcomes \cup Repeatable
          /\ "incorrect_proof" # "resend_reserved"
      BY <2>0 DEF Repeatable
    <3> QED BY <3>1, EntryIsTyped
  <2>1. /\ x \in ProofEntry /\ x.command = c /\ x.at = now /\ x.result = "incorrect_proof"
        /\ x.left = proof.left - 1 /\ h = proof.applied /\ n = Len(h) /\ t \in Seq(ProofEntry)
        /\ t = ProofRecorded(c, now, "incorrect_proof", proof.left - 1)
        /\ OpenProof(h, n) /\ HistoryGrown(h, n, t, x) /\ proof \in ProofRow
    BY <2>a DEF EntryMade
  <2>2. PICK left, s : /\ left = proof.left - 1
                       /\ s = [proof EXCEPT !.left = left, !.applied = t]
    OBVIOUS
  <2>3. proof' = s
    BY <1>0, <1>2, <2>1, <2>2 DEF PresentProof
  <2>4. left \in Int /\ left > 0
    <3>1. proof.left > 0
      BY <2>1 DEF OpenProof
    <3> QED BY ONLY <1>2, <2>0, <2>2, <3>1
  <2>5. /\ s \in ProofRow /\ s.applied = t /\ s.status = proof.status /\ s.left = left
        /\ s.lastDispatch = proof.lastDispatch /\ s.resends = proof.resends
    BY ONLY <2>1, <2>2, <2>4 DEF ProofRow
  <2>6. /\ s.left = LeftAfter(t, n + 1) /\ s.lastDispatch = DispatchedAt(t, n + 1)
        /\ s.resends = Cardinality(SentAgain(t, n + 1))
    BY <2>1, <2>2, <2>5, GrownCounts
  <2>7. EntryFits(t, n + 1)
    <3>1. t[n + 1] = x /\ Len(t) = n + 1 /\ x.at >= (IF n + 1 = 1 THEN 0 ELSE t[n + 1 - 1].at)
      BY <2>1 DEF HistoryGrown, Longer
    <3> QED BY <1>0, <2>1, <2>2, <2>4, <2>5, <2>6, <3>1 DEF EntryFits
  <2>8. s.status = "pending" /\ s.left > 0 /\ x.result \in Repeatable
    BY <2>1, <2>4, <2>5 DEF OpenProof, Repeatable
  <2> QED BY <2>1, <2>3, <2>5, <2>6, <2>7, <2>8, ProofMoves
<1> QED BY <1>1, <1>2

LEMMA ReserveResendInv ==
  ASSUME ProofInv, NEW c \in ProofCommands, NEW now \in 0..ProofExpires,
         ProofMayApply(c, now), now < ProofExpires, ReserveResend(c, now)
  PROVE  ProofInv'
<1>0. c.type = "reserve_resend" /\ now - proof.lastDispatch >= Cooldown
  BY DEF ReserveResend
<1>a. PICK h, n, t, x : EntryMade(c, now, "resend_reserved", 0, h, n, t, x)
  <2>1. "resend_reserved" \in ProofOutcomes \cup Repeatable /\ 0 \in Int
    BY DEF Repeatable
  <2> QED BY <1>0, <2>1, EntryIsTyped
<1>1. /\ x \in ProofEntry /\ x.command = c /\ x.at = now /\ x.result = "resend_reserved"
      /\ x.left = 0 /\ h = proof.applied /\ n = Len(h) /\ t \in Seq(ProofEntry)
      /\ t = ProofRecorded(c, now, "resend_reserved", 0)
      /\ OpenProof(h, n) /\ HistoryGrown(h, n, t, x) /\ proof \in ProofRow
  BY <1>a DEF EntryMade
<1>2. PICK s, again : /\ again = proof.resends + 1
                      /\ s = [proof EXCEPT !.lastDispatch = now, !.resends = again,
                                           !.applied = t]
  OBVIOUS
<1>3. proof' = s
  BY <1>1, <1>2 DEF ReserveResend
<1>4. now \in Int /\ again \in Int /\ n \in Nat
  BY <1>1, <1>2 DEF OpenProof
<1>5. /\ s \in ProofRow /\ s.applied = t /\ s.status = proof.status /\ s.left = proof.left
      /\ s.lastDispatch = now /\ s.resends = again
  BY ONLY <1>1, <1>2, <1>4 DEF ProofRow
<1>6. /\ s.left = LeftAfter(t, n + 1) /\ s.lastDispatch = DispatchedAt(t, n + 1)
      /\ s.resends = Cardinality(SentAgain(t, n + 1))
  BY <1>1, <1>2, <1>5, GrownCounts
<1>7. /\ t[n + 1] = x /\ Len(t) = n + 1 /\ x.at >= (IF n + 1 = 1 THEN 0 ELSE t[n + 1 - 1].at)
      /\ SentAgain(t, n) = SentAgain(h, n) /\ DispatchedAt(t, n) = proof.lastDispatch
      /\ \A i \in 1..n : t[i] = h[i]
  BY <1>1 DEF HistoryGrown, Longer
<1>8. n + 1 - 1 = n
  BY <1>4
<1>9. \A j \in SentAgain(h, n) :
        /\ j \in 1..n /\ t[j] = h[j] /\ t[j].command.key # c.key
        /\ t[j].command.type = "reserve_resend"
  <2> SUFFICES ASSUME NEW j \in SentAgain(h, n)
               PROVE  /\ j \in 1..n /\ t[j] = h[j] /\ t[j].command.key # c.key
                      /\ t[j].command.type = "reserve_resend"
    OBVIOUS
  <2>1. j \in 1..n /\ h[j].result = "resend_reserved" /\ j \in DOMAIN h
    BY <1>1 DEF SentAgain, OpenProof
  <2>2. h[j].command.type = "reserve_resend"
    BY <1>1, <2>1 DEF ProofInv, ResendsAreAsked
  <2>3. h[j].command.key # c.key
    BY <1>0, <1>1, <2>1, <2>2 DEF ProofMayApply
  <2> QED BY <1>7, <2>1, <2>2, <2>3
<1>10. s.status = "pending" /\ s.left > 0 /\ x.result \in Repeatable
  BY <1>1, <1>5 DEF OpenProof, Repeatable
<1>11. CASE \A j \in SentAgain(h, n) : t[j].command.dispatch # c.dispatch
  <2>1. EntryFits(t, n + 1)
    BY <1>0, <1>1, <1>7, <1>8, <1>9, <1>11 DEF EntryFits
  <2> QED BY <1>0, <1>1, <1>3, <1>5, <1>6, <1>10, <2>1, ProofMoves
<1>12. CASE \E j \in SentAgain(h, n) : t[j].command.dispatch = c.dispatch
  <2>1. PICK j \in SentAgain(h, n) : t[j].command.dispatch = c.dispatch
    BY <1>12
  <2>2. SentAgain(t, n + 1) = SentAgain(h, n) \cup {n + 1}
    <3>1. Longer(h, n, t, x)
      BY <1>1 DEF HistoryGrown
    <3>2. x.result = "resend_reserved" => SentAgain(t, n + 1) = SentAgain(h, n) \cup {n + 1}
      BY <3>1, SentAfter, Zenon
    <3> QED BY <1>1, <3>2
  <2>3. j \in SentAgain(t, n + 1) /\ n + 1 \in SentAgain(t, n + 1) /\ j # n + 1
    <3>1. j \in 1..n
      BY <1>9
    <3> QED BY <1>4, <2>2, <3>1
  <2>4. t[j].command.dispatch = t[n + 1].command.dispatch
    BY <1>1, <1>7, <2>1
  <2>5. ProofStaysUsable'
    BY <1>3, <1>5, <1>7, <2>3, <2>4 DEF ProofStaysUsable
  <2>6. ContactIsProved'
    BY <1>0, <1>1, <1>3, <1>5, <1>10, GrownIsProved
  <2>7. ResendsAreAsked(t)
    BY <1>1 DEF HistoryGrown
  <2> QED BY <1>3, <1>5, <2>5, <2>6, <2>7 DEF ProofInv, ContactIsSound
<1> QED BY <1>11, <1>12

LEMMA ProofInitially == ProofInit => ProofInv
<1> SUFFICES ASSUME ProofInit PROVE ProofInv
  OBVIOUS
<1>1. PICK h : h = << >>
  OBVIOUS
<1>2. h \in Seq(ProofEntry) /\ Len(h) = 0 /\ DOMAIN h = {} /\ 1..0 = {}
  BY <1>1
<1>3. SentAgain(h, 0) = {} /\ Missed(h, 0) = {}
  BY <1>2 DEF SentAgain, Missed
<1>4. Cardinality({}) = 0
  BY FS_EmptySet
<1>5. /\ proof = [status |-> "pending", left |-> ProofAttempts, lastDispatch |-> 0,
                  resends |-> 0, applied |-> h]
  BY <1>1 DEF ProofInit
<1>6. ProofAttempts \in Int /\ ProofAttempts > 0
  BY ContactAssumption
<1>7. proof \in ProofRow
  BY <1>2, <1>5, <1>6 DEF ProofRow
<1>8. /\ proof.status = "pending" /\ proof.left = ProofAttempts /\ proof.lastDispatch = 0
      /\ proof.resends = 0 /\ proof.applied = h
  BY <1>5
<1>9. LeftAfter(h, 0) = ProofAttempts /\ DispatchedAt(h, 0) = 0
  <2>1. LeftAfter(h, 0) = ProofAttempts - 0
    BY <1>3, <1>4 DEF LeftAfter
  <2> QED BY <1>3, <1>6, <2>1, DispatchedAtIs
<1>10. ProofStateFits(proof)
  <2>1. \A i \in 1..0 : FALSE
    BY <1>2
  <2>2. ~(0 > 0)
    OBVIOUS
  <2>3. Len(proof.applied) = 0 /\ proof.applied = h /\ proof.left > 0
    BY <1>2, <1>6, <1>8
  <2>4. /\ proof.left = LeftAfter(h, 0) /\ proof.lastDispatch = DispatchedAt(h, 0)
        /\ proof.resends = Cardinality(SentAgain(h, 0))
    BY <1>3, <1>4, <1>8, <1>9
  <2> QED BY <1>8, <2>1, <2>2, <2>3, <2>4, Zenon DEF ProofStateFits
<1>11. ContactIsProved
  BY <1>2, <1>3, <1>8 DEF ContactIsProved
<1> QED BY <1>2, <1>7, <1>8, <1>10, <1>11
        DEF ProofInv, ContactIsSound, ProofStaysUsable, ResendsAreAsked

LEMMA ProofStep == ProofInv /\ [ProofNext]_proof => ProofInv'
<1> SUFFICES ASSUME ProofInv, [ProofNext]_proof PROVE ProofInv'
  OBVIOUS
<1>1. CASE UNCHANGED proof
  BY <1>1 DEF ProofInv, ContactIsSound, ProofStaysUsable, ContactIsProved
<1>2. ASSUME NEW c \in ProofCommands, NEW now \in 0..ProofExpires, Prove(c, now)
      PROVE  ProofInv'
  <2>1. ProofMayApply(c, now)
    BY <1>2 DEF Prove
  <2>2. CASE ExpireFromCommand(c, now)
    BY <2>1, <2>2, ProofEndsInv DEF ExpireFromCommand
  <2>3. CASE now < ProofExpires /\ CancelProof(c, now)
    BY <2>1, <2>3, ProofEndsInv DEF CancelProof
  <2>4. CASE now < ProofExpires /\ ReserveResend(c, now)
    BY <2>1, <2>4, ReserveResendInv
  <2>5. CASE now < ProofExpires /\ PresentProof(c, now)
    <3>1. CASE c.value = "right"
      BY <2>1, <2>5, <3>1, ProofEndsInv DEF PresentProof
    <3>2. CASE c.value # "right"
      BY <2>1, <2>5, <3>2, ProofMissesInv DEF PresentProof
    <3> QED BY <3>1, <3>2
  <2> QED BY <1>2, <2>2, <2>3, <2>4, <2>5 DEF Prove
<1> QED BY <1>1, <1>2 DEF ProofNext

\* No series of proofs, resends, cancellations and expiries leads to a state
\* that its validator refuses, but for a dispatch that is used twice; a contact
\* is proved in time, by the right value and after fewer misses than attempts,
\* and no two messages leave within the pause.
THEOREM ContactStaysSound == ProofSpec => []ContactIsSound
<1>1. ProofInv => ContactIsSound
  BY DEF ProofInv
<1> QED BY <1>1, ProofInitially, ProofStep, PTL DEF ProofSpec

\* The counters of a contact's challenge keep their bounds.
ProofCounts ==
  /\ proof.left \in 0..ProofAttempts /\ proof.lastDispatch \in 0..ProofExpires
  /\ proof.resends \in 0..Len(proof.applied)

LEMMA ProofCountsHold ==
  ASSUME ProofInv, ProofCounts, [ProofNext]_proof PROVE ProofCounts'
<1>1. CASE UNCHANGED proof
  BY <1>1 DEF ProofCounts
<1>2. ASSUME NEW c \in ProofCommands, NEW now \in 0..ProofExpires, Prove(c, now) PROVE ProofCounts'
  <2>1. PICK h, n : h = proof.applied /\ n = Len(h) /\ n \in Nat /\ h \in Seq(ProofEntry)
    BY DEF ProofInv, ProofRow
  <2>2. /\ proof \in ProofRow /\ proof.left \in 0..ProofAttempts /\ proof.left > 0
        /\ proof.lastDispatch \in 0..ProofExpires /\ proof.resends \in 0..n
        /\ ProofAttempts \in Nat /\ ProofExpires \in Nat
    BY <1>2, <2>1, ContactAssumption DEF Prove, ProofMayApply, ProofStateFits, ProofInv, ProofCounts
  <2>3. ASSUME NEW result, NEW left PROVE Len(ProofRecorded(c, now, result, left)) = n + 1
    BY <2>1 DEF ProofRecorded
  <2>4. ASSUME NEW a, Len(a) = n + 1,
               \/ \E status : proof' = [proof EXCEPT !.status = status, !.applied = a]
               \/ proof' = [proof EXCEPT !.lastDispatch = now, !.resends = proof.resends + 1, !.applied = a]
               \/ \E status, z : z = 0 /\ proof' = [proof EXCEPT !.status = status, !.left = z, !.applied = a]
               \/ proof' = [proof EXCEPT !.left = proof.left - 1, !.applied = a]
        PROVE  ProofCounts'
    <3>1. /\ proof'.applied = a
          /\ proof'.left \in {proof.left, 0, proof.left - 1}
          /\ proof'.lastDispatch \in {proof.lastDispatch, now}
          /\ proof'.resends \in {proof.resends, proof.resends + 1}
      BY <2>2, <2>4 DEF ProofRow
    <3>2. /\ proof'.left \in 0..ProofAttempts /\ proof'.lastDispatch \in 0..ProofExpires
          /\ proof'.resends \in 0..(n + 1)
      BY <2>1, <2>2, <3>1
    <3> QED BY <2>4, <3>1, <3>2 DEF ProofCounts
  <2>5. ASSUME NEW status, ProofEnds(c, now, status) PROVE ProofCounts'
    <3>1. PICK a : a = ProofRecorded(c, now, status, 0) /\ Len(a) = n + 1
      BY <2>3
    <3> QED BY <2>4, <2>5, <3>1 DEF ProofEnds
  <2>6. CASE ReserveResend(c, now)
    <3>1. PICK a : a = ProofRecorded(c, now, "resend_reserved", 0) /\ Len(a) = n + 1
      BY <2>3
    <3> QED BY <2>4, <2>6, <3>1 DEF ReserveResend
  <2>7. CASE PresentProof(c, now)
    <3>1. CASE c.value = "right"
      BY <2>5, <2>7, <3>1 DEF PresentProof
    <3>2. CASE c.value # "right" /\ proof.left - 1 = 0
      <4>1. PICK a : a = ProofRecorded(c, now, "attempts_exhausted", 0) /\ Len(a) = n + 1
        BY <2>3
      <4>2. PICK status, z : status = "attempts_exhausted" /\ z = 0
        OBVIOUS
      <4>3. proof' = [proof EXCEPT !.status = status, !.left = z, !.applied = a]
        BY <2>7, <3>2, <4>1, <4>2 DEF PresentProof
      <4> QED BY <2>4, <4>1, <4>2, <4>3
    <3>3. CASE c.value # "right" /\ proof.left - 1 # 0
      <4>1. PICK a : a = ProofRecorded(c, now, "incorrect_proof", proof.left - 1) /\ Len(a) = n + 1
        BY <2>3
      <4>2. proof' = [proof EXCEPT !.left = proof.left - 1, !.applied = a]
        BY <2>7, <3>3, <4>1 DEF PresentProof
      <4> QED BY <2>4, <4>1, <4>2
    <3> QED BY <3>1, <3>2, <3>3
  <2> QED BY <1>2, <2>5, <2>6, <2>7 DEF Prove, ExpireFromCommand, CancelProof
<1> QED BY <1>1, <1>2 DEF ProofNext

\* ProofTypeOK, of every set of commands, number of attempts and expiry.
THEOREM ContactIsTyped == ProofSpec => []ProofTypeOK
<1>1. ProofInit => ProofCounts
  BY ContactAssumption DEF ProofInit, ProofCounts
<1>2. ProofInv /\ ProofCounts => ProofTypeOK
  <2> SUFFICES ASSUME ProofInv, ProofCounts PROVE ProofTypeOK
    OBVIOUS
  <2>1. proof \in ProofRow /\ proof.applied \in Seq(ProofEntry)
    BY DEF ProofInv, ProofRow
  <2>2. \A i \in DOMAIN proof.applied : proof.applied[i] \in ProofEntry
    BY <2>1
  <2> QED BY <2>1, <2>2 DEF ProofTypeOK, ProofCounts, ProofRow, ProofOutcomes, ProofEntry
<1> QED BY <1>1, <1>2, ProofInitially, ProofStep, ProofCountsHold, PTL DEF ProofSpec

-----------------------------------------------------------------------------
(* LevelReassessment.                                                      *)

Earned == {Level(sheet) : sheet \in Filled}

GatePlaces == {"loading", "loaded", "error", "asking", "sending", "answered", "reconciling",
               "reconciled", "result", "app"}
GateRow ==
  [pc : GatePlaces, draft : SUBSET Filled, tries : Nat, answer : Earned \cup {"none", "conflict"},
   found : SUBSET Filled, shown : Earned \cup {"none"}]

\* The level of a sheet that is kept.
IsKept(level) == \E sheet \in sheets : level = Level(sheet)

\* What a gate was told, and what it shows.
GateKnows(g) ==
  /\ g.found \subseteq sheets
  /\ g.pc = "answered" /\ g.answer # "conflict" => IsKept(g.answer)
  /\ g.pc \in {"result", "app"} => IsKept(g.shown)

ReassessmentInv ==
  /\ sheets \subseteq Filled /\ overdue \subseteq Filled
  /\ \A s, t \in sheets : s = t
  /\ gate \in [Devices -> GateRow]
  /\ \A d \in Devices : GateKnows(gate[d])

LEMMA FreshGate ==
  ASSUME NEW pc \in GatePlaces, NEW draft \in SUBSET Filled, NEW shown \in Earned \cup {"none"},
         NEW g, g = Gate(pc, draft, shown)
  PROVE  g \in GateRow /\ g.pc = pc /\ g.found = {} /\ g.shown = shown
BY DEF Gate, GateRow

LEMMA ReassessmentInitially == ReassessmentInit => ReassessmentInv
<1> SUFFICES ASSUME ReassessmentInit PROVE ReassessmentInv
  OBVIOUS
<1>1. PICK g : g = Gate("loading", {}, "none")
  OBVIOUS
<1>2. g \in GateRow /\ g.pc = "loading" /\ g.found = {}
  BY <1>1, FreshGate DEF GatePlaces
<1>3. gate = [d \in Devices |-> g]
  BY <1>1 DEF ReassessmentInit
<1> QED BY <1>2, <1>3 DEF ReassessmentInit, ReassessmentInv, GateKnows

\* The sheets that are kept stay, and the gate of d goes on to g.
LEMMA GateGoesOn ==
  ASSUME ReassessmentInv, NEW d \in Devices, NEW g \in GateRow, GateBecomes(d, g),
         sheets \subseteq sheets', sheets' \subseteq Filled, \A s, t \in sheets' : s = t,
         overdue' \subseteq Filled, g.found \subseteq sheets',
         g.pc = "answered" /\ g.answer # "conflict" => \E sheet \in sheets' : g.answer = Level(sheet),
         g.pc \in {"result", "app"} => \E sheet \in sheets' : g.shown = Level(sheet)
  PROVE  ReassessmentInv'
<1>1. \A c \in Devices : gate'[c] = IF c = d THEN g ELSE gate[c]
  BY DEF GateBecomes, ReassessmentInv
<1>2. gate' \in [Devices -> GateRow]
  BY DEF GateBecomes, ReassessmentInv
<1>3. \A c \in Devices : GateKnows(gate[c])'
  <2> SUFFICES ASSUME NEW c \in Devices PROVE GateKnows(gate[c])'
    OBVIOUS
  <2>1. CASE c = d
    BY <1>1, <2>1 DEF GateKnows, IsKept
  <2>2. CASE c # d
    BY <1>1, <2>2 DEF ReassessmentInv, GateKnows, IsKept
  <2> QED BY <2>1, <2>2
<1> QED BY <1>2, <1>3 DEF ReassessmentInv

\* A gate that only turns to the place pc, with what it knew.
LEMMA GateTurns ==
  ASSUME ReassessmentInv, NEW d \in Devices, NEW pc \in GatePlaces \ {"answered"},
         pc = "app" => gate[d].pc = "result", pc # "result", GateGoes(d, pc),
         UNCHANGED <<sheets, overdue>>
  PROVE  ReassessmentInv'
<1>1. PICK g : g = [gate[d] EXCEPT !.pc = pc]
  OBVIOUS
<1>2. gate[d] \in GateRow /\ GateKnows(gate[d])
  BY DEF ReassessmentInv
<1>3. g \in GateRow /\ g.pc = pc /\ g.found = gate[d].found /\ g.shown = gate[d].shown
  BY ONLY <1>1, <1>2, pc \in GatePlaces DEF GateRow
<1> QED BY <1>1, <1>2, <1>3, GateGoesOn DEF GateGoes, GateKnows, IsKept, ReassessmentInv

LEMMA StoredFacts ==
  ASSUME ReassessmentInv, NEW sheet \in Filled, sheets' = Stored(sheet)
  PROVE  /\ sheets \subseteq sheets' /\ sheets' \subseteq Filled /\ \A s, t \in sheets' : s = t
         /\ ~Conflicts(sheet) => sheet \in sheets'
BY DEF ReassessmentInv, Stored, Conflicts

LEMMA ServeCompletionInv ==
  ASSUME ReassessmentInv, NEW d \in Devices, ServeCompletion(d)
  PROVE  ReassessmentInv'
<1>1. gate[d] \in GateRow /\ GateKnows(gate[d])
  BY DEF ReassessmentInv
<1>2. PICK sheet \in gate[d].draft :
        /\ sheets' = Stored(sheet)
        /\ GateBecomes(d, [gate[d] EXCEPT !.pc = "answered",
                        !.answer = IF Conflicts(sheet) THEN "conflict" ELSE Level(sheet)])
  BY DEF ServeCompletion
<1>3. sheet \in Filled
  BY <1>1 DEF GateRow
<1>4. PICK answer : /\ answer = IF Conflicts(sheet) THEN "conflict" ELSE Level(sheet)
                    /\ answer \in Earned \cup {"conflict"}
  BY <1>3 DEF Earned
<1>5. PICK g : g = [gate[d] EXCEPT !.pc = "answered", !.answer = answer]
  OBVIOUS
<1>6. g \in GateRow /\ g.pc = "answered" /\ g.answer = answer /\ g.found = gate[d].found
  BY ONLY <1>1, <1>4, <1>5 DEF GateRow, GatePlaces
<1>7. GateBecomes(d, g) /\ overdue' = overdue
  BY <1>2, <1>4, <1>5 DEF ServeCompletion
<1>8. g.answer # "conflict" => \E s \in sheets' : g.answer = Level(s)
  BY <1>2, <1>3, <1>4, <1>6, StoredFacts
<1> QED BY <1>1, <1>2, <1>3, <1>6, <1>7, <1>8, StoredFacts, GateGoesOn DEF GateKnows, ReassessmentInv

LEMMA ServeOverdueInv ==
  ASSUME ReassessmentInv, NEW sheet \in Filled, ServeOverdue(sheet)
  PROVE  ReassessmentInv'
<1>1. sheets \subseteq sheets' /\ sheets' \subseteq Filled /\ \A s, t \in sheets' : s = t
  BY StoredFacts DEF ServeOverdue
<1>2. \A d \in Devices : GateKnows(gate[d])'
  BY <1>1 DEF ServeOverdue, ReassessmentInv, GateKnows, IsKept
<1> QED BY <1>1, <1>2 DEF ServeOverdue, ReassessmentInv

LEMMA ServeReadInv ==
  ASSUME ReassessmentInv, NEW d \in Devices, ServeRead(d)
  PROVE  ReassessmentInv'
<1>1. gate[d] \in GateRow /\ sheets \in SUBSET Filled
  BY DEF ReassessmentInv
<1>2. PICK pc : pc = (IF AtPage(d, "loading") THEN "loaded" ELSE "reconciled") /\ pc \in {"loaded", "reconciled"}
  OBVIOUS
<1>3. PICK g : g = [gate[d] EXCEPT !.pc = pc, !.found = sheets]
  OBVIOUS
<1>4. g \in GateRow /\ g.pc = pc /\ g.found = sheets
  BY ONLY <1>1, <1>2, <1>3 DEF GateRow, GatePlaces
<1>5. GateBecomes(d, g) /\ UNCHANGED <<sheets, overdue>>
  BY <1>2, <1>3 DEF ServeRead
<1> QED BY <1>2, <1>4, <1>5, GateGoesOn DEF ReassessmentInv

LEMMA ReceiveReadInv ==
  ASSUME ReassessmentInv, NEW d \in Devices, ReceiveRead(d)
  PROVE  ReassessmentInv'
<1>1. gate[d] \in GateRow /\ GateKnows(gate[d]) /\ gate[d].draft \in SUBSET Filled
  BY DEF ReassessmentInv, GateRow
<1>2. ASSUME NEW pc \in {"app", "result"}, gate[d].found # {}, Shows(d, pc)
      PROVE  ReassessmentInv'
  <2>1. PICK sheet : sheet = CHOOSE s \in gate[d].found : TRUE
    OBVIOUS
  <2>2. sheet \in sheets /\ sheet \in Filled
    BY <1>1, <1>2, <2>1 DEF GateKnows, ReassessmentInv
  <2>3. Level(sheet) \in Earned /\ LevelOf(gate[d].found) = Level(sheet)
    BY <2>1, <2>2 DEF Earned, LevelOf
  <2>4. PICK draft, level, g : /\ draft = gate[d].draft /\ level = Level(sheet)
                               /\ g = Gate(pc, draft, level)
    OBVIOUS
  <2>5. g \in GateRow /\ g.pc = pc /\ g.found = {} /\ g.shown = Level(sheet)
    <3>1. pc \in GatePlaces /\ level \in Earned \cup {"none"} /\ draft \in SUBSET Filled
      BY <1>1, <2>3, <2>4 DEF GatePlaces
    <3>2. g \in GateRow /\ g.pc = pc /\ g.found = {} /\ g.shown = level
      BY ONLY <2>4, <3>1 DEF Gate, GateRow
    <3> QED BY <2>4, <3>2
  <2>6. GateBecomes(d, g) /\ UNCHANGED <<sheets, overdue>>
    BY <1>2, <2>3, <2>4 DEF Shows, ReceiveRead
  <2> QED BY <2>2, <2>5, <2>6, GateGoesOn DEF ReassessmentInv
<1>3. ASSUME GateBecomes(d, Gate("asking", gate[d].draft, "none"))
      PROVE  ReassessmentInv'
  <2>1. PICK g : g = Gate("asking", gate[d].draft, "none")
    OBVIOUS
  <2>2. g \in GateRow /\ g.pc = "asking" /\ g.found = {}
    BY <1>1, <2>1, FreshGate DEF GatePlaces
  <2> QED BY <1>3, <2>1, <2>2, GateGoesOn DEF ReassessmentInv, ReceiveRead
<1> QED BY <1>2, <1>3 DEF ReceiveRead

\* The steps of the page that set the gate anew, or write down answers.
LEMMA GateOpensInv ==
  ASSUME ReassessmentInv, NEW d \in Devices, NEW pc \in {"loading", "asking"},
         NEW draft \in SUBSET Filled, GateBecomes(d, Gate(pc, draft, "none")),
         sheets' = sheets, overdue' \subseteq Filled
  PROVE  ReassessmentInv'
<1>1. PICK g : g = Gate(pc, draft, "none")
  OBVIOUS
<1>2. g \in GateRow /\ g.pc = pc /\ g.found = {}
  <2>1. pc \in GatePlaces /\ "none" \in Earned \cup {"none"}
    BY DEF GatePlaces
  <2>2. PICK place, level : place = pc /\ level = "none"
    OBVIOUS
  <2>3. g = Gate(place, draft, level) /\ place \in GatePlaces
        /\ level \in Earned \cup {"none"}
    BY ONLY <1>1, <2>1, <2>2
  <2>4. g \in GateRow /\ g.pc = place /\ g.found = {}
    BY ONLY <2>3, draft \in SUBSET Filled DEF Gate, GateRow
  <2> QED BY ONLY <2>2, <2>4
<1> QED BY <1>1, <1>2, GateGoesOn DEF ReassessmentInv

LEMMA ChangeAnswersInv ==
  ASSUME ReassessmentInv, NEW d \in Devices, NEW sheet \in Filled, ChangeAnswers(d, sheet)
  PROVE  ReassessmentInv'
<1>1. gate[d] \in GateRow /\ GateKnows(gate[d])
  BY DEF ReassessmentInv
<1>2. PICK g : g = [gate[d] EXCEPT !.draft = {sheet}]
  OBVIOUS
<1>3. g \in GateRow /\ g.pc = gate[d].pc /\ g.found = gate[d].found
  BY ONLY <1>1, <1>2, sheet \in Filled DEF GateRow
<1> QED BY <1>1, <1>2, <1>3, GateGoesOn DEF ChangeAnswers, AtPage, GateKnows, ReassessmentInv

\* A completion that is sent, or sent again.
LEMMA CompletionSentInv ==
  ASSUME ReassessmentInv, NEW d \in Devices, NEW g, gate[d] \in GateRow,
         \/ g = [gate[d] EXCEPT !.pc = "sending", !.tries = 1]
         \/ g = [gate[d] EXCEPT !.pc = "sending", !.tries = @ + 1, !.answer = "none"],
         GateBecomes(d, g), sheets' = sheets, overdue' \subseteq Filled
  PROVE  ReassessmentInv'
<1>1. GateKnows(gate[d])
  BY DEF ReassessmentInv
<1>2. gate[d].tries \in Nat /\ gate[d].tries + 1 \in Nat
  BY DEF GateRow
<1>3. g \in GateRow /\ g.pc = "sending" /\ g.found = gate[d].found
  <2>1. CASE g = [gate[d] EXCEPT !.pc = "sending", !.tries = 1]
    BY ONLY <1>2, <2>1, gate[d] \in GateRow DEF GateRow, GatePlaces
  <2>2. CASE g = [gate[d] EXCEPT !.pc = "sending", !.tries = @ + 1, !.answer = "none"]
    <3>1. PICK n \in Nat : n = gate[d].tries + 1
      BY <1>2
    <3>2. g = [gate[d] EXCEPT !.pc = "sending", !.tries = n, !.answer = "none"]
      BY <2>2, <3>1
    <3> QED BY ONLY <3>2, gate[d] \in GateRow, n \in Nat DEF GateRow, GatePlaces
  <2> QED BY <2>1, <2>2
<1> QED BY <1>1, <1>3, GateGoesOn DEF GateKnows, ReassessmentInv

LEMMA ReceiveCompletionInv ==
  ASSUME ReassessmentInv, NEW d \in Devices, ReceiveCompletion(d)
  PROVE  ReassessmentInv'
<1>1. gate[d] \in GateRow /\ GateKnows(gate[d]) /\ gate[d].draft \in SUBSET Filled
  BY DEF ReassessmentInv, GateRow
<1>2. CASE gate[d].answer = "conflict"
  BY <1>2, GateTurns DEF ReceiveCompletion, GatePlaces
<1>3. CASE gate[d].answer # "conflict"
  <2>1. IsKept(gate[d].answer)
    BY <1>1, <1>3 DEF ReceiveCompletion, AtPage, GateKnows
  <2>2. gate[d].answer \in Earned
    BY <2>1 DEF IsKept, Earned, ReassessmentInv
  <2>3. PICK draft, level, place, g :
           /\ draft = gate[d].draft /\ level = gate[d].answer /\ place = "result"
           /\ g = Gate(place, draft, level)
    OBVIOUS
  <2>4. g \in GateRow /\ g.pc = "result" /\ g.found = {} /\ g.shown = gate[d].answer
    <3>1. place \in GatePlaces /\ level \in Earned \cup {"none"} /\ draft \in SUBSET Filled
      BY <1>1, <2>2, <2>3 DEF GatePlaces
    <3>2. g \in GateRow /\ g.pc = place /\ g.found = {} /\ g.shown = level
      BY ONLY <2>3, <3>1 DEF Gate, GateRow
    <3> QED BY <2>3, <3>2
  <2>5. GateBecomes(d, g) /\ UNCHANGED <<sheets, overdue>>
    BY <1>3, <2>3 DEF ReceiveCompletion
  <2> QED BY <2>1, <2>4, <2>5, GateGoesOn DEF IsKept, ReassessmentInv
<1> QED BY <1>2, <1>3

LEMMA RepeatCompletionInv ==
  ASSUME ReassessmentInv, NEW d \in Devices, RepeatCompletion(d)
  PROVE  ReassessmentInv'
<1>1. gate[d] \in GateRow /\ gate[d].draft \in SUBSET Filled
  BY DEF ReassessmentInv, GateRow
<1>2. sheets' = sheets /\ overdue' \subseteq Filled
  BY <1>1 DEF RepeatCompletion, UnservedAfter, ReassessmentInv
<1>3. CASE gate[d].tries < MaxGateTries
  BY <1>1, <1>2, <1>3, CompletionSentInv DEF RepeatCompletion
<1>4. CASE ~(gate[d].tries < MaxGateTries)
  BY <1>1, <1>2, <1>4, GateOpensInv DEF RepeatCompletion
<1> QED BY <1>3, <1>4

LEMMA ReassessmentStep == ReassessmentInv /\ [ReassessmentNext]_reassessmentVars => ReassessmentInv'
<1> SUFFICES ASSUME ReassessmentInv, [ReassessmentNext]_reassessmentVars PROVE ReassessmentInv'
  OBVIOUS
<1>1. ASSUME NEW d \in Devices, ReadFails(d) \/ TryAgain(d) \/ EnterApp(d) PROVE ReassessmentInv'
  BY <1>1, GateTurns DEF ReadFails, TryAgain, EnterApp, AtPage, GatePlaces
<1>2. ASSUME NEW d \in Devices, HandleSubmit(d) PROVE ReassessmentInv'
  <2>1. gate[d] \in GateRow
    BY DEF ReassessmentInv
  <2> QED BY <1>2, <2>1, CompletionSentInv DEF HandleSubmit, ReassessmentInv
<1>3. ASSUME NEW d \in Devices, Reopen(d) PROVE ReassessmentInv'
  <2>1. gate[d].draft \in SUBSET Filled
    BY DEF ReassessmentInv, GateRow
  <2>2. sheets' = sheets /\ overdue' \subseteq Filled
    BY <1>3, <2>1 DEF Reopen, UnservedAfter, ReassessmentInv
  <2> QED BY <1>3, <2>2, GateOpensInv DEF Reopen
<1>4. CASE UNCHANGED reassessmentVars
  BY <1>4 DEF reassessmentVars, ReassessmentInv, GateKnows, IsKept
<1> QED BY <1>1, <1>2, <1>3, <1>4, ServeCompletionInv, ServeOverdueInv, ServeReadInv,
           ReceiveReadInv, ChangeAnswersInv, ReceiveCompletionInv, RepeatCompletionInv
       DEF ReassessmentNext

\* Whatever is sent again, arrives late or is sent from another device, the
\* level a player is shown is the level of the one sheet that is kept.
THEOREM ShownLevelIsAlwaysKept == ReassessmentSpec => []ShownLevelIsKept
<1>1. ReassessmentInv => ShownLevelIsKept
  BY DEF ReassessmentInv, ShownLevelIsKept, GateKnows, IsKept
<1> QED BY <1>1, ReassessmentInitially, ReassessmentStep, PTL DEF ReassessmentSpec

\* The evidence of a level is never replaced: not by a repeat, a late request
\* or another device.
THEOREM EvidenceAlwaysStands == ReassessmentSpec => EvidenceStands
<1>1. [ReassessmentNext]_reassessmentVars => [sheets # {} => sheets' = sheets]_sheets
  BY DEF ReassessmentNext, reassessmentVars, ServeCompletion, ServeOverdue, ServeRead, ReceiveRead,
         ReadFails, TryAgain, ChangeAnswers, HandleSubmit, ReceiveCompletion, RepeatCompletion,
         EnterApp, Reopen, Stored
<1> QED BY <1>1, PTL DEF ReassessmentSpec, EvidenceStands

\* A gate repeats a completion within its bound.
GateTries == \A d \in Devices : gate[d].tries \in 0..MaxGateTries

LEMMA GateTriesHold ==
  ASSUME ReassessmentInv, GateTries, [ReassessmentNext]_reassessmentVars PROVE GateTries'
<1>0. MaxGateTries \in Nat /\ MaxGateTries >= 1 /\ gate \in [Devices -> GateRow]
  BY ReassessmentAssumption DEF ReassessmentInv
<1>1. CASE UNCHANGED gate
  BY <1>1 DEF GateTries
<1>2. ASSUME NEW d \in Devices, NEW next, GateBecomes(d, next), next.tries \in 0..MaxGateTries
      PROVE  GateTries'
  BY <1>0, <1>2 DEF GateTries, GateBecomes
<1>3. ASSUME NEW pc, NEW draft, NEW shown PROVE Gate(pc, draft, shown).tries \in 0..MaxGateTries
  BY <1>0 DEF Gate
<1>4. ASSUME NEW d \in Devices, NEW pc PROVE [gate[d] EXCEPT !.pc = pc].tries \in 0..MaxGateTries
  BY <1>0 DEF GateTries, GateRow
<1>5. ASSUME NEW d \in Devices, NEW pc, GateGoes(d, pc) PROVE GateTries'
  <2>1. PICK next : next = [gate[d] EXCEPT !.pc = pc]
    OBVIOUS
  <2> QED BY <1>2, <1>4, <1>5, <2>1 DEF GateGoes
<1>6. ASSUME NEW d \in Devices, NEW pc, NEW draft, NEW shown, GateBecomes(d, Gate(pc, draft, shown))
      PROVE  GateTries'
  <2>1. PICK next : next = Gate(pc, draft, shown)
    OBVIOUS
  <2> QED BY <1>2, <1>3, <1>6, <2>1
<1>7. ASSUME NEW d \in Devices, ServeCompletion(d) PROVE GateTries'
  <2>1. PICK pc, answer : GateBecomes(d, [gate[d] EXCEPT !.pc = pc, !.answer = answer])
    BY <1>7 DEF ServeCompletion
  <2>2. PICK next : next = [gate[d] EXCEPT !.pc = pc, !.answer = answer]
    OBVIOUS
  <2>3. next.tries = gate[d].tries
    BY <1>0, <2>2 DEF GateRow
  <2> QED BY <1>2, <2>1, <2>2, <2>3 DEF GateTries
<1>8. ASSUME NEW d \in Devices, ServeRead(d) PROVE GateTries'
  <2>1. PICK pc, found : GateBecomes(d, [gate[d] EXCEPT !.pc = pc, !.found = found])
    BY <1>8 DEF ServeRead
  <2>2. PICK next : next = [gate[d] EXCEPT !.pc = pc, !.found = found]
    OBVIOUS
  <2>3. next.tries = gate[d].tries
    BY <1>0, <2>2 DEF GateRow
  <2> QED BY <1>2, <2>1, <2>2, <2>3 DEF GateTries
<1>9. ASSUME NEW d \in Devices, NEW sheet \in Filled, ChangeAnswers(d, sheet) PROVE GateTries'
  <2>1. PICK next : next = [gate[d] EXCEPT !.draft = {sheet}]
    OBVIOUS
  <2>2. next.tries = gate[d].tries
    BY <1>0, <2>1 DEF GateRow
  <2> QED BY <1>2, <1>9, <2>1, <2>2 DEF GateTries, ChangeAnswers
<1>10. ASSUME NEW d \in Devices, HandleSubmit(d) PROVE GateTries'
  <2>1. PICK pc, one : pc = "sending" /\ one = 1
    OBVIOUS
  <2>2. PICK next : next = [gate[d] EXCEPT !.pc = pc, !.tries = one]
    OBVIOUS
  <2>3. next.tries = one
    BY <1>0, <2>2 DEF GateRow
  <2>4. one \in 0..MaxGateTries
    BY <1>0, <2>1
  <2>5. GateBecomes(d, next)
    BY <1>10, <2>1, <2>2 DEF HandleSubmit
  <2> QED BY <1>2, <2>3, <2>4, <2>5
<1>11. ASSUME NEW d \in Devices, RepeatCompletion(d) PROVE GateTries'
  <2>1. CASE gate[d].tries < MaxGateTries
    <3>1. PICK n : n = gate[d].tries + 1 /\ n \in 0..MaxGateTries
      BY <1>0, <2>1 DEF GateTries
    <3>0. PICK pc, answer : pc = "sending" /\ answer = "none"
      OBVIOUS
    <3>2. GateBecomes(d, [gate[d] EXCEPT !.pc = pc, !.tries = n, !.answer = answer])
      BY <1>11, <2>1, <3>1, <3>0 DEF RepeatCompletion
    <3>3. PICK next : next = [gate[d] EXCEPT !.pc = pc, !.tries = n, !.answer = answer]
      OBVIOUS
    <3>4. next.tries = n
      BY <1>0, <3>3 DEF GateRow
    <3> QED BY <1>2, <3>1, <3>2, <3>3, <3>4
  <2>2. CASE ~(gate[d].tries < MaxGateTries)
    BY <1>6, <1>11, <2>2 DEF RepeatCompletion
  <2> QED BY <2>1, <2>2
<1>12. ASSUME NEW d \in Devices, ReceiveRead(d) \/ ReceiveCompletion(d) \/ Reopen(d) PROVE GateTries'
  BY <1>5, <1>6, <1>12 DEF ReceiveRead, ReceiveCompletion, Reopen, Shows
<1>13. ASSUME NEW d \in Devices, ReadFails(d) \/ TryAgain(d) \/ EnterApp(d) PROVE GateTries'
  BY <1>5, <1>13 DEF ReadFails, TryAgain, EnterApp
<1> QED BY <1>1, <1>7, <1>8, <1>9, <1>10, <1>11, <1>12, <1>13
        DEF ReassessmentNext, ServeOverdue, reassessmentVars

\* ReassessmentTypeOK, of every number of devices and every set of sheets that
\* answer the survey.
THEOREM ReassessmentIsTyped == ReassessmentSpec => []ReassessmentTypeOK
<1>1. ReassessmentInit => GateTries
  <2> SUFFICES ASSUME ReassessmentInit, NEW d \in Devices PROVE gate[d].tries \in 0..MaxGateTries
    BY DEF GateTries
  <2>1. gate[d] = Gate("loading", {}, "none")
    BY DEF ReassessmentInit
  <2> QED BY <2>1, ReassessmentAssumption DEF Gate
<1>2. ReassessmentInv /\ GateTries => ReassessmentTypeOK
  BY ReassessmentAssumption DEF ReassessmentInv, GateTries, GateRow, ReassessmentTypeOK
<1> QED BY <1>1, <1>2, ReassessmentInitially, ReassessmentStep, GateTriesHold, PTL DEF ReassessmentSpec

-----------------------------------------------------------------------------
(* LevelSurvey.                                                            *)

\* The level as a number: the largest that neither the score nor a cap forbids.
ScoreRank(score) == 1 + Cardinality({last \in {2, 5, 8, 11, 14, 17} : score > last})

RanksAs(sheet, n) ==
  /\ n \in 1..7 /\ n <= ScoreRank(Score(sheet))
  /\ sheet["match_count"] = 0 => n <= 2
  /\ sheet["match_count"] = 1 => n <= 3
  /\ sheet["glass_play"] <= 1 => n <= 4
  /\ ~QualifiesForBPlus(sheet) => n <= 5
  /\ ~QualifiesForA(sheet) => n <= 6
  /\ \/ n = ScoreRank(Score(sheet)) \/ n = 7
     \/ n = 2 /\ sheet["match_count"] = 0
     \/ n = 3 /\ sheet["match_count"] = 1
     \/ n = 4 /\ sheet["glass_play"] <= 1
     \/ n = 5 /\ ~QualifiesForBPlus(sheet)
     \/ n = 6 /\ ~QualifiesForA(sheet)

LEMMA QuestionsAre ==
  /\ DOMAIN Questions = 1..5 /\ Len(Questions) = 5
  /\ QuestionCodes = {"match_count", "rally_stability", "glass_play", "serve_return_net",
                      "match_experience_year"}
  /\ \A i, j \in 1..5 : Questions[i] = Questions[j] => i = j
  /\ \A q \in QuestionCodes : \E i \in 1..5 : Questions[i] = q
<1>1. DOMAIN Questions = 1..5 /\ Len(Questions) = 5
  BY DEF Questions
<1>2. /\ Questions[1] = "match_count" /\ Questions[2] = "rally_stability"
      /\ Questions[3] = "glass_play" /\ Questions[4] = "serve_return_net"
      /\ Questions[5] = "match_experience_year"
  BY DEF Questions
<1>3. \A i \in 1..5 : i = 1 \/ i = 2 \/ i = 3 \/ i = 4 \/ i = 5
  OBVIOUS
<1>4. QuestionCodes = {"match_count", "rally_stability", "glass_play", "serve_return_net",
                       "match_experience_year"}
  BY <1>1, <1>2, <1>3 DEF QuestionCodes
<1> QED BY <1>1, <1>2, <1>3, <1>4

LEMMA SixSteps ==
  \A s \in Int :
    /\ s <= 2 => ScoreRank(s) = 1
    /\ s \in 3..5 => ScoreRank(s) = 2
    /\ s \in 6..8 => ScoreRank(s) = 3
    /\ s \in 9..11 => ScoreRank(s) = 4
    /\ s \in 12..14 => ScoreRank(s) = 5
    /\ s \in 15..17 => ScoreRank(s) = 6
    /\ s >= 18 => ScoreRank(s) = 7
<1>1. PICK none, one, two, three, four, five, six :
        /\ none = {} /\ one = none \cup {2} /\ two = one \cup {5} /\ three = two \cup {8}
        /\ four = three \cup {11} /\ five = four \cup {14} /\ six = five \cup {17}
  OBVIOUS
<1>0. /\ 8 \notin two /\ 11 \notin three /\ 14 \notin four /\ 17 \notin five
      /\ 2 \notin none /\ 5 \notin one
  BY <1>1
<1>2. IsFiniteSet(none) /\ Cardinality(none) = 0
  BY <1>1, FS_EmptySet
<1>3. IsFiniteSet(one) /\ Cardinality(one) = 1
  <2>1. one = none \cup {2}
    BY <1>1
  <2>2. IsFiniteSet(one) /\ Cardinality(one) = Cardinality(none) + 1
    BY <1>0, <1>2, <2>1, FS_AddElement
  <2> QED BY <1>2, <2>2
<1>4. IsFiniteSet(two) /\ Cardinality(two) = 2
  <2>1. two = one \cup {5}
    BY <1>1
  <2>2. IsFiniteSet(two) /\ Cardinality(two) = Cardinality(one) + 1
    BY <1>0, <1>3, <2>1, FS_AddElement
  <2> QED BY <1>3, <2>2
<1>5. IsFiniteSet(three) /\ Cardinality(three) = 3
  <2>1. three = two \cup {8}
    BY <1>1
  <2>2. IsFiniteSet(three) /\ Cardinality(three) = Cardinality(two) + 1
    BY <1>0, <1>4, <2>1, FS_AddElement
  <2> QED BY <1>4, <2>2
<1>6. IsFiniteSet(four) /\ Cardinality(four) = 4
  <2>1. four = three \cup {11}
    BY <1>1
  <2>2. IsFiniteSet(four) /\ Cardinality(four) = Cardinality(three) + 1
    BY <1>0, <1>5, <2>1, FS_AddElement
  <2> QED BY <1>5, <2>2
<1>7. IsFiniteSet(five) /\ Cardinality(five) = 5
  <2>1. five = four \cup {14}
    BY <1>1
  <2>2. IsFiniteSet(five) /\ Cardinality(five) = Cardinality(four) + 1
    BY <1>0, <1>6, <2>1, FS_AddElement
  <2> QED BY <1>6, <2>2
<1>8. IsFiniteSet(six) /\ Cardinality(six) = 6
  <2>1. six = five \cup {17}
    BY <1>1
  <2>2. IsFiniteSet(six) /\ Cardinality(six) = Cardinality(five) + 1
    BY <1>0, <1>7, <2>1, FS_AddElement
  <2> QED BY <1>7, <2>2
<1> SUFFICES ASSUME NEW s \in Int
             PROVE  /\ s <= 2 => ScoreRank(s) = 1
                    /\ s \in 3..5 => ScoreRank(s) = 2
                    /\ s \in 6..8 => ScoreRank(s) = 3
                    /\ s \in 9..11 => ScoreRank(s) = 4
                    /\ s \in 12..14 => ScoreRank(s) = 5
                    /\ s \in 15..17 => ScoreRank(s) = 6
                    /\ s >= 18 => ScoreRank(s) = 7
  OBVIOUS
<1>9. PICK below : below = {last \in {2, 5, 8, 11, 14, 17} : s > last}
  OBVIOUS
<1>10. ScoreRank(s) = 1 + Cardinality(below)
  BY <1>9 DEF ScoreRank
<1>11. /\ s <= 2 => below = none
       /\ s \in 3..5 => below = one
       /\ s \in 6..8 => below = two
       /\ s \in 9..11 => below = three
       /\ s \in 12..14 => below = four
       /\ s \in 15..17 => below = five
       /\ s >= 18 => below = six
  BY <1>1, <1>9
<1> QED BY <1>2, <1>3, <1>4, <1>5, <1>6, <1>7, <1>8, <1>10, <1>11

LEMMA LevelsAre ==
  /\ \A i \in 1..7 : Rank(Levels[i]) = i
  /\ Rank("D+") = 2 /\ Rank("C") = 3 /\ Rank("C+") = 4 /\ Rank("B") = 5
  /\ Rank("B+") = 6 /\ Rank("A") = 7
<1>1. DOMAIN Levels = 1..7
  BY DEF Levels
<1>2. /\ Levels[1] = "D" /\ Levels[2] = "D+" /\ Levels[3] = "C" /\ Levels[4] = "C+"
      /\ Levels[5] = "B" /\ Levels[6] = "B+" /\ Levels[7] = "A"
  BY DEF Levels
<1>3. \A i \in 1..7 : i = 1 \/ i = 2 \/ i = 3 \/ i = 4 \/ i = 5 \/ i = 6 \/ i = 7
  OBVIOUS
<1>4. \A i, j \in 1..7 : Levels[i] = Levels[j] => i = j
  BY <1>2, <1>3
<1>5. \A i \in 1..7 : Rank(Levels[i]) = i
  <2> SUFFICES ASSUME NEW i \in 1..7 PROVE Rank(Levels[i]) = i
    OBVIOUS
  <2>1. \E j \in DOMAIN Levels : Levels[j] = Levels[i]
    BY <1>1
  <2>2. Rank(Levels[i]) \in DOMAIN Levels /\ Levels[Rank(Levels[i])] = Levels[i]
    BY <2>1 DEF Rank
  <2> QED BY <1>1, <1>4, <2>2
<1>6. Rank(Levels[2]) = 2 /\ Rank(Levels[3]) = 3 /\ Rank(Levels[4]) = 4 /\ Rank(Levels[5]) = 5
      /\ Rank(Levels[6]) = 6 /\ Rank(Levels[7]) = 7
  BY <1>5
<1> QED BY <1>2, <1>5, <1>6

LEMMA ScoreIs ==
  ASSUME NEW sheet \in Sheets
  PROVE  /\ \A q \in QuestionCodes : sheet[q] \in 0..4
         /\ Score(sheet) \in 0..20 /\ ScoreRank(Score(sheet)) \in 1..7
<1>1. \A q \in QuestionCodes : sheet[q] \in 0..4
  BY DEF Sheets, Points
<1>2. Score(sheet) \in 0..20
  BY <1>1, QuestionsAre DEF Score
<1> QED BY <1>1, <1>2, SixSteps

LEMMA LevelRanks ==
  ASSUME NEW sheet \in Sheets
  PROVE  RanksAs(sheet, Rank(Level(sheet)))
<1>1. /\ sheet["match_count"] \in 0..4 /\ sheet["glass_play"] \in 0..4
      /\ ScoreRank(Score(sheet)) \in 1..7
  BY ScoreIs, QuestionsAre
<1>2. PICK s : s = ScoreRank(Score(sheet)) /\ s \in 1..7
  BY <1>1
<1>3. PICK ranks : ranks = {Rank(cap) : cap \in Caps(sheet)} \cup {Rank(LevelForScore(Score(sheet)))}
  OBVIOUS
<1>4. Rank(LevelForScore(Score(sheet))) = s
  <2>1. LevelForScore(Score(sheet)) = Levels[s]
    BY <1>2 DEF LevelForScore, ScoreRank
  <2> QED BY <1>2, <2>1, LevelsAre
<1>5. \A n : n \in ranks <=>
        \/ n = s \/ n = 7
        \/ n = 2 /\ sheet["match_count"] = 0
        \/ n = 3 /\ sheet["match_count"] = 1
        \/ n = 4 /\ sheet["glass_play"] <= 1
        \/ n = 5 /\ ~QualifiesForBPlus(sheet)
        \/ n = 6 /\ ~QualifiesForA(sheet)
  <2>1. \A cap : cap \in Caps(sheet) <=>
          \/ cap = "A"
          \/ cap = "D+" /\ sheet["match_count"] = 0
          \/ cap = "C" /\ sheet["match_count"] = 1
          \/ cap = "C+" /\ sheet["glass_play"] <= 1
          \/ cap = "B" /\ ~QualifiesForBPlus(sheet)
          \/ cap = "B+" /\ ~QualifiesForA(sheet)
    BY DEF Caps
  <2> QED BY <1>3, <1>4, <2>1, LevelsAre
<1>6. ranks \subseteq 1..7 /\ ranks # {}
  BY <1>2, <1>5
<1>7. \E n \in ranks : \A k \in ranks : n <= k
  <2>1. CASE 1 \in ranks
    BY <1>6, <2>1
  <2>2. CASE 2 \in ranks /\ 1 \notin ranks
    BY <1>6, <2>2
  <2>3. CASE 3 \in ranks /\ 1 \notin ranks /\ 2 \notin ranks
    BY <1>6, <2>3
  <2>4. CASE 4 \in ranks /\ 1 \notin ranks /\ 2 \notin ranks /\ 3 \notin ranks
    BY <1>6, <2>4
  <2>5. CASE 5 \in ranks /\ 1 \notin ranks /\ 2 \notin ranks /\ 3 \notin ranks /\ 4 \notin ranks
    BY <1>6, <2>5
  <2>6. CASE 6 \in ranks /\ 1 \notin ranks /\ 2 \notin ranks /\ 3 \notin ranks /\ 4 \notin ranks /\ 5 \notin ranks
    BY <1>6, <2>6
  <2>7. CASE 7 \in ranks /\ 1 \notin ranks /\ 2 \notin ranks /\ 3 \notin ranks /\ 4 \notin ranks /\ 5 \notin ranks /\ 6 \notin ranks
    BY <1>6, <2>7
  <2>8. PICK k \in ranks : k \in 1..7
    BY <1>6
  <2>9. k = 1 \/ k = 2 \/ k = 3 \/ k = 4 \/ k = 5 \/ k = 6 \/ k = 7
    BY <2>8
  <2> QED BY <2>1, <2>2, <2>3, <2>4, <2>5, <2>6, <2>7, <2>8, <2>9
<1>8. PICK least : least = Min(ranks)
  OBVIOUS
<1>9. least \in ranks /\ \A k \in ranks : least <= k
  BY <1>7, <1>8 DEF Min
<1>10. Rank(Level(sheet)) = least
  <2>1. Level(sheet) = Levels[least]
    BY <1>3, <1>8 DEF Level
  <2> QED BY <1>6, <1>9, <2>1, LevelsAre
<1> QED BY <1>2, <1>5, <1>6, <1>9, <1>10 DEF RanksAs

\* One more point never costs a level, and never earns more than two.
LEMMA OnePointMore ==
  ASSUME NEW sheet \in Sheets, NEW q \in QuestionCodes, sheet[q] < 4,
         NEW more, more = [sheet EXCEPT ![q] = @ + 1]
  PROVE  more \in Sheets /\ Rank(Level(more)) - Rank(Level(sheet)) \in 0..2
<1>1. more \in Sheets
  <2>1. sheet[q] + 1 \in 0..4
    BY ScoreIs
  <2> QED BY <2>1 DEF Sheets, Points
<1>2. PICK m, n : m = Rank(Level(more)) /\ n = Rank(Level(sheet))
  OBVIOUS
<1>3. RanksAs(more, m) /\ RanksAs(sheet, n)
  BY <1>1, <1>2, LevelRanks
<1>4. PICK count, rally, glass, serve, years :
        /\ count = sheet["match_count"] /\ rally = sheet["rally_stability"]
        /\ glass = sheet["glass_play"] /\ serve = sheet["serve_return_net"]
        /\ years = sheet["match_experience_year"]
  OBVIOUS
<1>5. PICK count2, rally2, glass2, serve2, years2 :
        /\ count2 = more["match_count"] /\ rally2 = more["rally_stability"]
        /\ glass2 = more["glass_play"] /\ serve2 = more["serve_return_net"]
        /\ years2 = more["match_experience_year"]
  OBVIOUS
<1>6. /\ count \in 0..4 /\ rally \in 0..4 /\ glass \in 0..4 /\ serve \in 0..4 /\ years \in 0..4
      /\ count2 \in 0..4 /\ rally2 \in 0..4 /\ glass2 \in 0..4 /\ serve2 \in 0..4 /\ years2 \in 0..4
  BY <1>1, <1>4, <1>5, ScoreIs, QuestionsAre
<1>7. \/ count2 = count + 1 /\ rally2 = rally /\ glass2 = glass /\ serve2 = serve /\ years2 = years
      \/ count2 = count /\ rally2 = rally + 1 /\ glass2 = glass /\ serve2 = serve /\ years2 = years
      \/ count2 = count /\ rally2 = rally /\ glass2 = glass + 1 /\ serve2 = serve /\ years2 = years
      \/ count2 = count /\ rally2 = rally /\ glass2 = glass /\ serve2 = serve + 1 /\ years2 = years
      \/ count2 = count /\ rally2 = rally /\ glass2 = glass /\ serve2 = serve /\ years2 = years + 1
  <2>1. \A c \in QuestionCodes : more[c] = IF c = q THEN sheet[c] + 1 ELSE sheet[c]
    BY DEF Sheets
  <2> QED BY <1>4, <1>5, <2>1, QuestionsAre
<1>8. PICK s, s2 : s = ScoreRank(Score(sheet)) /\ s2 = ScoreRank(Score(more))
  OBVIOUS
<1>9. s \in 1..7 /\ s2 \in 1..7 /\ s2 - s \in 0..1
  <2>1. PICK p, p2 : p = Score(sheet) /\ p2 = Score(more)
    OBVIOUS
  <2>2. p2 = p + 1 /\ p \in 0..20 /\ p2 \in 0..20
    <3>1. /\ p = count + rally + glass + serve + years
          /\ p2 = count2 + rally2 + glass2 + serve2 + years2
      BY <1>4, <1>5, <2>1 DEF Score
    <3> QED BY ONLY <1>6, <1>7, <3>1
  <2> QED BY <1>8, <2>1, <2>2, SixSteps
<1>10. /\ QualifiesForBPlus(sheet) <=> count >= 3 /\ rally >= 3 /\ glass >= 3 /\ serve >= 3
       /\ QualifiesForBPlus(more) <=> count2 >= 3 /\ rally2 >= 3 /\ glass2 >= 3 /\ serve2 >= 3
  BY <1>4, <1>5 DEF QualifiesForBPlus, Technical
<1>11. /\ QualifiesForA(sheet) <=> count = 4 /\ years = 4 /\ rally = 4 /\ glass = 4 /\ serve = 4
       /\ QualifiesForA(more) <=> count2 = 4 /\ years2 = 4 /\ rally2 = 4 /\ glass2 = 4 /\ serve2 = 4
  BY <1>4, <1>5 DEF QualifiesForA, Technical
<1>12. /\ n \in 1..7 /\ n <= s
       /\ count = 0 => n <= 2
       /\ count = 1 => n <= 3
       /\ glass <= 1 => n <= 4
       /\ ~(count >= 3 /\ rally >= 3 /\ glass >= 3 /\ serve >= 3) => n <= 5
       /\ ~(count = 4 /\ years = 4 /\ rally = 4 /\ glass = 4 /\ serve = 4) => n <= 6
       /\ \/ n = s \/ n = 7 \/ (n = 2 /\ count = 0) \/ (n = 3 /\ count = 1) \/ (n = 4 /\ glass <= 1)
          \/ n = 5 /\ ~(count >= 3 /\ rally >= 3 /\ glass >= 3 /\ serve >= 3)
          \/ n = 6 /\ ~(count = 4 /\ years = 4 /\ rally = 4 /\ glass = 4 /\ serve = 4)
  BY <1>3, <1>4, <1>8, <1>10, <1>11 DEF RanksAs
<1>13. /\ m \in 1..7 /\ m <= s2
       /\ count2 = 0 => m <= 2
       /\ count2 = 1 => m <= 3
       /\ glass2 <= 1 => m <= 4
       /\ ~(count2 >= 3 /\ rally2 >= 3 /\ glass2 >= 3 /\ serve2 >= 3) => m <= 5
       /\ ~(count2 = 4 /\ years2 = 4 /\ rally2 = 4 /\ glass2 = 4 /\ serve2 = 4) => m <= 6
       /\ \/ m = s2 \/ m = 7 \/ (m = 2 /\ count2 = 0) \/ (m = 3 /\ count2 = 1) \/ (m = 4 /\ glass2 <= 1)
          \/ m = 5 /\ ~(count2 >= 3 /\ rally2 >= 3 /\ glass2 >= 3 /\ serve2 >= 3)
          \/ m = 6 /\ ~(count2 = 4 /\ years2 = 4 /\ rally2 = 4 /\ glass2 = 4 /\ serve2 = 4)
  BY <1>3, <1>5, <1>8, <1>10, <1>11 DEF RanksAs
<1>14. m - n \in 0..2
  BY ONLY <1>6, <1>7, <1>9, <1>12, <1>13
<1> QED BY <1>1, <1>2, <1>14

-----------------------------------------------------------------------------

\* Every question before the one on the screen is answered, and a survey that
\* is sent has all five answers.
SurveyRow == [answers : [QuestionCodes -> Points \cup {Unanswered}], at : 1..5, sent : BOOLEAN]

SurveyInv ==
  /\ survey \in SurveyRow
  /\ \A i \in 1..5 : i < survey.at \/ survey.sent => survey.answers[Questions[i]] # Unanswered

LEMMA SurveyInitInv == SurveyInit => SurveyInv
<1> SUFFICES ASSUME SurveyInit PROVE SurveyInv
  OBVIOUS
<1>1. PICK filled : filled = [q \in QuestionCodes |-> Unanswered]
  OBVIOUS
<1>2. filled \in [QuestionCodes -> Points \cup {Unanswered}]
  BY <1>1
<1>3. survey = [answers |-> filled, at |-> 1, sent |-> FALSE]
  BY <1>1 DEF SurveyInit
<1>4. survey \in SurveyRow /\ survey.at = 1 /\ survey.sent = FALSE
  BY <1>2, <1>3 DEF SurveyRow
<1> QED BY <1>4 DEF SurveyInv

LEMMA SurveyStepInv == SurveyInv /\ [SurveyNext]_survey => SurveyInv'
<1> SUFFICES ASSUME SurveyInv, [SurveyNext]_survey PROVE SurveyInv'
  OBVIOUS
<1>1. CASE UNCHANGED survey
  BY <1>1 DEF SurveyInv
<1>2. /\ survey.at \in 1..5 /\ Current = Questions[survey.at] /\ Current \in QuestionCodes
      /\ survey \in SurveyRow /\ survey.answers \in [QuestionCodes -> Points \cup {Unanswered}]
  BY QuestionsAre DEF SurveyInv, SurveyRow, Current, QuestionCodes
<1>3. ASSUME NEW points \in Points, UpdateAnswer(points) PROVE SurveyInv'
  <2>1. PICK filled : filled = [survey.answers EXCEPT ![Current] = points]
    OBVIOUS
  <2>2. survey' = [survey EXCEPT !.answers = filled]
    BY <1>3, <2>1 DEF UpdateAnswer
  <2>3. survey.sent = FALSE
    BY <1>2, <1>3 DEF UpdateAnswer, SurveyRow
  <2>4. points # Unanswered
    BY DEF Points, Unanswered
  <2>5. filled \in [QuestionCodes -> Points \cup {Unanswered}]
    BY <1>2, <2>1
  <2>6. survey' \in SurveyRow /\ survey'.answers = filled /\ survey'.at = survey.at /\ survey'.sent = FALSE
    BY <1>2, <2>2, <2>3, <2>5 DEF SurveyRow
  <2>7. \A i \in 1..5 : i < survey.at => filled[Questions[i]] # Unanswered
    BY <1>2, <2>1, <2>4, QuestionsAre DEF SurveyInv, QuestionCodes
  <2> QED BY <2>6, <2>7 DEF SurveyInv
<1>4. CASE NextQuestion
  <2>1. /\ survey' \in SurveyRow /\ survey'.answers = survey.answers
        /\ survey'.at = survey.at + 1 /\ survey'.sent = FALSE /\ survey.answers[Questions[survey.at]] # Unanswered
    BY <1>2, <1>4, QuestionsAre DEF NextQuestion, SurveyRow
  <2> QED BY <1>2, <2>1 DEF SurveyInv
<1>5. CASE HandleBack
  <2>1. /\ survey' \in SurveyRow /\ survey'.answers = survey.answers
        /\ survey'.at = survey.at - 1 /\ survey'.sent = FALSE
    BY <1>2, <1>5 DEF HandleBack, SurveyRow
  <2> QED BY <1>2, <2>1 DEF SurveyInv
<1>6. CASE SubmitSurvey
  <2>1. /\ survey' \in SurveyRow /\ survey'.answers = survey.answers
        /\ survey'.at = survey.at /\ survey.at = 5 /\ survey.answers[Questions[5]] # Unanswered
    BY <1>2, <1>6, QuestionsAre DEF SubmitSurvey, SurveyRow
  <2> QED BY <1>2, <2>1 DEF SurveyInv
<1> QED BY <1>1, <1>3, <1>4, <1>5, <1>6 DEF SurveyNext

\* However the five questions of onboarding-survey.ts are answered, forwards
\* and back, what is sent is a full sheet; and a point more on any of them
\* never lowers the level and never lifts it by more than two.
THEOREM LevelIsAlwaysFair == SurveySpec => [](SurveyTypeOK /\ LevelIsFair)
<1>1. SurveyInv => SurveyTypeOK /\ LevelIsFair
  <2> SUFFICES ASSUME SurveyInv PROVE SurveyTypeOK /\ LevelIsFair
    OBVIOUS
  <2>0. SurveyTypeOK
    BY QuestionsAre DEF SurveyInv, SurveyRow, SurveyTypeOK
  <2> SUFFICES ASSUME survey.sent
               PROVE  /\ survey.answers \in Sheets
                      /\ \A better \in Better(survey.answers) :
                           Rank(Level(better)) - Rank(Level(survey.answers)) \in 0..2
    BY <2>0 DEF LevelIsFair
  <2>1. \A q \in QuestionCodes : survey.answers[q] # Unanswered
    BY QuestionsAre DEF SurveyInv
  <2>2. survey.answers \in Sheets
    BY <2>1 DEF SurveyInv, SurveyRow, Sheets
  <2> QED BY <2>2, OnePointMore DEF Better
<1> QED BY <1>1, SurveyInitInv, SurveyStepInv, PTL DEF SurveySpec

-----------------------------------------------------------------------------
(* Lifecycles of one kind.                                                 *)

\* A code, the proof of a contact and a grant, whatever is called on them, stay
\* usable, and each is used once, by the right side and in time.
THEOREM CodesAndGrantsStaySound ==
  OtpSpec /\ ProofSpec /\ GrantSpec => []CodesAndGrantsAreSound
<1>1. OtpIsSound /\ ContactIsSound /\ GrantIsSound <=> CodesAndGrantsAreSound
  BY DEF CodesAndGrantsAreSound
<1> QED BY <1>1, OtpStaysSound, ContactStaysSound, GrantsStaySound, PTL

\* What moved a reservation or a login, and the sheet that gave a level, are
\* never taken back.
THEOREM OutcomesAlwaysStand ==
  Spec /\ LoginSpec /\ ReassessmentSpec => OutcomesStand
<1>1. (OnlyOutcomesMove /\ LoginOutcomesStand /\ EvidenceStands) <=> OutcomesStand
  BY DEF OutcomesStand
<1> QED BY <1>1, OnlyOutcomesEverMove, LoginOutcomesAreFinal, EvidenceAlwaysStands, PTL

-----------------------------------------------------------------------------
(* PlayerSession.                                                          *)

\* A credential that the server gave out.
GivenOut(c) ==
  /\ c \in Credentials /\ c.family \in Families /\ family[c.family].status # "none"
  /\ 1 <= c.generation /\ c.generation <= family[c.family].generation

SessionMessage == [kind : Waiting, credential : Credentials, command : Nat, try : Nat]

SessionTyped ==
  /\ DOMAIN family = Families
  /\ late \subseteq Families /\ leaving \subseteq Families /\ spent \subseteq Nat
  /\ wire \subseteq SessionMessage
  /\ page \in Pages /\ via \in {"refresh", "login"}
  /\ held \in Credentials /\ stored \in Credentials
  /\ requestKey \in Nat /\ used \in Nat /\ requestKey <= used /\ try \in Nat
  /\ torn \in BOOLEAN

\* The commands of a family that is active are rotations, and of one that is
\* revoked, but for the last.
RowSound(row) ==
  /\ row \in FamilyRow /\ Replays(row)
  /\ row.status = "active" => \A i \in DOMAIN row.log : row.log[i].type = "rotate"
  /\ row.status = "revoked" =>
       \A i \in DOMAIN row.log : /\ row.log[i].type \in {"rotate", "revoke"}
                                 /\ row.log[i].type = "revoke" => i = Len(row.log)

\* A family ends for a cause, and its commands are among those made.
FamilySound(f) ==
  /\ RowSound(family[f])
  /\ \A i \in DOMAIN family[f].log : family[f].log[i].command <= used
  /\ family[f].status = "revoked" => f \in leaving
  /\ family[f].status = "expired" => f \in late
  /\ family[f].status = "reuse_detected" => torn

\* What is recorded under c revokes.
Revokes(c) ==
  \A f \in Families : \A i \in DOMAIN family[f].log :
    family[f].log[i].command = c => family[f].log[i].type = "revoke"

MessageSound(m) ==
  /\ m.command <= used
  /\ m.kind # "login" => GivenOut(m.credential)
  /\ m.kind = "logout" => m.credential.family \in leaving /\ Revokes(m.command)
  /\ m.command = requestKey /\ page \in Waiting =>
       /\ m.kind = page
       /\ page = "refresh" => m.credential = stored
       /\ page = "logout" => m.credential = held

OneRequestPerKey ==
  \A m \in wire : \A n \in wire :
    m.command = n.command =>
      m.kind = n.kind /\ (m.kind = "refresh" => m.credential = n.credential)

\* The page holds the latest credential of its family, and nobody asks to
\* refresh it.
Holding ==
  page \in {"store", "check", "in", "logout"} =>
    /\ GivenOut(held) /\ held.generation = family[held.family].generation
    /\ \A m \in wire : m.kind = "refresh" /\ m.credential.family = held.family =>
                         m.credential.generation < held.generation

PageSound ==
  /\ stored # NoCredential => GivenOut(stored)
  /\ page = "refresh" => stored # NoCredential /\ via = "refresh"
  /\ page = "login" => via = "login"
  /\ page = "logout" => held.family \in leaving /\ Revokes(requestKey)

\* While no refresh was torn, a refresh that may still be served is recorded, or
\* is the one the page waits for, or comes to a family that has ended.
RefreshIsAnswerable(m) ==
  \/ Recorded(m.credential.family, m.command)
  \/ /\ ~Consumed(m.credential)
     /\ \/ family[m.credential.family].status # "active"
        \/ page = "refresh" /\ requestKey = m.command

Untorn ==
  ~torn =>
    /\ \A m \in wire : m.kind = "refresh" => RefreshIsAnswerable(m)
    /\ page = "refresh" => Recorded(stored.family, requestKey) \/ ~Consumed(stored)
    /\ stored # NoCredential /\ page # "refresh" /\ ~(page = "store" /\ via = "refresh") =>
         ~Consumed(stored)

SessionInv ==
  /\ SessionTyped /\ (\A f \in Families : FamilySound(f))
  /\ (\A m \in wire : MessageSound(m)) /\ OneRequestPerKey
  /\ Holding /\ PageSound /\ Untorn

-----------------------------------------------------------------------------
(* A family with one more command.                                         *)

\* A command that a family may take in its state.
MayTake(row, type, s, g) ==
  \/ row.status = "active" /\ s = "active" /\ type = "rotate" /\ g = row.generation + 1
  \/ row.status = "active" /\ s = "expired" /\ type = "expire" /\ g = row.generation
  \/ row.status = "active" /\ s = "revoked" /\ type = "revoke" /\ g = row.generation
  \/ /\ row.status \in {"active", "revoked"} /\ s = "reuse_detected"
     /\ type = "reuse" /\ g = row.generation

\* row goes on to next, with the command e.
OneMore(row, next, e, n, t) ==
  /\ n = Len(row.log) /\ n \in Nat /\ DOMAIN row.log = 1..n
  /\ t = next.log /\ t \in Seq(AppliedCommand) /\ DOMAIN t = 1..n + 1
  /\ t[n + 1] = e /\ \A i \in 1..n : t[i] = row.log[i]

Rotations(log) == Cardinality({i \in DOMAIN log : log[i].type = "rotate"})

LogReplays(log) ==
  /\ \A i, j \in DOMAIN log : i # j => log[i].command # log[j].command
  /\ \A i, j \in DOMAIN log : i < j =>
       /\ log[i].type \notin {"expire", "reuse"}
       /\ log[i].type = "revoke" => log[j].type = "reuse"

LEMMA ReplaysIs ==
  ASSUME NEW row
  PROVE  Replays(row) <=> /\ row.status # "none" => row.generation = 1 + Rotations(row.log)
                          /\ LogReplays(row.log)
BY DEF Replays, Rotations, LogReplays

LEMMA RotationsCounted ==
  ASSUME NEW row, NEW next, NEW e, NEW n, NEW t, OneMore(row, next, e, n, t)
  PROVE  /\ Rotations(row.log) \in Nat
         /\ Rotations(t) = IF e.type = "rotate" THEN Rotations(row.log) + 1 ELSE Rotations(row.log)
<1> DEFINE A == {i \in DOMAIN row.log : row.log[i].type = "rotate"}
           B == {i \in DOMAIN t : t[i].type = "rotate"}
<1>1. /\ n \in Nat /\ DOMAIN row.log = 1..n /\ DOMAIN t = 1..n + 1
      /\ t[n + 1] = e /\ \A i \in 1..n : t[i] = row.log[i]
  BY DEF OneMore
<1>2. A \subseteq 1..n /\ n + 1 \notin A
  BY <1>1
<1>3. IsFiniteSet(1..n)
  BY <1>1, FS_Interval
<1>4. IsFiniteSet(A) /\ Cardinality(A) \in Nat
  BY <1>2, <1>3, FS_Subset, FS_CardinalityType
<1>5. B = IF e.type = "rotate" THEN A \cup {n + 1} ELSE A
  <2>1. \A i : i \in 1..n + 1 <=> i \in 1..n \/ i = n + 1
    BY ONLY <1>1
  <2> QED BY <1>1, <2>1
<1> HIDE DEF A, B
<1>6. Cardinality(A \cup {n + 1}) = Cardinality(A) + 1
  BY <1>2, <1>4, FS_AddElement
<1>7. Rotations(row.log) = Cardinality(A) /\ Rotations(t) = Cardinality(B)
  BY DEF Rotations, A, B
<1> QED BY <1>4, <1>5, <1>6, <1>7

LEMMA AppendedRow ==
  ASSUME NEW row, RowSound(row), NEW e \in AppliedCommand, NEW s, NEW g,
         \A i \in DOMAIN row.log : row.log[i].command # e.command,
         MayTake(row, e.type, s, g),
         NEW next, next = [status |-> s, generation |-> g, log |-> Append(row.log, e)]
  PROVE  RowSound(next)
<1> USE DEF MayTake
<1>1. PICK h, n, t : h = row.log /\ n = Len(h) /\ t = Append(h, e)
  OBVIOUS
<1>2. row \in FamilyRow /\ Replays(row)
  BY DEF RowSound
<1>3. h \in Seq(AppliedCommand) /\ row.generation \in Nat
  BY <1>1, <1>2 DEF FamilyRow
<1>4. /\ n \in Nat /\ DOMAIN h = 1..n /\ t \in Seq(AppliedCommand) /\ DOMAIN t = 1..n + 1
      /\ Len(t) = n + 1 /\ t[n + 1] = e /\ \A i \in 1..n : t[i] = h[i]
  BY <1>1, <1>3
<1>5. next.status = s /\ next.generation = g /\ next.log = t
  BY <1>1
<1>6. OneMore(row, next, e, n, t)
  BY <1>1, <1>4, <1>5 DEF OneMore
<1>7. next \in FamilyRow
  <2>1. s \in {"active", "revoked", "expired", "reuse_detected"} /\ g \in Nat
    BY <1>3
  <2>2. next = [status |-> s, generation |-> g, log |-> t]
    BY <1>1
  <2> QED BY ONLY <1>4, <2>1, <2>2 DEF FamilyRow
<1>8. \A i \in 1..n + 1 : i \in 1..n \/ i = n + 1
  BY ONLY <1>4
<1>9. \A i, j \in DOMAIN t : i # j => t[i].command # t[j].command
  <2>1. \A i, j \in 1..n : i # j => h[i].command # h[j].command
    <3>1. \A i, j \in DOMAIN h : i # j => h[i].command # h[j].command
      BY <1>1, <1>2, Zenon DEF Replays
    <3> QED BY <1>4, <3>1
  <2>2. \A i \in 1..n : h[i].command # e.command
    BY <1>1, <1>4
  <2> QED BY <1>4, <1>8, <2>1, <2>2
<1>10. g = 1 + Rotations(t)
  <2>1. row.status # "none" => row.generation = 1 + Rotations(h)
    BY <1>1, <1>2 DEF Replays, Rotations
  <2>2. row.status # "none" /\ Rotations(h) \in Nat
    BY <1>1, <1>6, RotationsCounted
  <2>3. Rotations(t) = IF e.type = "rotate" THEN Rotations(h) + 1 ELSE Rotations(h)
    BY <1>1, <1>6, RotationsCounted
  <2> QED BY <2>1, <2>2, <2>3
<1>11. \A i, j \in DOMAIN t : i < j => /\ t[i].type \notin {"expire", "reuse"}
                                       /\ t[i].type = "revoke" => t[j].type = "reuse"
  <2>1. \A i, j \in 1..n : i < j => /\ h[i].type \notin {"expire", "reuse"}
                                    /\ h[i].type = "revoke" => h[j].type = "reuse"
    <3>1. \A i, j \in DOMAIN h : i < j => /\ h[i].type \notin {"expire", "reuse"}
                                          /\ h[i].type = "revoke" => h[j].type = "reuse"
      BY <1>1, <1>2, Zenon DEF Replays
    <3> QED BY <1>4, <3>1, Zenon
  <2>2. \A i \in 1..n : /\ h[i].type \in {"rotate", "revoke"}
                        /\ h[i].type = "revoke" => e.type = "reuse"
    BY <1>1, <1>4 DEF RowSound
  <2>3. \A i, j \in 1..n + 1 : i < j => i \in 1..n
    BY ONLY <1>4
  <2> QED BY <1>4, <1>8, <2>1, <2>2, <2>3
<1>12. Replays(next)
  <2>1. LogReplays(t)
    BY <1>9, <1>11 DEF LogReplays
  <2>2. next.log = t /\ next.generation = 1 + Rotations(t)
    BY <1>5, <1>10
  <2> QED BY ONLY <2>1, <2>2, ReplaysIs
<1>13. s = "active" => \A i \in DOMAIN t : t[i].type = "rotate"
  BY <1>1, <1>4, <1>8 DEF RowSound
<1>14. s = "revoked" => \A i \in DOMAIN t : /\ t[i].type \in {"rotate", "revoke"}
                                            /\ t[i].type = "revoke" => i = Len(t)
  <2>1. s = "revoked" => e.type = "revoke" /\ \A i \in 1..n : h[i].type = "rotate"
    BY <1>1, <1>4 DEF RowSound
  <2> QED BY <1>4, <1>8, <2>1
<1> QED BY <1>5, <1>7, <1>12, <1>13, <1>14 DEF RowSound

\* A family as it begins.
LEMMA FreshRow ==
  ASSUME NEW row, \/ row = [status |-> "none", generation |-> 0, log |-> <<>>]
                  \/ row = [status |-> "active", generation |-> 1, log |-> <<>>]
  PROVE  RowSound(row) /\ row.log = <<>> /\ DOMAIN row.log = {}
<1>1. PICK h, s, g : h = <<>> /\ row = [status |-> s, generation |-> g, log |-> h]
                     /\ s \in {"none", "active"} /\ g \in Nat /\ (s = "active" => g = 1)
  OBVIOUS
<1>2. h \in Seq(AppliedCommand) /\ DOMAIN h = {}
  BY <1>1
<1>3. row \in FamilyRow
  BY ONLY <1>2, <1>1 DEF FamilyRow
<1>4. row.log = h /\ row.status = s /\ row.generation = g
  BY <1>1
<1>5. {i \in DOMAIN h : h[i].type = "rotate"} = {}
  BY <1>2
<1>6. Cardinality({i \in DOMAIN h : h[i].type = "rotate"}) = 0
  BY <1>5, FS_EmptySet
<1>7. s # "none" => g = 1 + 0
  BY <1>1
<1>8. Replays(row)
  BY <1>2, <1>4, <1>6, <1>7 DEF Replays
<1> QED BY <1>2, <1>1, <1>3, <1>4, <1>8 DEF RowSound

\* NewFamily is a family that nobody has had.
LEMMA NewFamilyIsNew ==
  ASSUME \E f \in Families : family[f].status = "none"
  PROVE  NewFamily \in Families /\ family[NewFamily].status = "none"
<1> DEFINE less == OpToRel(<, Nat)
           T == {f \in Families : family[f].status = "none"}
<1>1. IsWellFoundedOn(less, Nat)
  BY NatLessThanWellFounded, Zenon
<1>2. T \subseteq Nat /\ T # {}
  BY SessionAssumption DEF Families
<1> HIDE DEF less
<1>3. PICK m \in T : \A x \in T : ~(<<x, m>> \in less)
  BY <1>1, <1>2, WFMin
<1>4. ASSUME NEW g \in T PROVE m <= g
  <2> SUFFICES ASSUME g < m PROVE FALSE
    BY <1>2
  <2>1. <<g, m>> \in less
    BY <1>2, Zenon DEF less, OpToRel
  <2> QED BY <1>3, <2>1
<1> QED BY <1>4 DEF NewFamily

-----------------------------------------------------------------------------
(* The server serves a request.                                            *)

\* Family f has one more command, e; no other family changes.
FamilyGrown(f, e, s, g) ==
  /\ DOMAIN family' = Families
  /\ \A h \in Families : h # f => family'[h] = family[h]
  /\ family'[f].status = s /\ family'[f].generation = g
  /\ Len(family[f].log) \in Nat
  /\ DOMAIN family[f].log = 1..Len(family[f].log)
  /\ DOMAIN family'[f].log = 1..Len(family[f].log) + 1
  /\ family'[f].log[Len(family[f].log) + 1] = e
  /\ \A i \in 1..Len(family[f].log) : family'[f].log[i] = family[f].log[i]

LEMMA ApplyGrows ==
  ASSUME SessionInv, NEW f \in Families, NEW c \in Nat, ~Recorded(f, c),
         NEW type, NEW s, NEW g, MayTake(family[f], type, s, g), Apply(f, c, type, s, g)
  PROVE  /\ FamilyGrown(f, [command |-> c, type |-> type, presented |-> family[f].generation], s, g)
         /\ RowSound(family'[f])
<1>1. PICK row, e, next :
        /\ row = family[f] /\ next = family'[f]
        /\ e = [command |-> c, type |-> type, presented |-> row.generation]
  OBVIOUS
<1>2. RowSound(row) /\ DOMAIN family = Families
  BY <1>1 DEF SessionInv, FamilySound, SessionTyped
<1>3. next = [status |-> s, generation |-> g, log |-> Append(row.log, e)]
      /\ DOMAIN family' = Families /\ \A h \in Families : h # f => family'[h] = family[h]
  BY <1>1, <1>2 DEF Apply
<1>4. row.log \in Seq(AppliedCommand) /\ row.generation \in Nat
  BY <1>2 DEF RowSound, FamilyRow
<1>5. e \in AppliedCommand
  <2>1. type \in {"rotate", "reuse", "expire", "revoke"}
    BY DEF MayTake
  <2> QED BY ONLY c \in Nat, <1>1, <1>4, <2>1 DEF AppliedCommand
<1>6. \A i \in DOMAIN row.log : row.log[i].command # e.command
  BY <1>1 DEF Recorded
<1>7. RowSound(next)
  <2>1. e.type = type
    BY <1>1
  <2>2. MayTake(row, e.type, s, g)
    BY <1>1, <2>1
  <2>3. next = [status |-> s, generation |-> g, log |-> Append(row.log, e)]
    BY <1>3
  <2> QED BY ONLY <1>2, <1>5, <1>6, <2>2, <2>3, AppendedRow
<1>8. next.status = s /\ next.generation = g
  BY <1>3
<1>9. PICK h, t, n : h = row.log /\ t = Append(h, e) /\ n = Len(h)
  OBVIOUS
<1>10. /\ n \in Nat /\ DOMAIN h = 1..n /\ DOMAIN t = 1..n + 1 /\ t[n + 1] = e
       /\ \A i \in 1..n : t[i] = h[i]
  BY <1>4, <1>5, <1>9
<1>11. next.log = t
  BY <1>3, <1>9
<1> QED BY <1>1, <1>3, <1>7, <1>8, <1>9, <1>10, <1>11 DEF FamilyGrown

\* What serving a refresh does to the family of its credential.
Rotated(m) ==
  /\ family[m.credential.family].status = "active" /\ ~Recorded(m.credential.family, m.command)
  /\ m.credential.generation = family[m.credential.family].generation
  /\ RefreshAnswer(m) = "refreshed"
  /\ FamilyGrown(m.credential.family,
           [command |-> m.command, type |-> "rotate",
            presented |-> family[m.credential.family].generation],
           "active", family[m.credential.family].generation + 1)

EndedByTime(m) ==
  /\ family[m.credential.family].status = "active" /\ ~Recorded(m.credential.family, m.command)
  /\ ~Consumed(m.credential)
  /\ RefreshAnswer(m) # "refreshed" /\ m.credential.family \in late
  /\ FamilyGrown(m.credential.family,
           [command |-> m.command, type |-> "expire",
            presented |-> family[m.credential.family].generation],
           "expired", family[m.credential.family].generation)

EndedAsReused(m) ==
  /\ family[m.credential.family].status \in {"active", "revoked"}
  /\ ~Recorded(m.credential.family, m.command)
  /\ Consumed(m.credential) /\ RefreshAnswer(m) # "refreshed"
  /\ FamilyGrown(m.credential.family,
           [command |-> m.command, type |-> "reuse",
            presented |-> family[m.credential.family].generation],
           "reuse_detected", family[m.credential.family].generation)

RefusedAsIs(m) ==
  /\ Recorded(m.credential.family, m.command) \/ family[m.credential.family].status # "active"
  /\ RefreshAnswer(m) # "refreshed" /\ family' = family

LEMMA RefreshServed ==
  ASSUME SessionInv, NEW m \in wire, m.kind = "refresh", ServeRefresh(m)
  PROVE  /\ Rotated(m) \/ EndedByTime(m) \/ EndedAsReused(m) \/ RefusedAsIs(m)
         /\ family' = family \/ RowSound(family'[m.credential.family])
<1>1. PICK f, c, g : f = m.credential.family /\ c = m.command /\ g = family[f].generation
  OBVIOUS
<1>2. /\ GivenOut(m.credential) /\ f \in Families /\ c \in Nat /\ g \in Nat
      /\ m.credential.generation \in Nat /\ m.credential.generation <= g
      /\ family[f].status \in {"active", "revoked", "expired", "reuse_detected"}
  BY <1>1 DEF SessionInv, SessionTyped, SessionMessage, MessageSound, GivenOut, FamilySound,
              RowSound, FamilyRow, Credentials
<1>3. CASE RefreshAnswer(m) = "refreshed"
  <2>1. Apply(f, c, "rotate", "active", g + 1)
    BY <1>1, <1>3 DEF ServeRefresh
  <2>2. family[f].status = "active" /\ ~Recorded(f, c) /\ ~Consumed(m.credential)
    BY <1>1, <1>2, <1>3 DEF RefreshAnswer
  <2>3. m.credential.generation = g
    BY <1>1, <1>2, <2>2 DEF Consumed
  <2>4. MayTake(family[f], "rotate", "active", g + 1)
    BY <1>1, <2>2 DEF MayTake
  <2> QED BY <1>1, <1>2, <1>3, <2>1, <2>2, <2>3, <2>4, ApplyGrows DEF Rotated
<1>4. CASE RefreshAnswer(m) = "expired"
  <2>1. Apply(f, c, "expire", "expired", g)
    BY <1>1, <1>4 DEF ServeRefresh
  <2>2. family[f].status = "active" /\ ~Recorded(f, c) /\ ~Consumed(m.credential) /\ f \in late
    BY <1>1, <1>2, <1>4 DEF RefreshAnswer
  <2>3. MayTake(family[f], "expire", "expired", g)
    BY <1>1, <2>2 DEF MayTake
  <2> QED BY <1>1, <1>2, <1>4, <2>1, <2>2, <2>3, ApplyGrows DEF EndedByTime
<1>5. CASE /\ RefreshAnswer(m) = "invalid"
           /\ ~Recorded(f, c) /\ family[f].status \in {"active", "revoked"}
           /\ Consumed(m.credential)
  <2>1. Apply(f, c, "reuse", "reuse_detected", g)
    BY <1>1, <1>5 DEF ServeRefresh
  <2>2. MayTake(family[f], "reuse", "reuse_detected", g)
    BY <1>1, <1>5 DEF MayTake
  <2> QED BY <1>1, <1>2, <1>5, <2>1, <2>2, ApplyGrows DEF EndedAsReused
<1>6. CASE /\ RefreshAnswer(m) \notin {"refreshed", "expired"}
           /\ ~ /\ RefreshAnswer(m) = "invalid"
                /\ ~Recorded(f, c) /\ family[f].status \in {"active", "revoked"}
                /\ Consumed(m.credential)
  <2>1. family' = family
    BY <1>1, <1>6 DEF ServeRefresh
  <2>2. Recorded(f, c) \/ family[f].status # "active"
    BY <1>1, <1>2, <1>6 DEF RefreshAnswer
  <2> QED BY <1>1, <1>6, <2>1, <2>2 DEF RefusedAsIs
<1> QED BY <1>3, <1>4, <1>5, <1>6

\* What serving a logout does: it is recorded, or was before.
Revoked(m) ==
  /\ LogoutAllowed(m.credential.family) /\ ~Recorded(m.credential.family, m.command)
  /\ FamilyGrown(m.credential.family,
           [command |-> m.command, type |-> "revoke",
            presented |-> family[m.credential.family].generation],
           "revoked", family[m.credential.family].generation)

LEMMA LogoutServed ==
  ASSUME SessionInv, NEW m \in wire, m.kind = "logout", ServeLogout(m)
  PROVE  \/ Revoked(m) /\ RowSound(family'[m.credential.family])
         \/ family' = family
<1>1. PICK f, c, g : f = m.credential.family /\ c = m.command /\ g = family[f].generation
  OBVIOUS
<1>2. f \in Families /\ c \in Nat
  BY <1>1 DEF SessionInv, SessionTyped, SessionMessage, MessageSound, GivenOut
<1>3. CASE LogoutAnswer(m) = "logged_out" /\ ~Recorded(f, c)
  <2>1. Apply(f, c, "revoke", "revoked", g)
    BY <1>1, <1>3 DEF ServeLogout
  <2>2. LogoutAllowed(f)
    BY <1>1, <1>3 DEF LogoutAnswer
  <2>3. MayTake(family[f], "revoke", "revoked", g)
    BY <1>1, <2>2 DEF MayTake, LogoutAllowed
  <2> QED BY <1>1, <1>2, <1>3, <2>1, <2>2, <2>3, ApplyGrows DEF Revoked
<1>4. CASE ~(LogoutAnswer(m) = "logged_out" /\ ~Recorded(f, c))
  BY <1>1, <1>4 DEF ServeLogout
<1> QED BY <1>3, <1>4

\* A login starts a family that nobody has had.
FamilyStarted(m) ==
  /\ NewFamily \in Families /\ family[NewFamily].status = "none"
  /\ DOMAIN family' = Families
  /\ \A h \in Families : h # NewFamily => family'[h] = family[h]
  /\ family'[NewFamily].status = "active" /\ family'[NewFamily].generation = 1
  /\ DOMAIN family'[NewFamily].log = {} /\ RowSound(family'[NewFamily])

LEMMA LoginServed ==
  ASSUME SessionInv, NEW m \in wire, ServeLogin(m), LoginAnswer(m) = "authenticated"
  PROVE  FamilyStarted(m)
<1>1. NewFamily \in Families /\ family[NewFamily].status = "none"
  BY NewFamilyIsNew DEF ServeLogin
<1>2. PICK f, row : f = NewFamily /\ row = [status |-> "active", generation |-> 1, log |-> <<>>]
  OBVIOUS
<1>3. DOMAIN family = Families /\ family' = [family EXCEPT ![f] = row]
  BY <1>2 DEF SessionInv, SessionTyped, ServeLogin
<1>4. DOMAIN family' = Families /\ family'[f] = row
      /\ \A h \in Families : h # f => family'[h] = family[h]
  BY ONLY <1>1, <1>2, <1>3
<1>5. RowSound(row) /\ DOMAIN row.log = {}
  BY <1>2, FreshRow
<1>6. row.status = "active" /\ row.generation = 1
  BY <1>2
<1> QED BY <1>1, <1>2, <1>4, <1>5, <1>6 DEF FamilyStarted

-----------------------------------------------------------------------------
(* What a step may do to the families.                                     *)

\* Nothing that happened is forgotten.
FamilyKept(f) ==
  family[f].status # "none" =>
    /\ family'[f].status # "none" /\ family[f].generation <= family'[f].generation
    /\ \A i \in DOMAIN family[f].log :
         i \in DOMAIN family'[f].log /\ family'[f].log[i] = family[f].log[i]

NothingForgotten ==
  /\ DOMAIN family' = Families /\ \A f \in Families : FamilyKept(f)
  /\ late \subseteq late' /\ leaving \subseteq leaving' /\ used \in Nat /\ used' \in Nat
  /\ used <= used' /\ (torn => torn')

LEMMA GenerationsCount ==
  ASSUME SessionInv, NEW f \in Families
  PROVE  family[f].generation \in Nat
BY DEF SessionInv, FamilySound, RowSound, FamilyRow

LEMMA GrownIsKept ==
  ASSUME SessionInv, NEW f \in Families, NEW e, NEW s, NEW g, FamilyGrown(f, e, s, g),
         s # "none", g \in Nat, family[f].generation <= g
  PROVE  DOMAIN family' = Families /\ \A h \in Families : FamilyKept(h)
<1>1. FamilyKept(f)
  BY DEF FamilyGrown, FamilyKept
<1>2. ASSUME NEW h \in Families, h # f PROVE FamilyKept(h)
  BY <1>2, GenerationsCount DEF FamilyGrown, FamilyKept
<1> QED BY <1>1, <1>2 DEF FamilyGrown

LEMMA StartedIsKept ==
  ASSUME SessionInv, NEW m, FamilyStarted(m)
  PROVE  DOMAIN family' = Families /\ \A h \in Families : FamilyKept(h)
<1>1. FamilyKept(NewFamily)
  BY DEF FamilyStarted, FamilyKept
<1>2. ASSUME NEW h \in Families, h # NewFamily PROVE FamilyKept(h)
  BY <1>2, GenerationsCount DEF FamilyStarted, FamilyKept
<1> QED BY <1>1, <1>2 DEF FamilyStarted

LEMMA SameIsKept ==
  ASSUME SessionInv, family' = family
  PROVE  DOMAIN family' = Families /\ \A h \in Families : FamilyKept(h)
BY GenerationsCount DEF SessionInv, SessionTyped, FamilyKept

LEMMA GivenOutStays ==
  ASSUME SessionInv, NothingForgotten, NEW c, GivenOut(c), family'[c.family].generation \in Nat
  PROVE  GivenOut(c)'
BY GenerationsCount DEF NothingForgotten, FamilyKept, GivenOut, Credentials

LEMMA RecordedStays ==
  ASSUME NothingForgotten, NEW f \in Families, NEW c, family[f].status # "none", Recorded(f, c)
  PROVE  Recorded(f, c)'
BY DEF NothingForgotten, FamilyKept, Recorded

LEMMA CommandsAreNumbers ==
  ASSUME SessionInv, NEW f \in Families
  PROVE  \A i \in DOMAIN family[f].log : family[f].log[i].command \in Nat
<1>1. PICK h : h = family[f].log
  OBVIOUS
<1>2. h \in Seq(AppliedCommand)
  BY <1>1 DEF SessionInv, FamilySound, RowSound, FamilyRow
<1>3. \A i \in DOMAIN h : h[i] \in AppliedCommand
  BY ONLY <1>2
<1>4. \A i \in DOMAIN h : h[i].command \in Nat
  BY ONLY <1>3 DEF AppliedCommand
<1> QED BY <1>1, <1>4

\* A family that took no command is as sound as it was.
LEMMA FamilyStays ==
  ASSUME SessionInv, NothingForgotten, NEW f \in Families, family'[f] = family[f]
  PROVE  FamilySound(f)'
<1>1. FamilySound(f) /\ RowSound(family[f])
  BY DEF SessionInv, FamilySound
<1>2. RowSound(family'[f])
  BY <1>1
<1>3. \A i \in DOMAIN family[f].log : family[f].log[i].command \in Nat
  BY CommandsAreNumbers
<1>4. \A i \in DOMAIN family'[f].log : family'[f].log[i].command <= used'
  BY <1>1, <1>3 DEF FamilySound, NothingForgotten
<1> QED BY <1>1, <1>2, <1>4 DEF FamilySound, NothingForgotten

\* Nor is one that took a command with a cause.
LEMMA FamilyGrows ==
  ASSUME SessionInv, NothingForgotten, NEW f \in Families, NEW e, NEW s, NEW g,
         FamilyGrown(f, e, s, g), RowSound(family'[f]), e.command \in Nat, e.command <= used,
         s = "revoked" => f \in leaving, s = "expired" => f \in late,
         s = "reuse_detected" => torn
  PROVE  FamilySound(f)'
<1>1. FamilySound(f) /\ RowSound(family[f])
  BY DEF SessionInv, FamilySound
<1>3. \A i \in DOMAIN family[f].log : family[f].log[i].command \in Nat
  BY CommandsAreNumbers
<1>4. \A i \in DOMAIN family'[f].log : family'[f].log[i].command <= used'
  <2>1. \A i \in DOMAIN family'[f].log : i \in DOMAIN family[f].log \/ i = Len(family[f].log) + 1
    BY DEF FamilyGrown
  <2>2. \A i \in DOMAIN family[f].log : family'[f].log[i].command = family[f].log[i].command
    BY DEF FamilyGrown
  <2>3. \A i \in DOMAIN family[f].log : family'[f].log[i].command \in Nat
                                        /\ family'[f].log[i].command <= used
    BY <1>1, <1>3, <2>2 DEF FamilySound
  <2>4. family'[f].log[Len(family[f].log) + 1].command = e.command
    BY DEF FamilyGrown
  <2>5. used \in Nat /\ used' \in Nat /\ used <= used'
    BY DEF NothingForgotten
  <2>6. ASSUME NEW i \in DOMAIN family'[f].log PROVE family'[f].log[i].command <= used'
    <3>1. family'[f].log[i].command \in Nat /\ family'[f].log[i].command <= used
      BY <2>1, <2>3, <2>4
    <3> QED BY ONLY <2>5, <3>1
  <2> QED BY <2>6
<1> QED BY <1>1, <1>4 DEF FamilySound, NothingForgotten, FamilyGrown

-----------------------------------------------------------------------------
(* The steps of the page.                                                  *)

LEMMA NobodysCredential ==
  NoCredential \in Credentials
BY SessionAssumption DEF NoCredential, Credentials

LEMMA FreshKeyRevokes ==
  ASSUME SessionInv
  PROVE  Revokes(used + 1)
<1>1. ASSUME NEW f \in Families, NEW i \in DOMAIN family[f].log
      PROVE  family[f].log[i].command # used + 1
  <2>1. family[f].log[i].command \in Nat /\ family[f].log[i].command <= used
    BY CommandsAreNumbers DEF SessionInv, FamilySound
  <2>2. used \in Nat
    BY DEF SessionInv, SessionTyped
  <2> QED BY ONLY <2>1, <2>2
<1> QED BY <1>1 DEF Revokes

LEMMA HeldIsFresh ==
  ASSUME SessionInv, page \in {"store", "check", "in", "logout"}
  PROVE  GivenOut(held) /\ ~Consumed(held) /\ held # NoCredential
<1>1. GivenOut(held) /\ held.generation = family[held.family].generation
  BY DEF SessionInv, Holding
<1>2. held.generation \in Nat /\ 1 <= held.generation
  BY <1>1 DEF GivenOut, Credentials
<1> QED BY <1>1, <1>2 DEF Consumed, NoCredential

LEMMA OpenKeeps ==
  ASSUME SessionInv, Open
  PROVE  SessionInv'
<1> USE DEF NoCredential
<1>1. NothingForgotten
  BY SameIsKept DEF SessionInv, SessionTyped, NothingForgotten, Open, Begin, Request, pageVars
<1>2. SessionTyped'
  BY NobodysCredential DEF SessionInv, SessionTyped, Holding, GivenOut, SessionMessage,
                           Waiting, Pages, Open, Begin, Request, pageVars
<1>3. (\A f \in Families : FamilySound(f))'
  BY <1>1, FamilyStays DEF Open, Begin, Request, pageVars
<1>4. (\A m \in wire : MessageSound(m))'
  BY DEF SessionInv, SessionTyped, SessionMessage, MessageSound, GivenOut, Revokes, Holding,
         PageSound, Waiting, Open, Begin, Request, pageVars
<1>5. OneRequestPerKey'
  BY DEF SessionInv, SessionTyped, SessionMessage, OneRequestPerKey, MessageSound, Waiting, Open,
         Begin, Request, pageVars
<1>6. Holding'
  BY DEF SessionInv, Holding, GivenOut, Waiting, Open, Begin, Request, pageVars
<1>7. PageSound'
  BY DEF SessionInv, SessionTyped, PageSound, Revokes, Holding, GivenOut, FamilySound, Open,
         Begin, Request, pageVars
<1>8. Untorn'
  BY DEF SessionInv, SessionTyped, Untorn, RefreshIsAnswerable, Recorded, Consumed, Holding,
         PageSound, MessageSound, Open, Begin, Request, pageVars
<1> QED BY <1>2, <1>3, <1>4, <1>5, <1>6, <1>7, <1>8 DEF SessionInv

LEMMA CloseKeeps ==
  ASSUME SessionInv, Close
  PROVE  SessionInv'
<1> USE DEF NoCredential
<1>1. NothingForgotten
  BY SameIsKept DEF SessionInv, SessionTyped, NothingForgotten, Close
<1>2. SessionTyped'
  BY NobodysCredential DEF SessionInv, SessionTyped, Holding, GivenOut, SessionMessage,
                           Waiting, Pages, Close
<1>3. (\A f \in Families : FamilySound(f))'
  BY <1>1, FamilyStays DEF Close
<1>4. (\A m \in wire : MessageSound(m))'
  BY DEF SessionInv, SessionTyped, SessionMessage, MessageSound, GivenOut, Revokes, Holding,
         PageSound, Waiting, Close
<1>5. OneRequestPerKey'
  BY DEF SessionInv, SessionTyped, SessionMessage, OneRequestPerKey, MessageSound, Waiting, Close
<1>6. Holding'
  BY DEF SessionInv, Holding, GivenOut, Waiting, Close
<1>7. PageSound'
  BY DEF SessionInv, SessionTyped, PageSound, Revokes, Holding, GivenOut, FamilySound, Close
<1>8. Untorn'
  BY DEF SessionInv, SessionTyped, Untorn, RefreshIsAnswerable, Recorded, Consumed, Holding,
         PageSound, MessageSound, Close
<1> QED BY <1>2, <1>3, <1>4, <1>5, <1>6, <1>7, <1>8 DEF SessionInv

LEMMA RetryKeeps ==
  ASSUME SessionInv, Retry
  PROVE  SessionInv'
<1> USE DEF NoCredential
<1>1. NothingForgotten
  BY SameIsKept DEF SessionInv, SessionTyped, NothingForgotten, Retry, RetryKey, MayRetry,
                    Request, pageVars
<1>2. SessionTyped'
  BY DEF SessionInv, SessionTyped, Holding, GivenOut, SessionMessage, Waiting, Pages, Retry,
         RetryKey, MayRetry, Request, pageVars
<1>3. (\A f \in Families : FamilySound(f))'
  BY <1>1, FamilyStays DEF Retry, RetryKey, MayRetry, Request, pageVars
<1>4. (\A m \in wire : MessageSound(m))'
  BY DEF SessionInv, SessionTyped, SessionMessage, MessageSound, GivenOut, Revokes, Holding,
         PageSound, Waiting, Retry, RetryKey, MayRetry, Request, pageVars
<1>5. OneRequestPerKey'
  BY DEF SessionInv, SessionTyped, SessionMessage, OneRequestPerKey, MessageSound, Waiting, Retry,
         RetryKey, MayRetry, Request, pageVars
<1>6. Holding'
  BY DEF SessionInv, Holding, GivenOut, Waiting, Retry, RetryKey, MayRetry, Request, pageVars
<1>7. PageSound'
  BY DEF SessionInv, SessionTyped, PageSound, Revokes, Holding, GivenOut, FamilySound, Retry,
         RetryKey, MayRetry, Request, pageVars
<1>8. Untorn'
  BY DEF SessionInv, SessionTyped, Untorn, RefreshIsAnswerable, Recorded, Consumed, Holding,
         PageSound, MessageSound, Retry, RetryKey, MayRetry, Request, pageVars
<1> QED BY <1>2, <1>3, <1>4, <1>5, <1>6, <1>7, <1>8 DEF SessionInv

LEMMA GiveUpKeeps ==
  ASSUME SessionInv, GiveUp
  PROVE  SessionInv'
<1> USE DEF NoCredential
<1>1. NothingForgotten
  BY SameIsKept DEF SessionInv, SessionTyped, NothingForgotten, GiveUp, MayRetry
<1>2. SessionTyped'
  BY DEF SessionInv, SessionTyped, Holding, GivenOut, SessionMessage, Waiting, Pages, GiveUp,
         MayRetry
<1>3. (\A f \in Families : FamilySound(f))'
  BY <1>1, FamilyStays DEF GiveUp, MayRetry
<1>4. (\A m \in wire : MessageSound(m))'
  BY DEF SessionInv, SessionTyped, SessionMessage, MessageSound, GivenOut, Revokes, Holding,
         PageSound, Waiting, GiveUp, MayRetry
<1>5. OneRequestPerKey'
  BY DEF SessionInv, SessionTyped, SessionMessage, OneRequestPerKey, MessageSound, Waiting, GiveUp,
         MayRetry
<1>6. Holding'
  BY DEF SessionInv, Holding, GivenOut, Waiting, GiveUp, MayRetry
<1>7. PageSound'
  BY DEF SessionInv, SessionTyped, PageSound, Revokes, Holding, GivenOut, FamilySound,
         GiveUp, MayRetry
<1>8. Untorn'
  <2>1. (page # "refresh" /\ torn' = torn) \/ torn'
    BY Zenon DEF SessionInv, SessionTyped, GiveUp
  <2>2. page' \in {"in", "error"} /\ family' = family /\ wire' = wire /\ stored' = stored
        /\ page \in Waiting
    BY DEF GiveUp
  <2> QED BY <2>1, <2>2 DEF SessionInv, Untorn, RefreshIsAnswerable, Recorded, Consumed, Waiting
<1> QED BY <1>2, <1>3, <1>4, <1>5, <1>6, <1>7, <1>8 DEF SessionInv

LEMMA StoreKeeps ==
  ASSUME SessionInv, Store
  PROVE  SessionInv'
<1> USE DEF NoCredential
<1>1. NothingForgotten
  BY SameIsKept DEF SessionInv, SessionTyped, NothingForgotten, Store, Removed, Written
<1>2. SessionTyped'
  BY NobodysCredential DEF SessionInv, SessionTyped, Holding, GivenOut, SessionMessage,
                           Waiting, Pages, Store, Removed, Written
<1>3. (\A f \in Families : FamilySound(f))'
  BY <1>1, FamilyStays DEF Store, Removed, Written
<1>4. (\A m \in wire : MessageSound(m))'
  BY DEF SessionInv, SessionTyped, SessionMessage, MessageSound, GivenOut, Revokes, Holding,
         PageSound, Waiting, Store, Removed, Written
<1>5. OneRequestPerKey'
  BY DEF SessionInv, SessionTyped, SessionMessage, OneRequestPerKey, MessageSound, Waiting, Store,
         Removed, Written
<1>6. Holding'
  BY DEF SessionInv, Holding, GivenOut, Waiting, Store, Removed, Written
<1>7. PageSound'
  BY DEF SessionInv, SessionTyped, PageSound, Revokes, Holding, GivenOut, FamilySound, Store,
         Removed, Written
<1>8. Untorn'
  <2>1. page' = "check" /\ page = "store" /\ family' = family /\ wire' = wire
    BY DEF Store
  <2>2. \/ stored' = held /\ torn' = torn
        \/ stored' = NoCredential /\ torn' = torn
        \/ torn'
    BY DEF Store, Removed, Written
  <2>3. ~Consumed(held)
    BY <2>1, HeldIsFresh
  <2> QED BY <2>1, <2>2, <2>3 DEF SessionInv, SessionTyped, Untorn, RefreshIsAnswerable, Recorded,
                                  Consumed
<1> QED BY <1>2, <1>3, <1>4, <1>5, <1>6, <1>7, <1>8 DEF SessionInv

LEMMA CheckKeeps ==
  ASSUME SessionInv, Check
  PROVE  SessionInv'
<1> USE DEF NoCredential
<1>1. NothingForgotten
  BY SameIsKept DEF SessionInv, SessionTyped, NothingForgotten, Check, Begin, Request, Removed
<1>2. SessionTyped'
  <2>1. CASE /\ wire' = wire /\ via' = via /\ held' = held /\ stored' = stored
             /\ requestKey' = requestKey /\ try' = try /\ used' = used /\ torn' = torn
             /\ page' \in {"in", "error"}
    BY <2>1 DEF SessionInv, SessionTyped, Pages, Check
  <2>2. CASE held' = NoCredential /\ Removed
             /\ page' = "error" /\ wire' = wire /\ via' = via
             /\ requestKey' = requestKey /\ try' = try /\ used' = used
    BY <2>2, NobodysCredential DEF SessionInv, SessionTyped, Pages, Check, Removed
  <2>3. CASE held' = NoCredential /\ Removed /\ Begin("login", NoCredential) /\ via' = "login"
    <3>1. Request("login", NoCredential, used + 1, 1) \in SessionMessage
      BY NobodysCredential DEF SessionInv, SessionTyped, SessionMessage, Waiting, Request
    <3>2. wire' \subseteq SessionMessage
      BY <2>3, <3>1 DEF SessionInv, SessionTyped, Begin
    <3>3. stored' \in Credentials /\ held' \in Credentials /\ torn' \in BOOLEAN
      BY <2>3, NobodysCredential DEF SessionInv, SessionTyped, Removed
    <3>4. family' = family /\ late' = late /\ spent' = spent /\ leaving' = leaving
      BY DEF Check
    <3> QED BY <2>3, <3>2, <3>3, <3>4 DEF SessionInv, SessionTyped, Pages, Waiting, Begin
  <2>4. CASE \/ Valid(held) /\ page' = "in"
                /\ UNCHANGED <<wire, via, held, stored, requestKey, try, used, torn>>
             \/ page' = "error"
                /\ UNCHANGED <<wire, via, held, stored, requestKey, try, used, torn>>
    BY <2>1, <2>4
  <2>5. CASE /\ held' = NoCredential /\ Removed
             /\ IF via = "refresh"
                THEN Begin("login", NoCredential) /\ via' = "login"
                ELSE page' = "error" /\ UNCHANGED <<wire, via, requestKey, try, used>>
    BY <2>2, <2>3, <2>5
  <2> QED BY <2>4, <2>5, Zenon DEF Check
<1>3. (\A f \in Families : FamilySound(f))'
  BY <1>1, FamilyStays DEF Check, Begin, Request, Removed
<1>4. (\A m \in wire : MessageSound(m))'
  BY DEF SessionInv, SessionTyped, SessionMessage, MessageSound, GivenOut, Revokes, Holding,
         PageSound, Waiting, Check, Begin, Request, Removed
<1>5. OneRequestPerKey'
  BY DEF SessionInv, SessionTyped, SessionMessage, OneRequestPerKey, MessageSound, Waiting, Check,
         Begin, Request, Removed
<1>6. Holding'
  BY DEF SessionInv, Holding, GivenOut, Waiting, Check, Begin, Request, Removed
<1>7. PageSound'
  BY DEF SessionInv, SessionTyped, PageSound, Revokes, Holding, GivenOut, FamilySound, Check,
         Begin, Request, Removed
<1>8. Untorn'
  <2>1. page' \in {"in", "error", "login"} /\ page = "check" /\ family' = family
    BY DEF Check, Begin
  <2>2. \/ stored' = stored /\ torn' = torn
        \/ stored' = NoCredential /\ torn' = torn
        \/ torn'
    BY DEF Check, Removed
  <2>3. \A m \in wire' : m \in wire \/ m.kind # "refresh"
    BY DEF Check, Begin, Request
  <2> QED BY <2>1, <2>2, <2>3 DEF SessionInv, SessionTyped, Untorn, RefreshIsAnswerable, Recorded,
                                  Consumed
<1> QED BY <1>2, <1>3, <1>4, <1>5, <1>6, <1>7, <1>8 DEF SessionInv

LEMMA LogoutKeeps ==
  ASSUME SessionInv, Logout
  PROVE  SessionInv'
<1> USE DEF NoCredential
<1>1. NothingForgotten
  BY SameIsKept DEF SessionInv, SessionTyped, NothingForgotten, Logout, Begin, Request
<1>2. SessionTyped'
  BY DEF SessionInv, SessionTyped, Holding, GivenOut, SessionMessage, Waiting, Pages, Logout,
         Begin, Request
<1>3. (\A f \in Families : FamilySound(f))'
  BY <1>1, FamilyStays DEF Logout, Begin, Request
<1>4. (\A m \in wire : MessageSound(m))'
  <2>0. PICK c : c = used + 1
    OBVIOUS
  <2>1. Revokes(c) /\ family' = family /\ used' = c /\ requestKey' = c /\ page' = "logout"
        /\ held' = held /\ held.family \in leaving' /\ c \in Nat
    BY <2>0, FreshKeyRevokes DEF SessionInv, SessionTyped, Logout, Begin
  <2>2. ASSUME NEW m \in wire, m \in wire' PROVE MessageSound(m)'
    BY <2>2 DEF SessionInv, SessionTyped, SessionMessage, MessageSound, GivenOut, Revokes,
                Waiting,
                Logout, Begin
  <2>3. ASSUME NEW m, m = Request("logout", held, c, 1) PROVE MessageSound(m)'
    <3>1. m.kind = "logout" /\ m.credential = held /\ m.command = c
      BY <2>3 DEF Request
    <3>2. GivenOut(held)'
      <4>1. GivenOut(held)
        BY HeldIsFresh DEF Logout
      <4> QED BY <2>1, <4>1 DEF GivenOut
    <3>3. Revokes(c)'
      BY <2>1 DEF Revokes
    <3> QED BY <2>1, <3>1, <3>2, <3>3 DEF MessageSound, GivenOut
  <2> QED BY <2>0, <2>2, <2>3 DEF Logout, Begin
<1>5. OneRequestPerKey'
  BY DEF SessionInv, SessionTyped, SessionMessage, OneRequestPerKey, MessageSound, Waiting, Logout,
         Begin, Request
<1>6. Holding'
  BY DEF SessionInv, Holding, GivenOut, Waiting, Logout, Begin, Request
<1>7. PageSound'
  BY DEF SessionInv, SessionTyped, PageSound, Revokes, Holding, GivenOut, FamilySound,
         Logout, Begin, Request
<1>8. Untorn'
  BY DEF SessionInv, SessionTyped, Untorn, RefreshIsAnswerable, Recorded, Consumed, Holding,
         PageSound, MessageSound, Logout, Begin, Request
<1> QED BY <1>2, <1>3, <1>4, <1>5, <1>6, <1>7, <1>8 DEF SessionInv

LEMMA RunOutKeeps ==
  ASSUME SessionInv, RunOut
  PROVE  SessionInv'
<1> USE DEF NoCredential
<1>1. NothingForgotten
  BY SameIsKept DEF SessionInv, SessionTyped, NothingForgotten, RunOut, Removed
<1>2. SessionTyped'
  BY NobodysCredential DEF SessionInv, SessionTyped, Holding, GivenOut, SessionMessage,
                           Waiting, Pages, RunOut, Removed
<1>3. (\A f \in Families : FamilySound(f))'
  BY <1>1, FamilyStays DEF RunOut, Removed
<1>4. (\A m \in wire : MessageSound(m))'
  BY DEF SessionInv, SessionTyped, SessionMessage, MessageSound, GivenOut, Revokes, Holding,
         PageSound, Waiting, RunOut, Removed
<1>5. OneRequestPerKey'
  BY DEF SessionInv, SessionTyped, SessionMessage, OneRequestPerKey, MessageSound, Waiting, RunOut,
         Removed
<1>6. Holding'
  BY DEF SessionInv, Holding, GivenOut, Waiting, RunOut, Removed
<1>7. PageSound'
  BY DEF SessionInv, SessionTyped, PageSound, Revokes, Holding, GivenOut, FamilySound,
         RunOut, Removed
<1>8. Untorn'
  BY DEF SessionInv, SessionTyped, Untorn, RefreshIsAnswerable, Recorded, Consumed, Holding,
         PageSound, MessageSound, RunOut, Removed
<1> QED BY <1>2, <1>3, <1>4, <1>5, <1>6, <1>7, <1>8 DEF SessionInv

LEMMA ExpireKeeps ==
  ASSUME SessionInv, NEW g \in Families, Expire(g)
  PROVE  SessionInv'
<1> USE DEF NoCredential
<1>1. NothingForgotten
  BY SameIsKept DEF SessionInv, SessionTyped, NothingForgotten, Expire, pageVars
<1>2. SessionTyped'
  BY DEF SessionInv, SessionTyped, Holding, GivenOut, SessionMessage, Waiting, Pages, Expire,
         pageVars
<1>3. (\A f \in Families : FamilySound(f))'
  BY <1>1, FamilyStays DEF Expire, pageVars
<1>4. (\A m \in wire : MessageSound(m))'
  BY DEF SessionInv, SessionTyped, SessionMessage, MessageSound, GivenOut, Revokes, Holding,
         PageSound, Waiting, Expire, pageVars
<1>5. OneRequestPerKey'
  BY DEF SessionInv, SessionTyped, SessionMessage, OneRequestPerKey, MessageSound, Waiting, Expire,
         pageVars
<1>6. Holding'
  BY DEF SessionInv, Holding, GivenOut, Waiting, Expire, pageVars
<1>7. PageSound'
  BY DEF SessionInv, SessionTyped, PageSound, Revokes, Holding, GivenOut, FamilySound,
         Expire, pageVars
<1>8. Untorn'
  BY DEF SessionInv, SessionTyped, Untorn, RefreshIsAnswerable, Recorded, Consumed, Holding,
         PageSound, MessageSound, Expire, pageVars
<1> QED BY <1>2, <1>3, <1>4, <1>5, <1>6, <1>7, <1>8 DEF SessionInv

-----------------------------------------------------------------------------
(* The steps of the server.                                                *)

\* A refresh changed the family of its credential, or none.
RefreshedFamily(m) ==
  /\ Rotated(m) \/ EndedByTime(m) \/ EndedAsReused(m) \/ RefusedAsIs(m)
  /\ GivenOut(m.credential) /\ m.command \in Nat /\ m.command <= used
  /\ late' = late /\ spent' = spent /\ leaving' = leaving

LEMMA RefreshKeepsFamilies ==
  ASSUME SessionInv, NEW m \in wire, HandleRefresh(m)
  PROVE  /\ RefreshedFamily(m) /\ NothingForgotten
         /\ (\A f \in Families : FamilySound(f))'
<1>1. m.kind = "refresh" /\ ServeRefresh(m)
  BY DEF HandleRefresh
<1>2. GivenOut(m.credential) /\ m.command \in Nat /\ m.command <= used
  BY <1>1 DEF SessionInv, SessionTyped, SessionMessage, MessageSound
<1>3. /\ late' = late /\ spent' = spent /\ leaving' = leaving
      /\ used \in Nat /\ used' \in Nat /\ used <= used' /\ (torn => torn')
  BY DEF HandleRefresh, HearRefresh, Removed, Unheard, pageVars, SessionInv, SessionTyped
<1>4. RefreshedFamily(m)
  BY <1>1, <1>2, <1>3, RefreshServed DEF RefreshedFamily
<1>5. PICK f, g : f = m.credential.family /\ g = family[f].generation /\ f \in Families /\ g \in Nat
  BY <1>2, GenerationsCount DEF GivenOut
<1>6. DOMAIN family' = Families /\ \A h \in Families : FamilyKept(h)
  BY <1>4, <1>5, GrownIsKept, SameIsKept
     DEF RefreshedFamily, Rotated, EndedByTime, EndedAsReused, RefusedAsIs
<1>7. NothingForgotten
  BY <1>3, <1>6 DEF NothingForgotten
<1>8. \A h \in Families : h # f => FamilySound(h)'
  BY <1>4, <1>5, <1>7, FamilyStays
     DEF RefreshedFamily, Rotated, EndedByTime, EndedAsReused, RefusedAsIs, FamilyGrown
<1>9. FamilySound(f)'
  <2>1. CASE family' = family
    BY <1>5, <1>7, <2>1, FamilyStays
  <2>2. CASE family' # family
    <3>1. RowSound(family'[f])
      BY <1>1, <1>5, <2>2, RefreshServed
    <3>2. CASE Rotated(m)
      BY <1>2, <1>5, <1>7, <3>1, <3>2, FamilyGrows DEF Rotated
    <3>3. CASE EndedByTime(m)
      BY <1>2, <1>5, <1>7, <3>1, <3>3, FamilyGrows DEF EndedByTime
    <3>4. CASE EndedAsReused(m)
      <4>1. torn
        <5>1. SUFFICES ASSUME ~torn PROVE FALSE
          OBVIOUS
        <5>2. RefreshIsAnswerable(m)
          BY <1>1, <5>1 DEF SessionInv, Untorn
        <5> QED BY <3>4, <5>2 DEF EndedAsReused, RefreshIsAnswerable
      <4> QED BY <1>2, <1>5, <1>7, <3>1, <3>4, <4>1, FamilyGrows DEF EndedAsReused
    <3> QED BY <1>4, <2>2, <3>2, <3>3, <3>4 DEF RefreshedFamily, RefusedAsIs
  <2> QED BY <2>1, <2>2
<1> QED BY <1>4, <1>7, <1>8, <1>9

\* The page does not hear the answer, takes the new credential, or starts over
\* with a login.
NotHeard(m) == wire' = wire \ {m} /\ UNCHANGED pageVars
HeardRefreshed(m) ==
  /\ Awaited(m) /\ RefreshAnswer(m) = "refreshed"
  /\ page' = "store" /\ wire' = wire \ {m}
  /\ held' = [family |-> m.credential.family, generation |-> m.credential.generation + 1]
  /\ via' = via /\ stored' = stored /\ requestKey' = requestKey /\ try' = try /\ used' = used
  /\ torn' = torn /\ leaving' = leaving
HeardRefused(m) ==
  /\ Awaited(m) /\ RefreshAnswer(m) # "refreshed"
  /\ page' = "login" /\ via' = "login" /\ used' = used + 1 /\ requestKey' = used + 1 /\ try' = 1
  /\ wire' = (wire \ {m}) \cup {Request("login", NoCredential, used + 1, 1)}
  /\ held' = held /\ leaving' = leaving /\ Removed

LEMMA RefreshIsHeard ==
  ASSUME NEW m \in wire, HandleRefresh(m)
  PROVE  NotHeard(m) \/ HeardRefreshed(m) \/ HeardRefused(m)
BY DEF HandleRefresh, HearRefresh, Unheard, NotHeard, HeardRefreshed, HeardRefused

LEMMA RefreshKeepsTypes ==
  ASSUME SessionInv, NEW m \in wire, HandleRefresh(m)
  PROVE  SessionTyped'
<1>1. DOMAIN family' = Families /\ late' = late /\ spent' = spent
  BY RefreshKeepsFamilies DEF NothingForgotten, RefreshedFamily
<1>2. CASE NotHeard(m)
  BY <1>1, <1>2 DEF SessionInv, SessionTyped, NotHeard, pageVars
<1>3. CASE HeardRefreshed(m)
  <2>1. held' \in Credentials
    BY <1>3, RefreshKeepsFamilies DEF RefreshedFamily, GivenOut, Credentials, HeardRefreshed
  <2> QED BY <1>1, <1>3, <2>1 DEF SessionInv, SessionTyped, HeardRefreshed, Pages
<1>4. CASE HeardRefused(m)
  <2>1. Request("login", NoCredential, used + 1, 1) \in SessionMessage
    BY NobodysCredential DEF SessionInv, SessionTyped, SessionMessage, Waiting, Request
  <2>2. wire' \subseteq SessionMessage
    BY <1>4, <2>1 DEF SessionInv, SessionTyped, HeardRefused
  <2>3. stored' \in Credentials /\ held' \in Credentials /\ torn' \in BOOLEAN
    BY <1>4, NobodysCredential DEF SessionInv, SessionTyped, HeardRefused, Removed
  <2> QED BY <1>1, <1>4, <2>2, <2>3 DEF SessionInv, SessionTyped, Pages, Waiting, HeardRefused
<1> QED BY <1>2, <1>3, <1>4, RefreshIsHeard

\* What a logout records stays a logout's.
LEMMA RevokesStays ==
  ASSUME NEW f \in Families, NEW e, NEW s, NEW g, FamilyGrown(f, e, s, g),
         NEW c, Revokes(c), c = e.command => e.type = "revoke"
  PROVE  Revokes(c)'
<1>1. \A i \in DOMAIN family'[f].log : i \in DOMAIN family[f].log \/ i = Len(family[f].log) + 1
  BY DEF FamilyGrown
<1>2. ASSUME NEW h \in Families, NEW i \in DOMAIN family'[h].log, family'[h].log[i].command = c
      PROVE  family'[h].log[i].type = "revoke"
  <2>1. CASE family'[h].log[i] = e
    BY <1>2, <2>1
  <2>2. CASE i \in DOMAIN family[h].log /\ family'[h].log[i] = family[h].log[i]
    BY <1>2, <2>2 DEF Revokes
  <2> QED BY <1>1, <2>1, <2>2 DEF FamilyGrown
<1> QED BY <1>2 DEF Revokes

\* A command that a family has taken is recorded.
LEMMA GrownIsRecorded ==
  ASSUME NEW f \in Families, NEW e, NEW s, NEW g, FamilyGrown(f, e, s, g)
  PROVE  Recorded(f, e.command)'
<1>1. Len(family[f].log) + 1 \in DOMAIN family'[f].log
      /\ family'[f].log[Len(family[f].log) + 1].command = e.command
  BY DEF FamilyGrown
<1> QED BY <1>1 DEF Recorded

LEMMA RefreshKeepsMessages ==
  ASSUME SessionInv, NEW m \in wire, HandleRefresh(m)
  PROVE  (\A n \in wire : MessageSound(n))'
<1>1. /\ RefreshedFamily(m) /\ NothingForgotten /\ m.kind = "refresh"
      /\ m.credential.family \in Families
      /\ used \in Nat /\ used' \in Nat /\ used <= used' /\ leaving' = leaving
  BY RefreshKeepsFamilies DEF HandleRefresh, RefreshedFamily, GivenOut, NothingForgotten
<1>2. ASSUME NEW c, GivenOut(c) PROVE GivenOut(c)'
  <2>1. family'[c.family].generation \in Nat
    BY <1>2, RefreshKeepsFamilies DEF GivenOut, FamilySound, RowSound, FamilyRow
  <2> QED BY <1>1, <1>2, <2>1, GivenOutStays
<1>3. ASSUME NEW n \in wire, n.kind = "logout" PROVE Revokes(n.command)'
  <2>1. Revokes(n.command) /\ n.command # m.command
    BY <1>1, <1>3 DEF SessionInv, MessageSound, OneRequestPerKey
  <2>2. CASE family' = family
    BY <2>1, <2>2 DEF Revokes
  <2>3. CASE family' # family
    BY <1>1, <2>1, <2>3, RevokesStays
       DEF RefreshedFamily, Rotated, EndedByTime, EndedAsReused, RefusedAsIs
  <2> QED BY <2>2, <2>3
<1>4. ASSUME NEW n \in wire,
             n.command = requestKey' /\ page' \in Waiting =>
               requestKey' = requestKey /\ page' = page /\ stored' = stored /\ held' = held
      PROVE  MessageSound(n)'
  <2>1. MessageSound(n) /\ n.command \in Nat
    BY DEF SessionInv, SessionTyped, SessionMessage
  <2>2. n.command <= used'
    BY <1>1, <2>1 DEF MessageSound
  <2>3. n.kind # "login" => GivenOut(n.credential)'
    BY <1>2, <2>1 DEF MessageSound
  <2>4. n.kind = "logout" => n.credential.family \in leaving' /\ Revokes(n.command)'
    BY <1>1, <1>3, <2>1 DEF MessageSound
  <2> QED BY <1>4, <2>1, <2>2, <2>3, <2>4 DEF MessageSound
<1>5. ASSUME NEW n \in wire' PROVE MessageSound(n)'
  <2>1. CASE NotHeard(m)
    BY <1>4, <2>1 DEF NotHeard, pageVars
  <2>2. CASE HeardRefreshed(m)
    BY <1>4, <2>2 DEF HeardRefreshed, Waiting
  <2>3. CASE HeardRefused(m)
    <3>1. CASE n \in wire
      <4>1. n.command # requestKey'
        BY <2>3, <3>1 DEF SessionInv, SessionTyped, SessionMessage, MessageSound, HeardRefused
      <4> QED BY <1>4, <3>1, <4>1
    <3>2. CASE n = Request("login", NoCredential, used + 1, 1)
      <4>1. n.kind = "login" /\ n.command = used + 1
        BY <3>2 DEF Request
      <4> QED BY <1>1, <2>3, <4>1 DEF MessageSound, HeardRefused, Waiting
    <3> QED BY <2>3, <3>1, <3>2 DEF HeardRefused
  <2> QED BY <2>1, <2>2, <2>3, RefreshIsHeard
<1> QED BY <1>5

LEMMA RefreshKeepsKeys ==
  ASSUME SessionInv, NEW m \in wire, HandleRefresh(m)
  PROVE  OneRequestPerKey'
<1>1. \A n \in wire' : n \in wire \/ n = Request("login", NoCredential, used + 1, 1)
  BY RefreshIsHeard DEF NotHeard, HeardRefreshed, HeardRefused
<1>2. \A n \in wire : n.command # used + 1
  BY DEF SessionInv, SessionTyped, SessionMessage, MessageSound
<1> QED BY <1>1, <1>2 DEF SessionInv, OneRequestPerKey, Request

LEMMA RefreshKeepsHeld ==
  ASSUME SessionInv, NEW m \in wire, HandleRefresh(m)
  PROVE  Holding' /\ PageSound'
<1>1. /\ RefreshedFamily(m) /\ NothingForgotten /\ m.kind = "refresh"
      /\ m.credential.family \in Families
      /\ leaving' = leaving
  BY RefreshKeepsFamilies DEF HandleRefresh, RefreshedFamily, GivenOut
<1>2. ASSUME NEW c, GivenOut(c) PROVE GivenOut(c)'
  <2>1. family'[c.family].generation \in Nat
    BY <1>2, RefreshKeepsFamilies DEF GivenOut, FamilySound, RowSound, FamilyRow
  <2> QED BY <1>1, <1>2, <2>1, GivenOutStays
<1>3. \A n \in wire' : n.kind = "refresh" => n \in wire
  BY RefreshIsHeard DEF NotHeard, HeardRefreshed, HeardRefused, Request
<1>4. Holding'
  <2>1. CASE NotHeard(m)
    <3>1. SUFFICES ASSUME page \in {"store", "check", "in", "logout"}
                   PROVE  /\ GivenOut(held)' /\ held.generation = family'[held.family].generation
                          /\ \A n \in wire' :
                               n.kind = "refresh" /\ n.credential.family = held.family =>
                                 n.credential.generation < held.generation
      BY <2>1 DEF Holding, NotHeard, pageVars
    <3>2. Holding /\ GivenOut(held) /\ held.generation = family[held.family].generation
      BY <3>1 DEF SessionInv, Holding
    <3>3. GivenOut(held)'
      BY <1>2, <2>1, <3>2 DEF NotHeard, pageVars, GivenOut
    <3>4. ~Rotated(m) \/ m.credential.family # held.family
      BY <1>1, <3>1, <3>2 DEF Holding, Rotated, GivenOut, Credentials
    <3>5. family'[held.family].generation = family[held.family].generation
      BY <1>1, <3>2, <3>4 DEF RefreshedFamily, Rotated, EndedByTime, EndedAsReused, RefusedAsIs,
                              FamilyGrown, GivenOut
    <3> QED BY <1>3, <3>1, <3>2, <3>3, <3>5 DEF Holding
  <2>2. CASE HeardRefreshed(m)
    <3>1. Rotated(m)
      BY <1>1, <2>2 DEF RefreshedFamily, EndedByTime, EndedAsReused, RefusedAsIs, HeardRefreshed
    <3>2. PICK f, g : f = m.credential.family /\ g = m.credential.generation
                      /\ f \in Families /\ g \in Nat /\ 1 <= g /\ f \in 0..MaxFamilies
      BY <1>1 DEF RefreshedFamily, GivenOut, Credentials
    <3>3. held' = [family |-> f, generation |-> g + 1] /\ family[f].generation = g
          /\ family'[f].generation = g + 1 /\ family'[f].status = "active"
      BY <2>2, <3>1, <3>2 DEF HeardRefreshed, Rotated, FamilyGrown
    <3>4. held'.family = f /\ held'.generation = g + 1 /\ held' \in Credentials
      BY <3>2, <3>3 DEF Credentials
    <3>5. GivenOut(held)'
      BY <3>2, <3>3, <3>4 DEF GivenOut
    <3>6. \A n \in wire' : n.kind = "refresh" /\ n.credential.family = f =>
                              n.credential.generation <= g
      BY <1>3, <3>2, <3>3 DEF SessionInv, MessageSound, GivenOut
    <3>7. \A n \in wire' : n.kind = "refresh" => n.credential.generation \in Nat
      BY <1>3 DEF SessionInv, MessageSound, GivenOut, Credentials
    <3> QED BY <3>2, <3>3, <3>4, <3>5, <3>6, <3>7 DEF Holding
  <2>3. CASE HeardRefused(m)
    BY <2>3 DEF Holding, HeardRefused
  <2> QED BY <2>1, <2>2, <2>3, RefreshIsHeard
<1>5. stored' # NoCredential => GivenOut(stored)'
  <2>1. stored' = stored \/ stored' = NoCredential
    BY RefreshIsHeard DEF NotHeard, HeardRefreshed, HeardRefused, Removed, pageVars
  <2> QED BY <1>2, <2>1 DEF SessionInv, PageSound, GivenOut
<1>6. page' = "logout" => held'.family \in leaving' /\ Revokes(requestKey)'
  <2>1. SUFFICES ASSUME page' = "logout" PROVE held'.family \in leaving' /\ Revokes(requestKey)'
    OBVIOUS
  <2>2. NotHeard(m)
    BY <2>1, RefreshIsHeard DEF HeardRefreshed, HeardRefused
  <2>3. /\ page = "logout" /\ held' = held /\ requestKey' = requestKey
        /\ held.family \in leaving /\ Revokes(requestKey) /\ m.command # requestKey
    BY <1>1, <2>1, <2>2 DEF SessionInv, MessageSound, PageSound, NotHeard, pageVars, Waiting
  <2>4. PICK c : c = requestKey /\ Revokes(c) /\ c # m.command
    BY <2>3
  <2>5. Revokes(c)'
    <3>1. CASE family' = family
      BY <2>4, <3>1 DEF Revokes
    <3>2. CASE family' # family
      BY <1>1, <2>4, <3>2, RevokesStays
         DEF RefreshedFamily, Rotated, EndedByTime, EndedAsReused, RefusedAsIs
    <3> QED BY <3>1, <3>2
  <2> QED BY <1>1, <2>3, <2>4, <2>5 DEF Revokes
<1>7. /\ page' = "refresh" => stored' # NoCredential /\ via' = "refresh"
      /\ page' = "login" => via' = "login"
  BY RefreshIsHeard DEF NotHeard, HeardRefreshed, HeardRefused, pageVars, SessionInv, PageSound
<1> QED BY <1>4, <1>5, <1>6, <1>7 DEF PageSound

LEMMA RefreshKeepsAnswers ==
  ASSUME SessionInv, NEW m \in wire, HandleRefresh(m)
  PROVE  Untorn'
<1>1. /\ RefreshedFamily(m) /\ NothingForgotten /\ m.kind = "refresh"
      /\ m.credential.family \in Families
  BY RefreshKeepsFamilies DEF HandleRefresh, RefreshedFamily, GivenOut
<1>2. PICK f, c : f = m.credential.family /\ c = m.command /\ f \in Families
  BY <1>1
<1>3. SUFFICES ASSUME ~torn' PROVE Untorn'
  BY DEF Untorn
<1>4. ~torn
  BY <1>1, <1>3 DEF NothingForgotten
<1>5. \A n \in wire : n.kind = "refresh" => RefreshIsAnswerable(n) /\ GivenOut(n.credential)
  BY <1>4 DEF SessionInv, Untorn, MessageSound
<1>6. ~EndedAsReused(m)
  BY <1>1, <1>5 DEF EndedAsReused, RefreshIsAnswerable
<1>7. Recorded(f, c)' \/ family[f].status # "active"
  <2>1. CASE Recorded(f, c)
    <3>1. family[f].status # "none"
      BY <1>1, <1>2 DEF RefreshedFamily, GivenOut
    <3> QED BY <1>1, <1>2, <2>1, <3>1, RecordedStays
  <2>2. CASE ~Recorded(f, c)
    <3>1. CASE Rotated(m)
      BY <1>2, <3>1, GrownIsRecorded DEF Rotated
    <3>2. CASE EndedByTime(m)
      BY <1>2, <3>2, GrownIsRecorded DEF EndedByTime
    <3>3. CASE RefusedAsIs(m)
      BY <1>2, <2>2, <3>3 DEF RefusedAsIs
    <3> QED BY <1>1, <1>6, <3>1, <3>2, <3>3 DEF RefreshedFamily
  <2> QED BY <2>1, <2>2
\* Only the refresh the page waits for can rotate.
<1>8. Rotated(m) => page = "refresh" /\ requestKey = c /\ m.credential = stored
  <2>1. SUFFICES ASSUME Rotated(m) PROVE page = "refresh" /\ requestKey = c /\ m.credential = stored
    OBVIOUS
  <2>2. RefreshIsAnswerable(m) /\ ~Recorded(m.credential.family, m.command)
    BY <1>1, <1>5, <2>1 DEF Rotated
  <2>3. page = "refresh" /\ requestKey = m.command
    BY <2>1, <2>2 DEF RefreshIsAnswerable, Rotated
  <2> QED BY <1>2, <2>3 DEF SessionInv, MessageSound, Waiting
<1>9. ~Rotated(m) => \A h \in Families :
         /\ family'[h].generation = family[h].generation
         /\ family[h].status # "active" => family'[h].status = family[h].status
  BY <1>1, <1>6 DEF RefreshedFamily, EndedByTime, RefusedAsIs, FamilyGrown
<1>10. ASSUME NEW n \in wire, n.kind = "refresh",
              \/ page' = "refresh" /\ requestKey' = requestKey
              \/ n.command # requestKey \/ page # "refresh" \/ n.command = c
       PROVE  RefreshIsAnswerable(n)'
  <2>1. /\ RefreshIsAnswerable(n) /\ n.credential.family \in Families
        /\ family[n.credential.family].status # "none"
    BY <1>5, <1>10 DEF GivenOut
  <2>2. CASE Recorded(n.credential.family, n.command)
    <3>1. Recorded(n.credential.family, n.command)'
      BY <1>1, <2>1, <2>2, RecordedStays
    <3> QED BY <3>1 DEF RefreshIsAnswerable
  <2>3. CASE ~Recorded(n.credential.family, n.command) /\ n.command = c
    <3>1. n.credential = m.credential
      BY <1>1, <1>2, <1>10, <2>3 DEF SessionInv, OneRequestPerKey
    <3>2. CASE Recorded(f, c)'
      BY <1>2, <2>3, <3>1, <3>2 DEF RefreshIsAnswerable, Recorded
    <3>3. CASE family[f].status # "active"
      <4>1. ~Rotated(m)
        BY <1>2, <3>3 DEF Rotated
      <4> QED BY <1>2, <1>9, <2>1, <2>3, <3>1, <3>3, <4>1 DEF RefreshIsAnswerable, Consumed
    <3> QED BY <1>7, <3>2, <3>3
  <2>4. CASE ~Recorded(n.credential.family, n.command) /\ n.command # c
    <3>1. CASE Rotated(m)
      <4>1. n.command # requestKey
        BY <1>8, <2>4, <3>1
      <4>2. ~Consumed(n.credential) /\ family[n.credential.family].status # "active"
        BY <2>1, <2>4, <4>1 DEF RefreshIsAnswerable
      <4>3. n.credential.family # f
        BY <1>2, <3>1, <4>2 DEF Rotated
      <4>4. family'[n.credential.family] = family[n.credential.family]
        BY <1>2, <2>1, <3>1, <4>3 DEF Rotated, FamilyGrown
      <4> QED BY <4>2, <4>4 DEF RefreshIsAnswerable, Consumed
    <3>2. CASE ~Rotated(m)
      BY <1>9, <1>10, <2>1, <2>4, <3>2 DEF RefreshIsAnswerable, Consumed
    <3> QED BY <3>1, <3>2
  <2> QED BY <2>2, <2>3, <2>4
<1>11. \A n \in wire' : n.kind = "refresh" => RefreshIsAnswerable(n)'
  <2>1. \A n \in wire' : n.kind = "refresh" => n \in wire
    BY RefreshIsHeard DEF NotHeard, HeardRefreshed, HeardRefused, Request
  <2>2. (page' = page /\ requestKey' = requestKey) \/ requestKey = c
    BY <1>2, RefreshIsHeard DEF NotHeard, HeardRefreshed, HeardRefused, Awaited, pageVars
  <2> QED BY <1>10, <2>1, <2>2
<1>13. ASSUME page' = "refresh"
       PROVE  Recorded(stored.family, requestKey)' \/ ~Consumed(stored)'
  <2>1. /\ page = "refresh" /\ stored' = stored /\ requestKey' = requestKey
        /\ stored # NoCredential /\ GivenOut(stored)
        /\ Recorded(stored.family, requestKey) \/ ~Consumed(stored)
    BY <1>4, <1>13, RefreshIsHeard
       DEF NotHeard, HeardRefreshed, HeardRefused, pageVars, SessionInv, PageSound, Untorn
  <2>2. CASE Recorded(stored.family, requestKey)
    <3>1. PICK h, k : h = stored.family /\ k = requestKey
      OBVIOUS
    <3>2. Recorded(h, k)'
      BY <1>1, <2>1, <2>2, <3>1, RecordedStays DEF GivenOut
    <3> QED BY <2>1, <3>1, <3>2 DEF Recorded
  <2>3. CASE ~Consumed(stored) /\ ~Rotated(m)
    BY <1>9, <2>1, <2>3 DEF Consumed, GivenOut
  <2>4. CASE Rotated(m)
    <3>1. stored.family = f /\ requestKey = c /\ family[f].status = "active"
      BY <1>2, <1>8, <2>4 DEF Rotated
    <3>2. Recorded(f, c)'
      BY <1>7, <3>1
    <3> QED BY <2>1, <3>1, <3>2 DEF Recorded
  <2> QED BY <2>1, <2>2, <2>3, <2>4
<1>14. ASSUME stored' # NoCredential, page' # "refresh", ~(page' = "store" /\ via' = "refresh")
       PROVE  ~Consumed(stored)'
  <2>1. CASE NotHeard(m)
    <3>1. ~Rotated(m) /\ stored' = stored /\ ~Consumed(stored) /\ GivenOut(stored)
      BY <1>4, <1>8, <1>14, <2>1 DEF NotHeard, pageVars, SessionInv, PageSound, Untorn
    <3> QED BY <1>9, <3>1 DEF Consumed, GivenOut
  <2>2. CASE HeardRefreshed(m)
    <3>1. page = "refresh" /\ via' = "refresh" /\ page' = "store"
      BY <1>1, <2>2 DEF HeardRefreshed, Awaited, SessionInv, PageSound
    <3> QED BY <1>14, <3>1
  <2>3. CASE HeardRefused(m)
    BY <1>3, <1>14, <2>3 DEF HeardRefused, Removed
  <2> QED BY <2>1, <2>2, <2>3, RefreshIsHeard
<1> QED BY <1>11, <1>13, <1>14 DEF Untorn, NoCredential

LEMMA RefreshKeeps ==
  ASSUME SessionInv, NEW m \in wire, HandleRefresh(m)
  PROVE  SessionInv'
BY RefreshKeepsFamilies, RefreshKeepsTypes, RefreshKeepsMessages, RefreshKeepsKeys,
   RefreshKeepsHeld, RefreshKeepsAnswers DEF SessionInv

\* A login or a logout is served: no credential of a session that was is
\* consumed, and the page goes on as it was or hears its answer.
NothingConsumed ==
  /\ \A f \in Families : family[f].status # "none" =>
       /\ family'[f].generation = family[f].generation
       /\ family[f].status # "active" => family'[f].status # "active"
  /\ \A c : Revokes(c) => Revokes(c)'
  /\ wire' \subseteq wire /\ requestKey' = requestKey /\ via' = via /\ leaving' = leaving
  /\ \/ page' = page /\ held' = held
     \/ page \in {"login", "logout"} /\ page' \in {"store", "error", "out"} /\ Holding'
  /\ \/ stored' = stored /\ torn' = torn
     \/ stored' = NoCredential /\ torn' = torn /\ page' = "out"
     \/ stored' = stored /\ torn'

LEMMA QuietKeeps ==
  ASSUME SessionInv, SessionTyped', NothingForgotten, (\A f \in Families : FamilySound(f))', NothingConsumed
  PROVE  SessionInv'
<1>1. ASSUME NEW c, GivenOut(c) PROVE GivenOut(c)' /\ Consumed(c)' = Consumed(c)
  <2>1. family'[c.family].generation \in Nat
    BY <1>1 DEF GivenOut, FamilySound, RowSound, FamilyRow
  <2>2. GivenOut(c)'
    BY <1>1, <2>1, GivenOutStays
  <2>3. family'[c.family].generation = family[c.family].generation
    BY <1>1 DEF NothingConsumed, GivenOut
  <2> QED BY <2>2, <2>3 DEF Consumed
<1>2. \A n \in wire' : n \in wire /\ MessageSound(n)
  BY DEF SessionInv, NothingConsumed
<1>3. used \in Nat /\ used' \in Nat /\ used <= used' /\ leaving' = leaving
  BY DEF NothingForgotten, NothingConsumed
<1>4. ASSUME NEW n \in wire' PROVE MessageSound(n)'
  <2>1. n \in wire /\ MessageSound(n) /\ n.command \in Nat
    BY <1>2 DEF SessionInv, SessionTyped, SessionMessage
  <2>2. n.command <= used'
    BY <1>3, <2>1 DEF MessageSound
  <2>3. n.kind # "login" => GivenOut(n.credential)'
    BY <1>1, <2>1 DEF MessageSound
  <2>4. n.kind = "logout" => n.credential.family \in leaving' /\ Revokes(n.command)'
    BY <1>3, <2>1 DEF MessageSound, NothingConsumed
  <2>5. n.command = requestKey' /\ page' \in Waiting =>
          /\ n.command = requestKey /\ page' = page /\ held' = held
          /\ page = "refresh" => stored' = stored
    BY DEF NothingConsumed, Waiting
  <2> QED BY <2>1, <2>2, <2>3, <2>4, <2>5 DEF MessageSound
<1>5. OneRequestPerKey'
  BY <1>2 DEF SessionInv, OneRequestPerKey
<1>6. Holding'
  <2>1. SUFFICES ASSUME page' = page /\ held' = held, page \in {"store", "check", "in", "logout"}
                 PROVE  Holding'
    BY DEF NothingConsumed, Holding
  <2>2. GivenOut(held) /\ held.generation = family[held.family].generation /\ Holding
    BY <2>1 DEF SessionInv, Holding
  <2>3. GivenOut(held)'
    BY <1>1, <2>1, <2>2 DEF GivenOut
  <2>4. family'[held.family].generation = family[held.family].generation
    BY <2>2 DEF NothingConsumed, GivenOut
  <2> QED BY <1>2, <2>1, <2>2, <2>3, <2>4 DEF Holding
<1>7. PageSound'
  <2>1. stored' = stored \/ stored' = NoCredential
    BY DEF NothingConsumed
  <2>2. stored' # NoCredential => GivenOut(stored)'
    BY <1>1, <2>1 DEF SessionInv, PageSound, GivenOut
  <2>3. page' = "refresh" => stored' # NoCredential /\ via' = "refresh"
    BY DEF NothingConsumed, SessionInv, PageSound
  <2>4. page' = "login" => via' = "login"
    BY DEF NothingConsumed, SessionInv, PageSound
  <2>5. page' = "logout" => held'.family \in leaving' /\ Revokes(requestKey)'
    <3>1. SUFFICES ASSUME page' = "logout" PROVE held'.family \in leaving' /\ Revokes(requestKey)'
      OBVIOUS
    <3>2. held' = held /\ held.family \in leaving /\ Revokes(requestKey) /\ requestKey' = requestKey
      BY <3>1 DEF NothingConsumed, SessionInv, PageSound
    <3>3. PICK c : c = requestKey /\ Revokes(c)
      BY <3>2
    <3>4. Revokes(c)'
      BY <3>3 DEF NothingConsumed
    <3> QED BY <1>3, <3>2, <3>3, <3>4 DEF Revokes
  <2> QED BY <2>2, <2>3, <2>4, <2>5 DEF PageSound, NoCredential
<1>8. Untorn'
  <2>1. SUFFICES ASSUME ~torn' PROVE Untorn'
    BY DEF Untorn
  <2>2. ~torn /\ Untorn
    BY <2>1 DEF NothingForgotten, SessionInv
  <2>3. ASSUME NEW n \in wire', n.kind = "refresh" PROVE RefreshIsAnswerable(n)'
    <3>1. RefreshIsAnswerable(n) /\ GivenOut(n.credential)
      BY <1>2, <2>2, <2>3 DEF Untorn, MessageSound
    <3>2. CASE Recorded(n.credential.family, n.command)
      BY <3>1, <3>2, RecordedStays DEF RefreshIsAnswerable, GivenOut
    <3>3. CASE ~Recorded(n.credential.family, n.command)
      <4>1. ~Consumed(n.credential)'
        BY <1>1, <3>1, <3>3 DEF RefreshIsAnswerable
      <4>2. family[n.credential.family].status # "active" =>
              family'[n.credential.family].status # "active"
        BY <3>1 DEF NothingConsumed, GivenOut
      <4>3. page = "refresh" => page' = "refresh" /\ requestKey' = requestKey
        BY DEF NothingConsumed
      <4> QED BY <3>1, <3>3, <4>1, <4>2, <4>3 DEF RefreshIsAnswerable
    <3> QED BY <3>2, <3>3
  <2>4. ASSUME page' = "refresh" PROVE Recorded(stored.family, requestKey)' \/ ~Consumed(stored)'
    <3>1. /\ page = "refresh" /\ stored' = stored /\ requestKey' = requestKey /\ GivenOut(stored)
          /\ Recorded(stored.family, requestKey) \/ ~Consumed(stored)
      BY <2>1, <2>2, <2>4 DEF NothingConsumed, Untorn, SessionInv, PageSound
    <3>2. PICK c, k : c = stored /\ k = requestKey
      OBVIOUS
    <3>3. Recorded(c.family, k) => Recorded(c.family, k)'
      BY <3>1, <3>2, RecordedStays DEF GivenOut
    <3>4. Consumed(c)' = Consumed(c)
      BY <1>1, <3>1, <3>2
    <3> QED BY <3>1, <3>2, <3>3, <3>4 DEF Recorded, Consumed
  <2>5. ASSUME stored' # NoCredential, page' # "refresh", ~(page' = "store" /\ via' = "refresh")
        PROVE  ~Consumed(stored)'
    <3>1. stored' = stored /\ page # "refresh" /\ ~(page = "store" /\ via = "refresh")
      BY <2>1, <2>5 DEF NothingConsumed
    <3>2. ~Consumed(stored) /\ GivenOut(stored)
      BY <2>2, <2>5, <3>1 DEF Untorn, SessionInv, PageSound
    <3> QED BY <1>1, <3>1, <3>2 DEF Consumed
  <2> QED BY <2>3, <2>4, <2>5 DEF Untorn, NoCredential
<1> QED BY <1>4, <1>5, <1>6, <1>7, <1>8 DEF SessionInv

\* What the page hears of a login.
LoginHeard(m) ==
  /\ Awaited(m) /\ UNCHANGED <<via, stored, requestKey, try, used, torn, leaving>>
  /\ \/ page' = "store" /\ held' = [family |-> NewFamily, generation |-> 1] /\ FamilyStarted(m)
     \/ page' = "error" /\ held' = held /\ family' = family

LEMMA LoginIsHeard ==
  ASSUME SessionInv, NEW m \in wire, HandleLogin(m)
  PROVE  /\ LoginHeard(m) \/ (Unheard /\ (FamilyStarted(m) \/ family' = family))
         /\ m.kind = "login" /\ wire' = wire \ {m} /\ late' = late
         /\ spent' \subseteq spent \cup {m.command}
<1>1. m.kind = "login" /\ wire' = wire \ {m} /\ late' = late
  BY DEF HandleLogin
<1>2. CASE ServeLogin(m) /\ LoginAnswer(m) = "authenticated"
  <2>1. FamilyStarted(m)
    BY <1>2, LoginServed
  <2>2. spent' \subseteq spent \cup {m.command}
    BY <1>2 DEF ServeLogin
  <2>3. m.command \notin spent
    BY <1>2 DEF LoginAnswer
  <2> QED BY <1>1, <1>2, <2>1, <2>2 DEF HandleLogin, LoginHeard, Unheard
<1>3. CASE ServeLogin(m) /\ LoginAnswer(m) # "authenticated"
  <2>1. family' = family /\ spent' = spent
    BY <1>3 DEF ServeLogin
  <2>2. m.command \in spent
    BY <1>3 DEF LoginAnswer
  <2> QED BY <1>1, <1>3, <2>1, <2>2 DEF HandleLogin, LoginHeard, Unheard
<1>4. CASE spent' = spent \cup {m.command} /\ family' = family /\ Unheard
  BY <1>1, <1>4
<1> QED BY <1>2, <1>3, <1>4 DEF HandleLogin

LEMMA LoginKeeps ==
  ASSUME SessionInv, NEW m \in wire, HandleLogin(m)
  PROVE  SessionInv'
<1>1. /\ FamilyStarted(m) \/ family' = family
      /\ m.kind = "login" /\ wire' = wire \ {m} /\ late' = late
      /\ spent' \subseteq spent \cup {m.command} /\ m.command \in Nat
      /\ via' = via /\ stored' = stored /\ requestKey' = requestKey /\ try' = try /\ used' = used
      /\ torn' = torn /\ leaving' = leaving
  BY LoginIsHeard DEF LoginHeard, Unheard, pageVars, SessionInv, SessionTyped, SessionMessage
<1>2. NothingForgotten
  BY <1>1, StartedIsKept, SameIsKept DEF NothingForgotten, SessionInv, SessionTyped
<1>3. ASSUME NEW f \in Families PROVE FamilySound(f)'
  <2>1. CASE family'[f] = family[f]
    BY <1>2, <2>1, FamilyStays
  <2>2. CASE FamilyStarted(m) /\ f = NewFamily
    <3>1. RowSound(family'[f]) /\ family'[f].status = "active" /\ DOMAIN family'[f].log = {}
      BY <2>2 DEF FamilyStarted
    <3> QED BY <3>1 DEF FamilySound
  <2> QED BY <1>1, <2>1, <2>2 DEF FamilyStarted
<1>4. \A h \in Families : family[h].status # "none" => family'[h] = family[h]
  BY <1>1 DEF FamilyStarted
<1>5. \A c : Revokes(c) => Revokes(c)'
  <2>1. \A h \in Families : family'[h] = family[h] \/ DOMAIN family'[h].log = {}
    BY <1>1 DEF FamilyStarted
  <2> QED BY <2>1 DEF Revokes
<1>6. \/ page' = page /\ held' = held
      \/ page = "login" /\ page' = "error" /\ held' = held
      \/ /\ page = "login" /\ page' = "store" /\ FamilyStarted(m)
         /\ held' = [family |-> NewFamily, generation |-> 1]
  BY <1>1, LoginIsHeard DEF LoginHeard, Unheard, pageVars, Awaited
<1>7. FamilyStarted(m) => [family |-> NewFamily, generation |-> 1] \in Credentials
  <2>1. FamilyStarted(m) => NewFamily \in 0..MaxFamilies
    BY SessionAssumption DEF FamilyStarted, Families
  <2> QED BY <2>1 DEF Credentials
<1>8. SessionTyped'
  BY <1>1, <1>2, <1>6, <1>7 DEF SessionInv, SessionTyped, NothingForgotten, Pages
<1>9. page' = "store" /\ FamilyStarted(m) /\ held' = [family |-> NewFamily, generation |-> 1] => Holding'
  <2>1. SUFFICES ASSUME page' = "store", FamilyStarted(m),
                        held' = [family |-> NewFamily, generation |-> 1]
                 PROVE  Holding'
    OBVIOUS
  <2>2. PICK f : f = NewFamily
    OBVIOUS
  <2>3. held' = [family |-> f, generation |-> 1] /\ f \in Families /\ family[f].status = "none"
        /\ family'[f].status = "active" /\ family'[f].generation = 1 /\ held' \in Credentials
    BY <1>7, <2>1, <2>2 DEF FamilyStarted
  <2>4. GivenOut(held)'
    BY <2>3 DEF GivenOut
  <2>5. \A n \in wire' : n.kind = "refresh" => n.credential.family # f
    BY <1>1, <2>3 DEF SessionInv, MessageSound, GivenOut
  <2> QED BY <2>3, <2>4, <2>5 DEF Holding
<1>10. NothingConsumed
  <2>1. \A h \in Families : family[h].status # "none" =>
          /\ family'[h].generation = family[h].generation
          /\ family[h].status # "active" => family'[h].status # "active"
    BY <1>4
  <2>2. \/ page' = page /\ held' = held
        \/ page \in {"login", "logout"} /\ page' \in {"store", "error", "out"} /\ Holding'
    BY <1>6, <1>9 DEF Holding
  <2> QED BY <1>1, <1>5, <2>1, <2>2 DEF NothingConsumed
<1> QED BY <1>2, <1>3, <1>8, <1>10, QuietKeeps

LEMMA LogoutServedKeeps ==
  ASSUME SessionInv, NEW m \in wire, HandleLogout(m)
  PROVE  SessionInv'
<1>1. m.kind = "logout" /\ ServeLogout(m) /\ wire' = wire \ {m} /\ late' = late /\ spent' = spent
  BY DEF HandleLogout
<1>2. \/ Revoked(m) /\ RowSound(family'[m.credential.family])
      \/ family' = family
  BY <1>1, LogoutServed
<1>3. PICK f, g : f = m.credential.family /\ g = family[f].generation
  OBVIOUS
<1>4. /\ f \in Families /\ g \in Nat /\ f \in leaving /\ m.command \in Nat /\ m.command <= used
      /\ GivenOut(m.credential)
  BY <1>1, <1>3, GenerationsCount
     DEF SessionInv, SessionTyped, SessionMessage, MessageSound, GivenOut
<1>5. /\ \/ page' = page /\ held' = held /\ stored' = stored /\ torn' = torn
         \/ /\ page = "logout" /\ page' = "out" /\ held' = NoCredential
            /\ \/ stored' = NoCredential /\ torn' = torn
               \/ stored' = stored /\ torn' = TRUE
      /\ via' = via /\ requestKey' = requestKey /\ used' = used /\ leaving' = leaving /\ try' = try
  BY <1>1 DEF HandleLogout, Unheard, pageVars, Awaited, Removed
<1>6. NothingForgotten
  <2>1. DOMAIN family' = Families /\ \A h \in Families : FamilyKept(h)
    BY <1>2, <1>3, <1>4, GrownIsKept, SameIsKept DEF Revoked
  <2>2. torn => torn'
    BY <1>5
  <2> QED BY <1>1, <1>5, <2>1, <2>2 DEF NothingForgotten, SessionInv, SessionTyped
<1>7. ASSUME NEW h \in Families PROVE FamilySound(h)'
  <2>1. CASE family'[h] = family[h]
    BY <1>6, <2>1, FamilyStays
  <2>2. CASE family'[h] # family[h]
    <3>1. Revoked(m) /\ h = f /\ RowSound(family'[f])
      BY <1>2, <1>3, <2>2 DEF Revoked, FamilyGrown
    <3> QED BY <1>3, <1>4, <1>6, <3>1, FamilyGrows DEF Revoked
  <2> QED BY <2>1, <2>2
<1>8. \A c : Revokes(c) => Revokes(c)'
  <2>1. ASSUME NEW c, Revokes(c) PROVE Revokes(c)'
    <3>1. CASE family' = family
      BY <2>1, <3>1 DEF Revokes
    <3>2. CASE Revoked(m)
      BY <1>3, <1>4, <2>1, <3>2, RevokesStays DEF Revoked
    <3> QED BY <1>2, <3>1, <3>2
  <2> QED BY <2>1
<1>9. SessionTyped'
  <2>1. held' \in Credentials /\ stored' \in Credentials /\ page' \in Pages /\ torn' \in BOOLEAN
    BY <1>5, NobodysCredential DEF SessionInv, SessionTyped, Pages
  <2> QED BY <1>1, <1>5, <1>6, <2>1 DEF SessionInv, SessionTyped, NothingForgotten
<1>10. NothingConsumed
  <2>1. \A h \in Families : family[h].status # "none" =>
          /\ family'[h].generation = family[h].generation
          /\ family[h].status # "active" => family'[h].status # "active"
    BY <1>2, <1>3, <1>4 DEF Revoked, FamilyGrown
  <2>2. \/ page' = page /\ held' = held
        \/ page \in {"login", "logout"} /\ page' \in {"store", "error", "out"} /\ Holding'
    BY <1>5 DEF Holding
  <2>3. \/ stored' = stored /\ torn' = torn
        \/ stored' = NoCredential /\ torn' = torn /\ page' = "out"
        \/ stored' = stored /\ torn'
    BY <1>5
  <2> QED BY <1>1, <1>5, <1>8, <2>1, <2>2, <2>3 DEF NothingConsumed
<1> QED BY <1>6, <1>7, <1>9, <1>10, QuietKeeps

-----------------------------------------------------------------------------
(* The session.                                                            *)

LEMMA SessionInitInv ==
  SessionInit => SessionInv
<1> SUFFICES ASSUME SessionInit PROVE SessionInv
  OBVIOUS
<1> USE DEF SessionInit
<1>1. SessionTyped
  <2>1. DOMAIN family = Families
    OBVIOUS
  <2>2. /\ late = {} /\ leaving = {} /\ spent = {} /\ wire = {} /\ page = "closed" /\ via = "login"
        /\ held = NoCredential /\ stored = NoCredential
        /\ requestKey = 0 /\ used = 0 /\ try = 0 /\ torn = FALSE
    OBVIOUS
  <2>3. held \in Credentials /\ stored \in Credentials
    BY <2>2, NobodysCredential
  <2>4. /\ late \subseteq Families /\ leaving \subseteq Families /\ spent \subseteq Nat
        /\ wire \subseteq SessionMessage /\ page \in Pages /\ via \in {"refresh", "login"}
    BY <2>2 DEF Pages
  <2>5. requestKey \in Nat /\ used \in Nat /\ requestKey <= used /\ try \in Nat
    BY <2>2
  <2>6. torn \in BOOLEAN
    BY <2>2, Zenon
  <2> HIDE DEF SessionInit
  <2> QED BY <2>1, <2>3, <2>4, <2>5, <2>6 DEF SessionTyped
<1>2. ASSUME NEW f \in Families PROVE FamilySound(f)
  <2>1. family[f] = [status |-> "none", generation |-> 0, log |-> <<>>]
    OBVIOUS
  <2>2. RowSound(family[f]) /\ DOMAIN family[f].log = {}
    BY <2>1, FreshRow
  <2>3. family[f].status = "none"
    BY <2>1
  <2> QED BY <2>2, <2>3 DEF FamilySound
<1>3. (\A m \in wire : MessageSound(m)) /\ OneRequestPerKey
  BY DEF OneRequestPerKey
<1>4. Holding /\ PageSound /\ Untorn
  BY DEF Holding, PageSound, Untorn
<1> QED BY <1>1, <1>2, <1>3, <1>4 DEF SessionInv

LEMMA SessionStepInv ==
  SessionInv /\ [SessionNext]_sessionVars => SessionInv'
<1> SUFFICES ASSUME SessionInv, [SessionNext]_sessionVars PROVE SessionInv'
  OBVIOUS
<1>1. CASE Open
  BY <1>1, OpenKeeps
<1>2. CASE Close
  BY <1>2, CloseKeeps
<1>3. CASE Retry
  BY <1>3, RetryKeeps
<1>4. CASE GiveUp
  BY <1>4, GiveUpKeeps
<1>5. CASE Store
  BY <1>5, StoreKeeps
<1>6. CASE Check
  BY <1>6, CheckKeeps
<1>7. CASE Logout
  BY <1>7, LogoutKeeps
<1>8. CASE RunOut
  BY <1>8, RunOutKeeps
<1>9. CASE \E m \in wire : HandleRefresh(m) \/ HandleLogin(m) \/ HandleLogout(m)
  BY <1>9, RefreshKeeps, LoginKeeps, LogoutServedKeeps
<1>10. CASE \E f \in Families : Expire(f)
  BY <1>10, ExpireKeeps
<1>11. CASE UNCHANGED sessionVars
  BY <1>11 DEF sessionVars, SessionInv, SessionTyped, FamilySound, MessageSound, OneRequestPerKey,
               Holding,
               PageSound, Untorn, GivenOut, Revokes, RefreshIsAnswerable, Recorded, Consumed
<1> QED BY <1>1, <1>2, <1>3, <1>4, <1>5, <1>6, <1>7, <1>8, <1>9, <1>10, <1>11 DEF SessionNext

LEMMA SessionsAgreeHere ==
  SessionInv => SessionsAgree
<1> SUFFICES ASSUME SessionInv PROVE SessionsAgree
  OBVIOUS
<1>1. HistoryReplays /\ ReuseNeedsTornRefresh
  BY DEF SessionInv, FamilySound, RowSound, HistoryReplays, ReuseNeedsTornRefresh
<1>2. SignedInIsCurrent
  <2>1. SUFFICES ASSUME page = "in" PROVE SignedInIsCurrent
    BY DEF SignedInIsCurrent
  <2>2. /\ GivenOut(held) /\ held.generation = family[held.family].generation
        /\ held.family \in Families /\ FamilySound(held.family)
        /\ family[held.family].status # "none" /\ family[held.family] \in FamilyRow
    BY <2>1 DEF SessionInv, Holding, GivenOut, FamilySound, RowSound
  <2> QED BY <2>2 DEF SignedInIsCurrent, FamilySound, FamilyRow
<1>3. StoredIsUnused
  <2>1. SUFFICES ASSUME stored # NoCredential, page \notin {"refresh", "store"}, ~torn
                 PROVE  family[stored.family].generation = stored.generation
    BY DEF StoredIsUnused
  <2>2. GivenOut(stored) /\ ~Consumed(stored)
    BY <2>1 DEF SessionInv, PageSound, Untorn
  <2>3. family[stored.family].generation \in Nat
    BY <2>2, GenerationsCount DEF GivenOut
  <2> QED BY <2>2, <2>3 DEF GivenOut, Credentials, Consumed
<1> QED BY <1>1, <1>2, <1>3 DEF SessionsAgree

\* "Logged out" is the answer to a logout that was recorded.
LEMMA LoggedOutStep ==
  SessionInv /\ [SessionNext]_sessionVars => LoggedOutIsEnded
<1> SUFFICES ASSUME SessionInv, [SessionNext]_sessionVars, page = "logout", page' = "out"
             PROVE  family'[held.family].status # "active" \/ held.family \in late
  BY DEF LoggedOutIsEnded
<1>1. PICK m \in wire : HandleLogout(m) /\ Awaited(m)
  <2>1. ~Open /\ ~Close /\ ~Retry /\ ~GiveUp /\ ~Store /\ ~Check /\ ~Logout /\ ~RunOut
    BY DEF Open, Close, Retry, GiveUp, Store, Check, Logout, RunOut, Begin
  <2>2. ~(\E f \in Families : Expire(f)) /\ ~UNCHANGED sessionVars
    BY DEF Expire, pageVars, sessionVars
  <2>3. PICK m \in wire : HandleRefresh(m) \/ HandleLogin(m) \/ HandleLogout(m)
    BY <2>1, <2>2 DEF SessionNext
  <2>4. ~HandleRefresh(m)
    BY RefreshIsHeard DEF NotHeard, HeardRefreshed, HeardRefused, pageVars
  <2>5. ~HandleLogin(m)
    BY LoginIsHeard DEF LoginHeard, Unheard, pageVars
  <2> QED BY <2>3, <2>4, <2>5 DEF HandleLogout, Unheard, pageVars
<1>2. m.kind = "logout" /\ ServeLogout(m) /\ m.command = requestKey
  BY <1>1 DEF HandleLogout, Awaited
<1>3. m.credential = held /\ GivenOut(held) /\ Revokes(m.command) /\ FamilySound(held.family)
  BY <1>2 DEF SessionInv, MessageSound, Waiting, GivenOut
<1>4. ~Consumed(held)
  BY HeldIsFresh
<1>5. CASE LogoutAnswer(m) = "logged_out" /\ ~Recorded(held.family, m.command)
  <2>1. Apply(held.family, m.command, "revoke", "revoked", family[held.family].generation)
    BY <1>2, <1>3, <1>5 DEF ServeLogout
  <2>2. family'[held.family].status = "revoked"
    BY <1>3, <2>1 DEF Apply, SessionInv, SessionTyped, GivenOut
  <2> QED BY <2>2
<1>6. CASE Recorded(held.family, m.command)
  <2>1. family[held.family].status # "active"
    BY <1>3, <1>6 DEF Recorded, Revokes, GivenOut, FamilySound, RowSound
  <2>2. family' = family
    BY <1>2, <1>3, <1>6 DEF ServeLogout
  <2> QED BY <2>1, <2>2
<1>7. CASE LogoutAnswer(m) # "logged_out" /\ ~Recorded(held.family, m.command)
  <2>1. ~LogoutAllowed(held.family)
    BY <1>3, <1>4, <1>7 DEF LogoutAnswer
  <2>2. family' = family
    BY <1>2, <1>3, <1>7 DEF ServeLogout
  <2> QED BY <2>1, <2>2 DEF LogoutAllowed
<1> QED BY <1>5, <1>6, <1>7

\* The page, its storage and the server agree about every session, whatever is
\* lost, late or repeated.
THEOREM SessionsStaySound == SessionSpec => SessionsAreSound
<1>1. SessionInv /\ SessionInv' /\ [SessionNext]_sessionVars
        => [SessionsAgree' /\ LoggedOutIsEnded]_sessionVars
  <2>1. SessionInv' => SessionsAgree'
    BY SessionsAgreeHere, PTL
  <2> QED BY <2>1, LoggedOutStep
<1> QED BY <1>1, SessionInitInv, SessionStepInv, PTL DEF SessionSpec, SessionsAreSound

\* There is one row for each family.
RowsAreMapped == family = [f \in DOMAIN family |-> family[f]]

LEMMA RowsStayMapped ==
  ASSUME RowsAreMapped, [SessionNext]_sessionVars PROVE RowsAreMapped'
<1>1. CASE family' = family
  BY <1>1 DEF RowsAreMapped
<1>2. ASSUME NEW f, NEW row, family' = [family EXCEPT ![f] = row] PROVE RowsAreMapped'
  BY <1>2 DEF RowsAreMapped
<1>3. ASSUME NEW f, NEW c, NEW type, NEW status, NEW generation, Apply(f, c, type, status, generation)
      PROVE  RowsAreMapped'
  BY <1>2, <1>3 DEF Apply
<1>4. ASSUME NEW m \in wire, HandleRefresh(m) PROVE RowsAreMapped'
  <2>1. ServeRefresh(m)
    BY <1>4 DEF HandleRefresh
  <2> QED BY <1>1, <1>3, <2>1 DEF ServeRefresh
<1>5. ASSUME NEW m \in wire, HandleLogin(m) PROVE RowsAreMapped'
  <2>1. ServeLogin(m) \/ UNCHANGED family
    BY <1>5 DEF HandleLogin
  <2> QED BY <1>1, <1>2, <2>1 DEF ServeLogin
<1>6. ASSUME NEW m \in wire, HandleLogout(m) PROVE RowsAreMapped'
  <2>1. ServeLogout(m)
    BY <1>6 DEF HandleLogout
  <2> QED BY <1>1, <1>3, <2>1 DEF ServeLogout
<1> QED BY <1>1, <1>4, <1>5, <1>6 DEF SessionNext, Open, Close, Retry, GiveUp, Store, Check, Logout,
           RunOut, Expire, sessionVars

\* SessionTypeOK, of every number of sessions, request keys and repeats; the
\* page holds a credential of a family while it stores or checks one, or is in.
THEOREM SessionIsTyped == SessionSpec => []SessionTypeOK
<1>1. SessionInit => RowsAreMapped
  BY DEF SessionInit, RowsAreMapped
<1>2. RowsAreMapped /\ [SessionNext]_sessionVars => RowsAreMapped'
  BY RowsStayMapped
<1>3. SessionInv /\ RowsAreMapped => SessionTypeOK
  <2> SUFFICES ASSUME SessionInv, RowsAreMapped PROVE SessionTypeOK
    OBVIOUS
  <2>1. \A f \in Families : family[f] \in FamilyRow
    BY DEF SessionInv, FamilySound, RowSound
  <2>2. DOMAIN family = Families
    BY DEF SessionInv, SessionTyped
  <2>3. family \in [Families -> FamilyRow]
    BY <2>1, <2>2 DEF RowsAreMapped
  <2>4. wire \subseteq [kind : Waiting, credential : Credentials, command : Nat, try : Nat]
    BY DEF SessionInv, SessionTyped, SessionMessage
  <2>5. page \in {"store", "check", "in", "logout"} => held.family \in Families
    BY DEF SessionInv, Holding, GivenOut
  <2> QED BY <2>3, <2>4, <2>5 DEF SessionTypeOK, SessionInv, SessionTyped
<1> QED BY <1>1, <1>2, <1>3, SessionInitInv, SessionStepInv, PTL DEF SessionSpec

-----------------------------------------------------------------------------
(* PlayerOnboarding.                                                       *)

OnboardingSteps == {"profile", "consents", "level_survey", "completed"}
Contents == Profiles \cup Surveys \cup {NothingYet}
OnboardingRow == [step : OnboardingSteps, revision : Nat, profile : Contents,
                  answers : Contents, consents : SUBSET Consents]
ViewOfRow == [step : OnboardingSteps, revision : Nat, versions : SUBSET Versions, current : BOOLEAN]
BodyRow == [kind : {"none", "draft", "consents", "level_survey", "complete", "accept"},
            expected : Nat, version : Nat, value : Contents]
PageRow == [view : ViewOfRow, config : Nat, body : BodyRow, onWire : BOOLEAN, tries : Nat,
            saved : Contents, passed : Contents, told : Contents]

ConsentVersions == {c.version : c \in onboarding.consents}

\* A revision names one step, and what a page knows of the consents is so.
KnowsRow(view) ==
  /\ view.revision <= onboarding.revision
  /\ view.revision = onboarding.revision => view.step = onboarding.step
  /\ view.versions \subseteq ticked

\* A request, heard or not: it speaks of documents that were ticked, and a
\* draft was written before the survey was open.
BodySound(b) ==
  /\ b.kind \in {"level_survey", "complete", "accept"} => b.version \in ticked
  /\ b.kind = "draft" =>
       /\ b.expected <= onboarding.revision
       /\ b.expected = onboarding.revision => onboarding.step \in {"profile", "consents"}

\* A page that advances from one step to the next after its draft: until
\* another draft comes between, the row has the profile it saved.
Advancing(pane, kind, from) ==
  pane.body.kind = kind =>
    /\ pane.body.expected <= onboarding.revision
    /\ pane.body.expected = onboarding.revision =>
         onboarding.step = from /\ onboarding.profile = pane.saved
    /\ pane.body.expected + 1 = onboarding.revision /\ onboarding.step = kind =>
         onboarding.profile = pane.saved

TabSound(pane) ==
  /\ KnowsRow(pane.view) /\ BodySound(pane.body)
  /\ pane.body.kind \in {"draft", "consents", "level_survey"} => pane.config \in ticked
  /\ Advancing(pane, "consents", "profile") /\ Advancing(pane, "level_survey", "consents")
  /\ pane.passed # NothingYet =>
       /\ onboarding.step \in {"level_survey", "completed"}
       /\ onboarding.profile = pane.passed
  /\ pane.told # NothingYet =>
       onboarding.step = "completed" /\ onboarding.answers = pane.told

OnboardingInv ==
  /\ onboarding \in OnboardingRow /\ policy \in Nat
  /\ tab \in [Tabs -> PageRow] /\ unheard \subseteq BodyRow
  /\ ConsentVersions \subseteq ticked
  /\ \A t \in Tabs : TabSound(tab[t])
  /\ \A b \in unheard : BodySound(b)

\* What a transaction may do to the row, whoever asks for it.
RowMoves ==
  /\ onboarding' \in OnboardingRow /\ ConsentVersions' \subseteq ticked' /\ ticked \subseteq ticked'
  /\ onboarding'.revision = onboarding.revision \/ onboarding'.revision = onboarding.revision + 1
  /\ onboarding'.revision = onboarding.revision =>
       onboarding'.step = onboarding.step /\ onboarding'.profile = onboarding.profile
  /\ onboarding'.profile = onboarding.profile \/ onboarding'.step = onboarding.step
  /\ onboarding.step \in {"level_survey", "completed"} =>
       /\ onboarding'.profile = onboarding.profile
       /\ onboarding'.step \in {"level_survey", "completed"}
  /\ onboarding.step = "completed" =>
       onboarding'.step = "completed" /\ onboarding'.answers = onboarding.answers

LEMMA NoBodyIs == NoBody \in BodyRow /\ NoBody.kind = "none" /\ NothingYet \in Contents
BY DEF NoBody, BodyRow, Contents

LEMMA ViewIs ==
  ASSUME NEW row \in OnboardingRow
  PROVE  /\ View(row) \in ViewOfRow /\ View(row).step = row.step
         /\ View(row).revision = row.revision /\ View(row).versions = {c.version : c \in row.consents}
<1>1. PICK versions : versions = {c.version : c \in row.consents}
  OBVIOUS
<1>2. PICK current : current = (\E c \in row.consents : c.version = policy) /\ current \in BOOLEAN
  OBVIOUS
<1>3. versions \in SUBSET Versions
  BY <1>1 DEF OnboardingRow, Consents
<1>4. View(row) = [step |-> row.step, revision |-> row.revision, versions |-> versions, current |-> current]
  BY <1>1, <1>2, Zenon DEF View
<1>5. row.step \in OnboardingSteps /\ row.revision \in Nat
  BY DEF OnboardingRow
<1>6. View(row) \in ViewOfRow
  BY ONLY <1>2, <1>3, <1>4, <1>5 DEF ViewOfRow
<1> QED BY <1>1, <1>4, <1>6

\* A page that is opened now.
LEMMA OpenedIs ==
  ASSUME NEW row \in OnboardingRow, NEW config \in Nat
  PROVE  /\ Opened(config, row) \in PageRow /\ Opened(config, row).view = View(row)
         /\ Opened(config, row).body.kind = "none"
         /\ Opened(config, row).passed = NothingYet /\ Opened(config, row).told = NothingYet
<1>1. PICK view, body, none : /\ view = View(row) /\ body = NoBody /\ none = NothingYet
                              /\ view \in ViewOfRow /\ body \in BodyRow /\ none \in Contents
                              /\ body.kind = "none"
  BY ViewIs, NoBodyIs
<1>2. Opened(config, row) = [view |-> view, config |-> config, body |-> body, onWire |-> FALSE, tries |-> 0,
                             saved |-> none, passed |-> none, told |-> none]
  BY <1>1 DEF Opened
<1>3. Opened(config, row) \in PageRow
  BY ONLY <1>1, <1>2, config \in Nat DEF PageRow
<1> QED BY <1>1, <1>2, <1>3

LEMMA OnboardingInitInv ==
  OnboardingInit => OnboardingInv
<1> SUFFICES ASSUME OnboardingInit PROVE OnboardingInv
  OBVIOUS
<1>1. PICK none, z, row : /\ none = NothingYet /\ none \in Contents /\ z = 0 /\ z \in Nat
                          /\ row = onboarding
  BY NoBodyIs
<1>2. row = [step |-> "profile", revision |-> z, profile |-> none, answers |-> none, consents |-> {}]
  BY <1>1 DEF OnboardingInit
<1>3. row \in OnboardingRow
  BY ONLY <1>1, <1>2 DEF OnboardingRow, OnboardingSteps
<1>4. policy = 1 /\ unheard = {} /\ ticked = {} /\ tab = [t \in Tabs |-> Opened(1, row)]
  BY <1>1 DEF OnboardingInit
<1>5. View(row).versions = {}
  BY <1>2, <1>3, ViewIs
<1>6. KnowsRow(View(row))
  BY <1>1, <1>3, <1>4, <1>5, ViewIs DEF KnowsRow, OnboardingRow
<1>7. PICK pane : pane = Opened(1, row) /\ pane \in PageRow /\ pane.view = View(row)
                  /\ pane.body.kind = "none" /\ pane.passed = NothingYet /\ pane.told = NothingYet
  BY <1>3, OpenedIs
<1>8. TabSound(pane)
  BY <1>6, <1>7 DEF TabSound, BodySound, Advancing
<1>9. tab \in [Tabs -> PageRow] /\ \A t \in Tabs : TabSound(tab[t])
  BY <1>4, <1>7, <1>8
<1>10. ConsentVersions = {}
  BY <1>1, <1>2 DEF ConsentVersions
<1> QED BY <1>1, <1>3, <1>4, <1>9, <1>10 DEF OnboardingInv

\* What a page and a request rely on, a transaction of another leaves.
LEMMA PagesStaySound ==
  ASSUME OnboardingInv, RowMoves, NEW pane \in PageRow, TabSound(pane)
  PROVE  TabSound(pane)'
<1>1. /\ onboarding.revision \in Nat /\ onboarding'.revision \in Nat
      /\ pane.view.revision \in Nat /\ pane.body.expected \in Nat
  BY DEF OnboardingInv, RowMoves, OnboardingRow, PageRow, ViewOfRow, BodyRow
<1>2. KnowsRow(pane.view)'
  BY <1>1 DEF TabSound, KnowsRow, RowMoves
<1>3. BodySound(pane.body)'
  BY <1>1 DEF TabSound, BodySound, RowMoves
<1>4. \A kind, from : kind # from /\ Advancing(pane, kind, from) => Advancing(pane, kind, from)'
  BY <1>1 DEF Advancing, RowMoves
<1>5. /\ pane.passed # NothingYet => /\ onboarding'.step \in {"level_survey", "completed"}
                                     /\ onboarding'.profile = pane.passed
      /\ pane.told # NothingYet =>
           onboarding'.step = "completed" /\ onboarding'.answers = pane.told
      /\ pane.body.kind \in {"draft", "consents", "level_survey"} => pane.config \in ticked'
  BY DEF TabSound, RowMoves
<1>6. "consents" # "profile" /\ "level_survey" # "consents"
  OBVIOUS
<1> QED BY <1>2, <1>3, <1>4, <1>5, <1>6 DEF TabSound

LEMMA BodiesStaySound ==
  ASSUME OnboardingInv, RowMoves, NEW b \in BodyRow, BodySound(b)
  PROVE  BodySound(b)'
<1>1. onboarding.revision \in Nat /\ onboarding'.revision \in Nat /\ b.expected \in Nat
  BY DEF OnboardingInv, RowMoves, OnboardingRow, BodyRow
<1> QED BY <1>1 DEF BodySound, RowMoves

LEMMA WithConsentIs ==
  ASSUME OnboardingInv, NEW version, NEW flow, version \in ticked
  PROVE  /\ WithConsent(version, flow) \in SUBSET Consents
         /\ \A c \in WithConsent(version, flow) : c.version \in ticked
BY DEF WithConsent, OnboardingInv, OnboardingRow, ConsentVersions

\* What the server does with a request, and the truth of its answer.
LEMMA RowAfterIs ==
  ASSUME OnboardingInv, NEW b \in BodyRow, BodySound(b), onboarding' = RowAfter(b), ticked' = ticked
  PROVE  /\ RowMoves
         /\ b.kind = "draft" /\ AnswerTo(b) = "ok" =>
              /\ onboarding'.revision = onboarding.revision + 1 /\ onboarding'.profile = b.value
         /\ Advances(b) /\ AnswerTo(b) = "ok" =>
              /\ onboarding'.step = b.kind /\ onboarding'.profile = onboarding.profile
              /\ \/ onboarding.revision = b.expected /\ onboarding.step = Before(b.kind)
                 \/ onboarding.revision = b.expected + 1 /\ onboarding.step = b.kind
         /\ b.kind = "complete" /\ AnswerTo(b) = "ok" =>
              onboarding'.step = "completed" /\ onboarding'.answers = b.value
<1>1. /\ onboarding \in OnboardingRow /\ onboarding.revision \in Nat /\ b.expected \in Nat
      /\ b.value \in Contents /\ ConsentVersions \subseteq ticked
  BY DEF OnboardingInv, OnboardingRow, BodyRow
<1>2. PICK n : n = onboarding.revision + 1 /\ n \in Nat
  BY <1>1
<1>3. CASE ~Accepts(b)
  <2>1. onboarding' = onboarding
    BY <1>3 DEF RowAfter
  <2>2. RowMoves
    BY <1>1, <2>1 DEF RowMoves, ConsentVersions
  <2>3. AnswerTo(b) = "ok" => AlreadyDone(b)
    BY <1>3 DEF AnswerTo
  <2>4. AlreadyDone(b) =>
          /\ b.kind # "draft"
          /\ Advances(b) => onboarding.step = b.kind /\ onboarding.revision = b.expected + 1
          /\ b.kind = "complete" => onboarding.step = "completed" /\ onboarding.answers = b.value
    BY DEF AlreadyDone, Advances
  <2> QED BY <2>1, <2>2, <2>3, <2>4
<1>4. CASE Accepts(b) /\ b.kind = "draft"
  <2>1. onboarding' = [onboarding EXCEPT !.revision = n, !.profile = b.value]
    BY <1>2, <1>4 DEF RowAfter
  <2>2. /\ onboarding' \in OnboardingRow /\ onboarding'.revision = n /\ onboarding'.profile = b.value
        /\ onboarding'.step = onboarding.step /\ onboarding'.consents = onboarding.consents
        /\ onboarding'.answers = onboarding.answers
    BY <1>1, <1>2, <2>1 DEF OnboardingRow
  <2>3. onboarding.step \in {"profile", "consents"}
    BY <1>1, <1>4 DEF Accepts, BodySound, Advances
  <2>4. RowMoves
    BY <1>1, <1>2, <2>2, <2>3 DEF RowMoves, ConsentVersions
  <2> QED BY <1>2, <1>4, <2>2, <2>4 DEF Advances
<1>5. CASE Accepts(b) /\ b.kind = "consents"
  <2>1. onboarding' = [onboarding EXCEPT !.revision = n, !.step = "consents"]
    BY <1>2, <1>5 DEF RowAfter
  <2>2. /\ onboarding' \in OnboardingRow /\ onboarding'.revision = n /\ onboarding'.step = "consents"
        /\ onboarding'.profile = onboarding.profile /\ onboarding'.consents = onboarding.consents
        /\ onboarding'.answers = onboarding.answers
    BY <1>1, <1>2, <2>1 DEF OnboardingRow, OnboardingSteps
  <2>3. onboarding.step = "profile" /\ onboarding.step = Before(b.kind) /\ onboarding.revision = b.expected
    BY <1>5 DEF Accepts, Advances, Before
  <2>4. RowMoves
    BY <1>1, <1>2, <2>2, <2>3 DEF RowMoves, ConsentVersions
  <2> QED BY <1>5, <2>2, <2>3, <2>4
<1>6. CASE Accepts(b) /\ b.kind \in {"level_survey", "complete", "accept"}
  <2>1. b.version = policy /\ policy \in ticked
    BY <1>6 DEF Accepts, Served, BodySound
  <2>2. PICK w, x : /\ w = WithConsent(policy, "tma_v1") /\ w \in SUBSET Consents
                    /\ x = WithConsent(policy, "tma_legal_reconsent_v1") /\ x \in SUBSET Consents
                    /\ \A c \in w \cup x : c.version \in ticked
    BY <2>1, WithConsentIs
  <2>3. \A k \in OnboardingRow : k.consents \in {w, x} => {c.version : c \in k.consents} \subseteq ticked
    BY <2>2
  <2>4. CASE b.kind = "level_survey"
    <3>1. onboarding' = [onboarding EXCEPT !.revision = n, !.step = "level_survey", !.consents = w]
      BY <1>2, <1>6, <2>2, <2>4 DEF RowAfter
    <3>2. /\ onboarding' \in OnboardingRow /\ onboarding'.revision = n /\ onboarding'.step = "level_survey"
          /\ onboarding'.profile = onboarding.profile /\ onboarding'.consents = w
          /\ onboarding'.answers = onboarding.answers
      BY <1>1, <1>2, <2>2, <3>1 DEF OnboardingRow, OnboardingSteps
    <3>3. onboarding.step = "consents" /\ onboarding.step = Before(b.kind) /\ onboarding.revision = b.expected
      BY <1>6, <2>4 DEF Accepts, Advances, Before
    <3>4. RowMoves
      BY <1>1, <1>2, <2>3, <3>2, <3>3 DEF RowMoves, ConsentVersions
    <3> QED BY <2>4, <3>2, <3>3, <3>4
  <2>5. CASE b.kind = "complete"
    <3>1. onboarding' = [onboarding EXCEPT !.revision = n, !.step = "completed", !.answers = b.value,
                                           !.consents = w]
      BY <1>2, <1>6, <2>2, <2>5 DEF RowAfter
    <3>2. /\ onboarding' \in OnboardingRow /\ onboarding'.revision = n /\ onboarding'.step = "completed"
          /\ onboarding'.profile = onboarding.profile /\ onboarding'.consents = w
          /\ onboarding'.answers = b.value
      BY <1>1, <1>2, <2>2, <3>1 DEF OnboardingRow, OnboardingSteps
    <3>3. onboarding.step = "level_survey"
      BY <1>6, <2>5 DEF Accepts, Advances
    <3>4. RowMoves
      BY <1>1, <1>2, <2>3, <3>2, <3>3 DEF RowMoves, ConsentVersions
    <3> QED BY <2>5, <3>2, <3>4 DEF Advances
  <2>6. CASE b.kind = "accept"
    <3>1. onboarding' = [onboarding EXCEPT !.consents = x]
      BY <1>6, <2>2, <2>6 DEF RowAfter
    <3>2. /\ onboarding' \in OnboardingRow /\ onboarding'.consents = x
          /\ onboarding'.revision = onboarding.revision /\ onboarding'.step = onboarding.step
          /\ onboarding'.profile = onboarding.profile /\ onboarding'.answers = onboarding.answers
      BY <1>1, <2>2, <3>1 DEF OnboardingRow
    <3>3. RowMoves
      BY <1>1, <2>3, <3>2 DEF RowMoves, ConsentVersions
    <3> QED BY <2>6, <3>3 DEF Advances
  <2> QED BY <1>6, <2>4, <2>5, <2>6
<1> QED BY <1>3, <1>4, <1>5, <1>6 DEF Accepts, Advances

\* The row moves for a request that no page hears.
LEMMA UnheardKeeps ==
  ASSUME OnboardingInv, RowMoves, policy' = policy, unheard' \subseteq unheard,
         tab' \in [Tabs -> PageRow], \A t \in Tabs : TabSound(tab'[t])
  PROVE  OnboardingInv'
<1>1. \A t \in Tabs : TabSound(tab[t])'
  <2> SUFFICES ASSUME NEW t \in Tabs PROVE TabSound(tab[t])'
    OBVIOUS
  <2>1. PICK pane : pane = tab'[t] /\ pane \in PageRow /\ TabSound(pane)
    OBVIOUS
  <2>2. TabSound(pane)'
    BY <2>1, PagesStaySound
  <2> QED BY <2>1, <2>2
<1>2. \A b \in unheard' : BodySound(b)'
  BY BodiesStaySound DEF OnboardingInv
<1> QED BY <1>1, <1>2 DEF OnboardingInv, RowMoves

\* A page that asks: its new body is sound, and it advances from what it saved.
LEMMA AskingIs ==
  ASSUME NEW pane \in PageRow, NEW b \in BodyRow
  PROVE  /\ Asking(pane, b) \in PageRow /\ Asking(pane, b).view = pane.view
         /\ Asking(pane, b).config = pane.config /\ Asking(pane, b).body = b
         /\ Asking(pane, b).saved = pane.saved /\ Asking(pane, b).passed = pane.passed
         /\ Asking(pane, b).told = pane.told
BY DEF Asking, PageRow

LEMMA IdleIs ==
  ASSUME NEW pane \in PageRow
  PROVE  /\ Idle(pane) \in PageRow /\ Idle(pane).view = pane.view /\ Idle(pane).config = pane.config
         /\ Idle(pane).body.kind = "none" /\ Idle(pane).passed = pane.passed
         /\ Idle(pane).told = pane.told
<1>1. PICK body, none : /\ body = NoBody /\ none = NothingYet
                        /\ body \in BodyRow /\ none \in Contents /\ body.kind = "none"
  BY NoBodyIs
<1>2. PICK z, no : z = 0 /\ z \in Nat /\ no = FALSE /\ no \in BOOLEAN
  OBVIOUS
<1>3. Idle(pane) = [pane EXCEPT !.body = body, !.onWire = no, !.tries = z, !.saved = none]
  BY <1>1, <1>2 DEF Idle
<1>4. Idle(pane) \in PageRow
  BY <1>1, <1>2, <1>3 DEF PageRow
<1> QED BY <1>1, <1>3, <1>4 DEF PageRow

\* A page that has no body relies on its view and on what it was told.
LEMMA QuietPage ==
  ASSUME NEW pane, pane.body.kind = "none", KnowsRow(pane.view)',
         pane.passed # NothingYet => /\ onboarding'.step \in {"level_survey", "completed"}
                                     /\ onboarding'.profile = pane.passed,
         pane.told # NothingYet => onboarding'.step = "completed" /\ onboarding'.answers = pane.told
  PROVE  TabSound(pane)'
BY DEF TabSound, BodySound, Advancing

\* The row as it is read now.
LEMMA FreshView ==
  ASSUME onboarding' \in OnboardingRow, ConsentVersions' \subseteq ticked', NEW view,
         view = View(onboarding')
  PROVE  /\ KnowsRow(view)' /\ view \in ViewOfRow
         /\ view.step = onboarding'.step /\ view.revision = onboarding'.revision
<1>1. PICK row : row = onboarding' /\ row \in OnboardingRow
  OBVIOUS
<1>2. /\ view \in ViewOfRow /\ view.step = row.step /\ view.revision = row.revision
      /\ view.versions = {c.version : c \in row.consents}
  BY <1>1, ViewIs
<1>3. row.revision \in Nat
  BY <1>1 DEF OnboardingRow
<1> QED BY <1>1, <1>2, <1>3 DEF KnowsRow, ConsentVersions

\* A page that goes on from what the last answer said.
LEMMA GoesOnSound ==
  ASSUME onboarding' \in OnboardingRow, NEW pane \in PageRow, NEW b, KnowsRow(pane.view)',
         pane.config \in ticked', pane.view.revision = onboarding'.revision,
         pane.view.step = onboarding'.step, pane.saved = onboarding'.profile,
         pane.passed # NothingYet => /\ onboarding'.step \in {"level_survey", "completed"}
                                     /\ onboarding'.profile = pane.passed,
         pane.told # NothingYet => onboarding'.step = "completed" /\ onboarding'.answers = pane.told
  PROVE  GoesOn(pane, pane.view, b) \in PageRow /\ TabSound(GoesOn(pane, pane.view, b))'
<1>1. PICK revision, none, config :
        /\ revision = pane.view.revision /\ none = NothingYet /\ config = pane.config
        /\ revision \in Nat /\ none \in Contents /\ config \in Nat /\ onboarding'.revision \in Nat
  BY NoBodyIs DEF PageRow, ViewOfRow, OnboardingRow
<1>2. PICK next : next = GoesOn(pane, pane.view, b)
  OBVIOUS
<1>3. CASE b.kind = "draft" /\ pane.view.step = "profile"
  <2>1. PICK body : body = Body("consents", revision, 0, none)
    OBVIOUS
  <2>2. /\ body \in BodyRow /\ body.kind = "consents" /\ body.expected = revision
    BY <1>1, <2>1 DEF Body, BodyRow
  <2>3. next = Asking(pane, body)
    BY <1>1, <1>2, <1>3, <2>1 DEF GoesOn
  <2>4. next \in PageRow /\ next.view = pane.view /\ next.config = pane.config /\ next.body = body
        /\ next.saved = pane.saved /\ next.passed = pane.passed /\ next.told = pane.told
    BY <2>2, <2>3, AskingIs
  <2>5. Advancing(next, "consents", "profile")' /\ Advancing(next, "level_survey", "consents")'
    BY <1>1, <1>3, <2>2, <2>4 DEF Advancing
  <2>6. BodySound(next.body)'
    BY <2>2, <2>4 DEF BodySound
  <2>7. TabSound(next)'
    BY <2>4, <2>5, <2>6 DEF TabSound
  <2> QED BY <1>2, <2>4, <2>7
<1>4. CASE b.kind \in {"draft", "consents"} /\ pane.view.step = "consents"
  <2>1. PICK body : body = Body("level_survey", revision, config, none)
    OBVIOUS
  <2>2. /\ body \in BodyRow /\ body.kind = "level_survey" /\ body.expected = revision
        /\ body.version = config
    BY <1>1, <2>1 DEF Body, BodyRow
  <2>3. next = Asking(pane, body)
    BY <1>1, <1>2, <1>4, <2>1 DEF GoesOn
  <2>4. next \in PageRow /\ next.view = pane.view /\ next.config = pane.config /\ next.body = body
        /\ next.saved = pane.saved /\ next.passed = pane.passed /\ next.told = pane.told
    BY <2>2, <2>3, AskingIs
  <2>5. Advancing(next, "consents", "profile")' /\ Advancing(next, "level_survey", "consents")'
    BY <1>1, <1>4, <2>2, <2>4 DEF Advancing
  <2>6. BodySound(next.body)'
    BY <1>1, <2>2, <2>4 DEF BodySound
  <2>7. TabSound(next)'
    BY <2>4, <2>5, <2>6 DEF TabSound
  <2> QED BY <1>2, <2>4, <2>7
<1>5. CASE /\ ~(b.kind = "draft" /\ pane.view.step = "profile")
           /\ ~(b.kind \in {"draft", "consents"} /\ pane.view.step = "consents")
  <2>1. next = Idle(pane)
    BY <1>2, <1>5 DEF GoesOn
  <2>2. next \in PageRow /\ next.view = pane.view /\ next.body.kind = "none"
        /\ next.passed = pane.passed /\ next.told = pane.told
    BY <2>1, IdleIs
  <2>3. TabSound(next)'
    BY <2>2, QuietPage
  <2> QED BY <1>2, <2>2, <2>3
<1> QED BY <1>3, <1>4, <1>5

\* The page hears what the server did.
LEMMA HeardSound ==
  ASSUME OnboardingInv, RowMoves, ticked' = ticked, NEW pane \in PageRow, TabSound(pane),
         onboarding' = RowAfter(pane.body),
         NEW next, next = Heard(pane, pane.body, onboarding', AnswerTo(pane.body))
  PROVE  next \in PageRow /\ TabSound(next)'
<1>1. PICK b, row, answer, view : /\ b = pane.body /\ row = onboarding' /\ answer = AnswerTo(b)
                                  /\ view = View(onboarding')
  OBVIOUS
<1>2. /\ onboarding' \in OnboardingRow /\ ConsentVersions' \subseteq ticked' /\ b \in BodyRow
      /\ BodySound(b) /\ b.value \in Contents
  BY <1>1 DEF RowMoves, PageRow, TabSound, BodyRow
<1>3. /\ KnowsRow(view)' /\ view \in ViewOfRow
      /\ view.step = onboarding'.step /\ view.revision = onboarding'.revision
  BY <1>1, <1>2, FreshView
<1>4. TabSound(pane)'
  BY PagesStaySound
<1>5. PICK known : known = [pane EXCEPT !.view = view]
  OBVIOUS
<1>6. /\ known \in PageRow /\ known.view = view /\ known.config = pane.config
      /\ known.saved = pane.saved /\ known.passed = pane.passed /\ known.told = pane.told
  BY <1>3, <1>5 DEF PageRow
<1>7. next = Heard(pane, b, row, answer)
  BY <1>1
<1>8. /\ pane.passed # NothingYet => /\ onboarding'.step \in {"level_survey", "completed"}
                                     /\ onboarding'.profile = pane.passed
      /\ pane.told # NothingYet => onboarding'.step = "completed" /\ onboarding'.answers = pane.told
      /\ KnowsRow(pane.view)'
  BY <1>4 DEF TabSound
<1>9. answer \in {"ok", "stale", "refused"}
  BY <1>1 DEF AnswerTo
<1>10. /\ b.kind = "draft" /\ answer = "ok" =>
            onboarding'.revision = onboarding.revision + 1 /\ onboarding'.profile = b.value
       /\ Advances(b) /\ answer = "ok" =>
            /\ onboarding'.step = b.kind /\ onboarding'.profile = onboarding.profile
            /\ \/ onboarding.revision = b.expected /\ onboarding.step = Before(b.kind)
               \/ onboarding.revision = b.expected + 1 /\ onboarding.step = b.kind
       /\ b.kind = "complete" /\ answer = "ok" =>
            onboarding'.step = "completed" /\ onboarding'.answers = b.value
  BY <1>1, <1>2, RowAfterIs
<1>11. b.kind \in {"draft", "consents", "level_survey"} => pane.config \in ticked'
  BY <1>1 DEF TabSound
<1>12. b.kind \in {"consents", "level_survey"} /\ answer = "ok" =>
         onboarding'.profile = pane.saved /\ onboarding'.step = b.kind
  BY <1>1, <1>10 DEF Advances, TabSound, Advancing, Before
<1>13. next \in PageRow /\ TabSound(next)'
  <2>1. CASE answer = "refused"
    <3>1. next = Idle(pane)
      BY <1>7, <2>1 DEF Heard
    <3> QED BY <1>8, <3>1, IdleIs, QuietPage
  <2>2. CASE answer = "stale" \/ (answer = "ok" /\ b.kind \in {"none", "accept"})
    <3>1. next = Idle(known)
      <4>1. CASE answer = "stale"
        BY <1>1, <1>5, <1>7, <4>1 DEF Heard
      <4>2. CASE answer = "ok" /\ b.kind = "none"
        BY <1>1, <1>5, <1>7, <4>2 DEF Heard
      <4>3. CASE answer = "ok" /\ b.kind = "accept"
        BY <1>1, <1>5, <1>7, <4>3 DEF Heard
      <4> QED BY <2>2, <4>1, <4>2, <4>3
    <3> QED BY <1>3, <1>6, <1>8, <3>1, IdleIs, QuietPage
  <2>3. CASE answer = "ok" /\ b.kind = "draft"
    <3>1. PICK saved : saved = [known EXCEPT !.saved = b.value]
      OBVIOUS
    <3>2. /\ saved \in PageRow /\ saved.view = view /\ saved.config = pane.config
          /\ saved.saved = b.value /\ saved.passed = pane.passed /\ saved.told = pane.told
      BY <1>2, <1>6, <3>1 DEF PageRow
    <3>3. next = GoesOn(saved, saved.view, b)
      BY <1>1, <1>5, <1>6, <1>7, <2>3, <3>1, <3>2 DEF Heard
    <3>4. saved.saved = onboarding'.profile /\ saved.config \in ticked'
      BY <1>10, <1>11, <2>3, <3>2
    <3> QED BY <1>2, <1>3, <1>8, <3>2, <3>3, <3>4, GoesOnSound
  <2>4. CASE answer = "ok" /\ b.kind = "consents"
    <3>1. next = GoesOn(known, known.view, b)
      BY <1>1, <1>5, <1>7, <2>4 DEF Heard
    <3>2. known.saved = onboarding'.profile /\ known.config \in ticked'
      BY <1>6, <1>11, <1>12, <2>4
    <3> QED BY <1>2, <1>3, <1>6, <1>8, <3>1, <3>2, GoesOnSound
  <2>5. CASE answer = "ok" /\ b.kind = "level_survey"
    <3>1. PICK passed : passed = [known EXCEPT !.passed = known.saved]
      OBVIOUS
    <3>2. /\ passed \in PageRow /\ passed.view = view /\ passed.told = pane.told
          /\ passed.passed = pane.saved
      BY <1>6, <3>1 DEF PageRow
    <3>3. next = Idle(passed)
      BY <1>1, <1>5, <1>7, <2>5, <3>1 DEF Heard
    <3>4. onboarding'.step = "level_survey" /\ onboarding'.profile = pane.saved
      BY <1>12, <2>5
    <3> QED BY <1>3, <1>8, <3>2, <3>3, <3>4, IdleIs, QuietPage
  <2>6. CASE answer = "ok" /\ b.kind = "complete"
    <3>1. PICK told : told = [known EXCEPT !.told = b.value]
      OBVIOUS
    <3>2. /\ told \in PageRow /\ told.view = view /\ told.told = b.value /\ told.passed = pane.passed
      BY <1>2, <1>6, <3>1 DEF PageRow
    <3>3. next = Idle(told)
      BY <1>1, <1>5, <1>7, <2>6, <3>1 DEF Heard
    <3> QED BY <1>3, <1>8, <1>10, <2>6, <3>2, <3>3, IdleIs, QuietPage
  <2>7. b.kind \in {"none", "draft", "consents", "level_survey", "complete", "accept"}
    BY <1>2 DEF BodyRow
  <2> QED BY <1>9, <2>1, <2>2, <2>3, <2>4, <2>5, <2>6, <2>7
<1> QED BY <1>13

LEMMA HandleKeeps ==
  ASSUME OnboardingInv, NEW t \in Tabs, Handle(t)
  PROVE  OnboardingInv'
<1>1. PICK pane : pane = tab[t] /\ pane \in PageRow /\ TabSound(pane)
  BY DEF OnboardingInv
<1>2. /\ onboarding' = RowAfter(pane.body) /\ UNCHANGED <<policy, unheard, ticked>>
      /\ pane.body \in BodyRow /\ BodySound(pane.body)
  BY <1>1 DEF Handle, PageRow, TabSound
<1>3. RowMoves
  BY <1>2, RowAfterIs
<1>4. PICK next : next = Heard(pane, pane.body, onboarding', AnswerTo(pane.body))
  OBVIOUS
<1>5. next \in PageRow /\ TabSound(next)' /\ tab' = [tab EXCEPT ![t] = next]
  <2>1. next \in PageRow /\ TabSound(next)'
    BY <1>1, <1>2, <1>3, <1>4, HeardSound
  <2>2. tab' = [tab EXCEPT ![t] = next]
    BY <1>1, <1>4 DEF Handle
  <2> QED BY <2>1, <2>2
<1>6. tab' \in [Tabs -> PageRow] /\ tab'[t] = next /\ \A u \in Tabs \ {t} : tab'[u] = tab[u]
  BY <1>5 DEF OnboardingInv
<1>7. ASSUME NEW u \in Tabs, u # t PROVE TabSound(tab[u])'
  <2>1. PICK other : other = tab[u] /\ other \in PageRow /\ TabSound(other)
    BY DEF OnboardingInv
  <2>2. TabSound(other)' /\ other = tab'[u]
    BY <1>3, <1>6, <1>7, <2>1, PagesStaySound
  <2> QED BY <2>2
<1>8. \A b \in unheard' : BodySound(b)'
  BY <1>2, <1>3, BodiesStaySound DEF OnboardingInv
<1>9. TabSound(tab[t])'
  BY <1>5, <1>6
<1> QED BY <1>2, <1>3, <1>6, <1>7, <1>8, <1>9 DEF OnboardingInv, RowMoves

\* One page moves, and the row does not.
LEMMA PageMoves ==
  ASSUME OnboardingInv, NEW t \in Tabs, NEW next \in PageRow, tab' = [tab EXCEPT ![t] = next],
         UNCHANGED <<onboarding, policy>>, ticked \subseteq ticked', TabSound(next)',
         unheard' \subseteq unheard \cup {tab[t].body}
  PROVE  OnboardingInv'
<1>1. RowMoves
  BY DEF RowMoves, OnboardingInv, ConsentVersions, OnboardingRow
<1>2. tab' \in [Tabs -> PageRow] /\ tab'[t] = next /\ \A u \in Tabs \ {t} : tab'[u] = tab[u]
  BY DEF OnboardingInv
<1>3. ASSUME NEW u \in Tabs, u # t PROVE TabSound(tab[u])'
  <2>1. PICK other : other = tab[u] /\ other \in PageRow /\ TabSound(other)
    BY DEF OnboardingInv
  <2>2. TabSound(other)' /\ other = tab'[u]
    BY <1>1, <1>2, <1>3, <2>1, PagesStaySound
  <2> QED BY <2>2
<1>4. tab[t].body \in BodyRow /\ BodySound(tab[t].body)
  BY DEF OnboardingInv, TabSound, PageRow
<1>5. \A b \in unheard' : b \in BodyRow /\ BodySound(b)
  BY <1>4 DEF OnboardingInv
<1>6. \A b \in unheard' : BodySound(b)'
  BY <1>1, <1>5, BodiesStaySound
<1>7. TabSound(tab[t])'
  BY <1>2
<1> QED BY <1>1, <1>2, <1>3, <1>5, <1>6, <1>7 DEF OnboardingInv, RowMoves

LEMMA PressKeeps ==
  ASSUME OnboardingInv, NEW t \in Tabs,
         \/ \E p \in Profiles : Continue(t, p)
         \/ \E a \in Surveys : Finish(t, a)
         \/ Reaccept(t)
  PROVE  OnboardingInv'
<1>1. PICK pane : pane = tab[t] /\ pane \in PageRow /\ TabSound(pane)
  BY DEF OnboardingInv
<1>2. PICK revision, config, none :
        /\ revision = pane.view.revision /\ config = pane.config /\ none = NothingYet
        /\ revision \in Nat /\ config \in Nat /\ none \in Contents
  BY <1>1, NoBodyIs DEF PageRow, ViewOfRow
<1>3. PICK b : /\ b \in BodyRow /\ tab' = [tab EXCEPT ![t] = Asking(pane, b)]
               /\ b.kind \in {"draft", "complete", "accept"}
               /\ b.kind # "draft" => b.version \in ticked'
               /\ b.kind = "draft" => /\ config \in ticked' /\ b.expected = revision
                                      /\ pane.view.step \in {"profile", "consents"}
  <2>1. ASSUME NEW p \in Profiles, Continue(t, p) 
        PROVE  \E b \in BodyRow : /\ tab' = [tab EXCEPT ![t] = Asking(pane, b)]
                                  /\ b.kind = "draft" /\ b.expected = revision
                                  /\ config \in ticked' /\ pane.view.step \in {"profile", "consents"}
    <3>1. PICK b : b = Body("draft", revision, 0, p)
      OBVIOUS
    <3>2. b \in BodyRow /\ b.kind = "draft" /\ b.expected = revision
      BY <1>2, <3>1 DEF Body, BodyRow, Contents
    <3>3. tab' = [tab EXCEPT ![t] = Asking(pane, b)]
      BY <1>1, <1>2, <2>1, <3>1 DEF Continue
    <3>4. config \in ticked' /\ pane.view.step \in {"profile", "consents"}
      BY <1>1, <1>2, <2>1 DEF Continue
    <3> QED BY <3>2, <3>3, <3>4
  <2>2. ASSUME NEW a \in Surveys, Finish(t, a)
        PROVE  \E b \in BodyRow : /\ tab' = [tab EXCEPT ![t] = Asking(pane, b)]
                                  /\ b.kind = "complete" /\ b.version \in ticked'
    <3>1. PICK b : b = Body("complete", revision, config, a)
      OBVIOUS
    <3>2. b \in BodyRow /\ b.kind = "complete" /\ b.version = config
      BY <1>2, <3>1 DEF Body, BodyRow, Contents
    <3>3. tab' = [tab EXCEPT ![t] = Asking(pane, b)]
      BY <1>1, <1>2, <2>2, <3>1 DEF Finish
    <3>4. config \in ticked'
      BY <1>1, <1>2, <2>2 DEF Finish, CanComplete, TabSound, KnowsRow
    <3> QED BY <3>2, <3>3, <3>4
  <2>3. ASSUME Reaccept(t)
        PROVE  \E b \in BodyRow : /\ tab' = [tab EXCEPT ![t] = Asking(pane, b)]
                                  /\ b.kind = "accept" /\ b.version \in ticked'
    <3>1. PICK b : b = Body("accept", 0, config, none)
      OBVIOUS
    <3>2. b \in BodyRow /\ b.kind = "accept" /\ b.version = config
      BY <1>2, <3>1 DEF Body, BodyRow
    <3>3. tab' = [tab EXCEPT ![t] = Asking(pane, b)] /\ config \in ticked'
      BY <1>1, <1>2, <2>3, <3>1 DEF Reaccept
    <3> QED BY <3>2, <3>3
  <2> QED BY <2>1, <2>2, <2>3
<1>4. UNCHANGED <<onboarding, policy, unheard>> /\ ticked \subseteq ticked'
  BY DEF Continue, Finish, Reaccept
<1>5. RowMoves
  BY <1>4 DEF RowMoves, OnboardingInv, ConsentVersions, OnboardingRow
<1>6. TabSound(pane)'
  BY <1>1, <1>5, PagesStaySound
<1>7. PICK next : next = Asking(pane, b)
  OBVIOUS
<1>8. /\ next \in PageRow /\ next.view = pane.view /\ next.config = pane.config /\ next.body = b
      /\ next.passed = pane.passed /\ next.told = pane.told
  BY <1>1, <1>3, <1>7, AskingIs
<1>9. BodySound(b)'
  BY <1>1, <1>2, <1>3, <1>6 DEF BodySound, TabSound, KnowsRow
<1>10. TabSound(next)'
  BY <1>2, <1>3, <1>6, <1>8, <1>9 DEF TabSound, Advancing
<1>11. tab' = [tab EXCEPT ![t] = next]
  BY <1>3, <1>7
<1> QED BY <1>4, <1>8, <1>10, <1>11, PageMoves

LEMMA ReloadKeeps ==
  ASSUME OnboardingInv, NEW t \in Tabs, Reload(t)
  PROVE  OnboardingInv'
<1>1. PICK pane, view : pane = tab[t] /\ pane \in PageRow /\ TabSound(pane) /\ view = View(onboarding')
  BY DEF OnboardingInv
<1>2. /\ UNCHANGED <<onboarding, policy, unheard, ticked>> /\ pane.body = NoBody
  BY <1>1 DEF Reload, Waits
<1>3. ConsentVersions' \subseteq ticked' /\ onboarding' \in OnboardingRow
  BY <1>2 DEF OnboardingInv, ConsentVersions
<1>4. KnowsRow(view)' /\ view \in ViewOfRow
  BY <1>1, <1>3, FreshView
<1>5. PICK next : next = [pane EXCEPT !.view = view] /\ tab' = [tab EXCEPT ![t] = next]
  BY <1>1, <1>2 DEF Reload
<1>6. /\ next \in PageRow /\ next.view = view /\ next.body.kind = "none" /\ next.passed = pane.passed
      /\ next.told = pane.told
  BY <1>1, <1>2, <1>4, <1>5, NoBodyIs DEF PageRow
<1>7. TabSound(next)'
  BY <1>1, <1>2, <1>4, <1>6, QuietPage DEF TabSound
<1> QED BY <1>2, <1>5, <1>6, <1>7, PageMoves

\* A request is sent again, given up, or its page opened again.
LEMMA StopKeeps ==
  ASSUME OnboardingInv, NEW t \in Tabs, SendAgain(t) \/ StopTrying(t) \/ OpenAgain(t)
  PROVE  OnboardingInv'
<1>1. PICK pane : pane = tab[t] /\ pane \in PageRow /\ TabSound(pane)
  BY DEF OnboardingInv
<1>2. UNCHANGED <<onboarding, policy, ticked>> /\ unheard' \subseteq unheard \cup {tab[t].body}
  BY DEF SendAgain, StopTrying, OpenAgain, StopsListening
<1>3. RowMoves
  BY <1>2 DEF RowMoves, OnboardingInv, ConsentVersions, OnboardingRow
<1>4. TabSound(pane)'
  BY <1>1, <1>3, PagesStaySound
<1>5. CASE SendAgain(t)
  <2>1. PICK n : n = pane.tries + 1 /\ n \in Nat
    BY <1>1 DEF PageRow
  <2>2. PICK next : next = [pane EXCEPT !.onWire = TRUE, !.tries = n] /\ tab' = [tab EXCEPT ![t] = next]
    BY <1>1, <1>5, <2>1 DEF SendAgain
  <2>3. /\ next \in PageRow /\ next.view = pane.view /\ next.body = pane.body /\ next.config = pane.config
        /\ next.saved = pane.saved /\ next.passed = pane.passed /\ next.told = pane.told
    BY <1>1, <2>1, <2>2 DEF PageRow
  <2>4. TabSound(next)'
    BY <1>4, <2>3 DEF TabSound, Advancing
  <2> QED BY <1>2, <2>2, <2>3, <2>4, PageMoves
<1>6. CASE StopTrying(t)
  <2>1. PICK next : next = Idle(pane) /\ tab' = [tab EXCEPT ![t] = next]
    BY <1>1, <1>6 DEF StopTrying
  <2>2. next \in PageRow /\ TabSound(next)'
    BY <1>1, <1>4, <2>1, IdleIs, QuietPage DEF TabSound
  <2> QED BY <1>2, <2>1, <2>2, PageMoves
<1>7. CASE OpenAgain(t)
  <2>1. PICK next, row, config : /\ next = Opened(config, row) /\ row = onboarding' /\ config = policy
                                 /\ tab' = [tab EXCEPT ![t] = next]
    BY <1>2, <1>7 DEF OpenAgain
  <2>2. row \in OnboardingRow /\ config \in Nat /\ ConsentVersions' \subseteq ticked'
    BY <1>2, <2>1 DEF OnboardingInv, ConsentVersions
  <2>3. /\ next \in PageRow /\ next.view = View(row) /\ next.body.kind = "none"
        /\ next.passed = NothingYet /\ next.told = NothingYet
    BY <2>1, <2>2, OpenedIs
  <2>4. PICK view : view = View(onboarding') /\ view = next.view
    BY <2>1, <2>3
  <2>5. KnowsRow(view)'
    BY <2>1, <2>2, <2>4, FreshView
  <2>6. TabSound(next)'
    BY <2>3, <2>4, <2>5, QuietPage
  <2> QED BY <1>2, <2>1, <2>3, <2>6, PageMoves
<1> QED BY <1>5, <1>6, <1>7

LEMMA HandleUnheardKeeps ==
  ASSUME OnboardingInv, NEW t \in Tabs, HandleUnheard(t)
  PROVE  OnboardingInv'
<1>1. PICK pane : pane = tab[t] /\ pane \in PageRow /\ TabSound(pane)
  BY DEF OnboardingInv
<1>2. /\ onboarding' = RowAfter(pane.body) /\ UNCHANGED <<policy, unheard, ticked>>
      /\ pane.body \in BodyRow /\ BodySound(pane.body)
  BY <1>1 DEF HandleUnheard, PageRow, TabSound
<1>3. RowMoves
  BY <1>2, RowAfterIs
<1>4. PICK next : next = [pane EXCEPT !.onWire = FALSE] /\ tab' = [tab EXCEPT ![t] = next]
  BY <1>1 DEF HandleUnheard
<1>5. /\ next \in PageRow /\ next.view = pane.view /\ next.body = pane.body /\ next.config = pane.config
      /\ next.saved = pane.saved /\ next.passed = pane.passed /\ next.told = pane.told
  BY <1>1, <1>4 DEF PageRow
<1>6. TabSound(next)
  BY <1>1, <1>5 DEF TabSound, Advancing
<1>7. tab' \in [Tabs -> PageRow] /\ \A u \in Tabs : TabSound(tab'[u])
  BY <1>4, <1>5, <1>6 DEF OnboardingInv
<1> QED BY <1>2, <1>3, <1>7, UnheardKeeps

LEMMA HandleLateKeeps ==
  ASSUME OnboardingInv, NEW b \in unheard, HandleLate(b)
  PROVE  OnboardingInv'
<1>1. b \in BodyRow /\ BodySound(b) /\ onboarding' = RowAfter(b) /\ ticked' = ticked
  BY DEF HandleLate, OnboardingInv
<1>2. RowMoves
  BY <1>1, RowAfterIs
<1> QED BY <1>2, UnheardKeeps DEF HandleLate, OnboardingInv

LEMMA PublishKeeps ==
  ASSUME OnboardingInv, PublishDocuments
  PROVE  OnboardingInv'
BY DEF PublishDocuments, OnboardingInv, ConsentVersions, TabSound, KnowsRow, BodySound, Advancing

LEMMA OnboardingStep ==
  OnboardingInv /\ [OnboardingNext]_onboardingVars => OnboardingInv'
<1> SUFFICES ASSUME OnboardingInv, [OnboardingNext]_onboardingVars PROVE OnboardingInv'
  OBVIOUS
<1>1. CASE UNCHANGED onboardingVars
  BY <1>1 DEF onboardingVars, OnboardingInv, ConsentVersions, TabSound, KnowsRow, BodySound, Advancing
<1> QED BY <1>1, PressKeeps, ReloadKeeps, HandleKeeps, HandleUnheardKeeps, StopKeeps, HandleLateKeeps,
           PublishKeeps DEF OnboardingNext

\* The server records no consent that was not ticked in that version, and a page
\* was told the truth of the profile it came through with and of its answers.
THEOREM OnboardingIsAlwaysTrue == OnboardingSpec => []OnboardingIsTrue
<1>1. OnboardingInv => OnboardingIsTrue
  BY DEF OnboardingInv, OnboardingIsTrue, ConsentsWereTicked, PagesWereToldTheTruth, ConsentVersions,
         TabSound
<1> QED BY <1>1, OnboardingInitInv, OnboardingStep, PTL DEF OnboardingSpec

\* A page runs some version of the build, and repeats a request within its bound.
PaneFits(pane) == pane.config \in Versions /\ pane.tries \in 0..MaxRequests
OnboardingTyped ==
  /\ policy \in Versions /\ ticked \subseteq Versions
  /\ \A t \in Tabs : PaneFits(tab[t])

LEMMA AskingFits ==
  ASSUME NEW pane, {"config", "tries"} \subseteq DOMAIN pane, NEW b
  PROVE  Asking(pane, b).config = pane.config /\ Asking(pane, b).tries = 1
BY DEF Asking

LEMMA IdleFits ==
  ASSUME NEW pane, {"config", "tries"} \subseteq DOMAIN pane
  PROVE  Idle(pane).config = pane.config /\ Idle(pane).tries = 0
BY DEF Idle

LEMMA AnsweredPaneFits ==
  ASSUME NEW pane, {"config", "tries", "view", "saved", "passed", "told"} \subseteq DOMAIN pane, NEW b, NEW row, NEW answer
  PROVE  /\ Heard(pane, b, row, answer).config = pane.config
         /\ Heard(pane, b, row, answer).tries \in {0, 1}
<1>1. PICK known : known = [pane EXCEPT !.view = View(row)]
  OBVIOUS
<1>2. PICK saved : saved = [known EXCEPT !.saved = b.value]
  OBVIOUS
<1>3. PICK passed : passed = [known EXCEPT !.passed = known.saved]
  OBVIOUS
<1>4. PICK told : told = [known EXCEPT !.told = b.value]
  OBVIOUS
<1>5. \A each \in {pane, known, saved, passed, told} :
        each.config = pane.config /\ {"config", "tries"} \subseteq DOMAIN each
  BY <1>1, <1>2, <1>3, <1>4
<1>6. ASSUME NEW each \in {pane, known, saved, passed, told}
      PROVE  Idle(each).config = pane.config /\ Idle(each).tries \in {0, 1}
  BY <1>5, IdleFits
<1>7. ASSUME NEW each \in {known, saved}, NEW view
      PROVE  GoesOn(each, view, b).config = pane.config /\ GoesOn(each, view, b).tries \in {0, 1}
  <2>1. ASSUME NEW next PROVE Asking(each, next).config = pane.config /\ Asking(each, next).tries \in {0, 1}
    BY <1>5, AskingFits
  <2>2. CASE b.kind = "draft" /\ view.step = "profile"
    BY <2>1, <2>2 DEF GoesOn
  <2>3. CASE b.kind \in {"draft", "consents"} /\ view.step = "consents"
    BY <2>1, <2>3 DEF GoesOn
  <2>4. CASE ~(b.kind = "draft" /\ view.step = "profile")
             /\ ~(b.kind \in {"draft", "consents"} /\ view.step = "consents")
    <3>1. GoesOn(each, view, b) = Idle(each)
      BY <2>4 DEF GoesOn
    <3> QED BY <1>6, <3>1
  <2> QED BY <2>2, <2>3, <2>4
<1>8. PICK next : next = Heard(pane, b, row, answer)
  OBVIOUS
<1>9. CASE answer \in {"refused", "stale"}
  <2>1. next = Idle(pane) \/ next = Idle(known)
    BY <1>1, <1>8, <1>9 DEF Heard
  <2> QED BY <1>6, <1>8, <2>1
<1>10. CASE answer \notin {"refused", "stale"}
  <2>1. CASE b.kind = "draft"
    <3>1. next = GoesOn(saved, known.view, b)
      BY <1>1, <1>2, <1>8, <1>10, <2>1 DEF Heard
    <3> QED BY <1>7, <1>8, <3>1
  <2>2. CASE b.kind = "consents"
    <3>1. next = GoesOn(known, known.view, b)
      BY <1>1, <1>8, <1>10, <2>2 DEF Heard
    <3> QED BY <1>7, <1>8, <3>1
  <2>3. CASE b.kind = "level_survey"
    <3>1. next = Idle(passed)
      BY <1>1, <1>3, <1>8, <1>10, <2>3 DEF Heard
    <3> QED BY <1>6, <1>8, <3>1
  <2>4. CASE b.kind = "complete"
    <3>1. next = Idle(told)
      BY <1>1, <1>4, <1>8, <1>10, <2>4 DEF Heard
    <3> QED BY <1>6, <1>8, <3>1
  <2>5. CASE b.kind \notin {"draft", "consents", "level_survey", "complete"}
    <3>1. next = Idle(known)
      BY <1>1, <1>8, <1>10, <2>5 DEF Heard
    <3> QED BY <1>6, <1>8, <3>1
  <2> QED BY <2>1, <2>2, <2>3, <2>4, <2>5
<1> QED BY <1>9, <1>10

LEMMA OnboardingTypesHold ==
  ASSUME OnboardingInv, OnboardingTyped, [OnboardingNext]_onboardingVars PROVE OnboardingTyped'
<1>0. /\ tab \in [Tabs -> PageRow] /\ policy \in Versions /\ ticked \subseteq Versions
      /\ MaxRequests \in Nat /\ 1 \in 0..MaxRequests /\ 0 \in 0..MaxRequests
      /\ \A t \in Tabs : PaneFits(tab[t])
  BY OnboardingAssumption DEF OnboardingInv, OnboardingTyped
<1>1. ASSUME NEW t \in Tabs
      PROVE  {"config", "tries", "view", "saved", "passed", "told"} \subseteq DOMAIN tab[t]
  BY <1>0 DEF PageRow
<1>2. ASSUME NEW t \in Tabs, NEW next, tab' = [tab EXCEPT ![t] = next], PaneFits(next),
             policy' = policy, ticked' = ticked \/ ticked' = ticked \cup {tab[t].config}
      PROVE  OnboardingTyped'
  <2>1. ticked' \subseteq Versions
    BY <1>0, <1>2 DEF PaneFits
  <2>2. \A u \in Tabs : tab'[u] = next \/ tab'[u] = tab[u]
    BY <1>0, <1>2
  <2>3. \A u \in Tabs : PaneFits(tab'[u])
    BY <1>0, <1>2, <2>2
  <2> QED BY <1>0, <1>2, <2>1, <2>3 DEF OnboardingTyped, PaneFits
<1>3. ASSUME NEW t \in Tabs, NEW b PROVE PaneFits(Asking(tab[t], b))
  BY <1>0, <1>1, AskingFits DEF PaneFits
<1>4. ASSUME NEW t \in Tabs, NEW b, tab' = [tab EXCEPT ![t] = Asking(tab[t], b)],
             policy' = policy, ticked' = ticked \/ ticked' = ticked \cup {tab[t].config}
      PROVE  OnboardingTyped'
  <2>1. PICK next : next = Asking(tab[t], b)
    OBVIOUS
  <2> QED BY <1>2, <1>3, <1>4, <2>1
<1>5. ASSUME NEW t \in Tabs,
             (\E p \in Profiles : Continue(t, p)) \/ (\E a \in Surveys : Finish(t, a)) \/ Reaccept(t)
      PROVE  OnboardingTyped'
  BY <1>4, <1>5 DEF Continue, Finish, Reaccept
<1>6. ASSUME NEW t \in Tabs, Reload(t) PROVE OnboardingTyped'
  <2>1. PICK next : next = [tab[t] EXCEPT !.view = View(onboarding)]
    OBVIOUS
  <2>2. next.config = tab[t].config /\ next.tries = tab[t].tries
    BY <1>1, <2>1
  <2>3. PaneFits(next)
    BY <1>0, <2>2 DEF PaneFits
  <2>4. tab' = [tab EXCEPT ![t] = next]
    BY <1>6, <2>1 DEF Reload
  <2> QED BY <1>2, <1>6, <2>3, <2>4 DEF Reload
<1>7. ASSUME NEW t \in Tabs, Handle(t) PROVE OnboardingTyped'
  <2>1. PICK next : next = Heard(tab[t], tab[t].body, onboarding', AnswerTo(tab[t].body))
    OBVIOUS
  <2>2. next.config = tab[t].config /\ next.tries \in {0, 1}
    BY <1>1, <2>1, AnsweredPaneFits
  <2>3. PaneFits(next)
    BY <1>0, <2>2 DEF PaneFits
  <2>4. tab' = [tab EXCEPT ![t] = next]
    BY <1>7, <2>1 DEF Handle
  <2> QED BY <1>2, <1>7, <2>3, <2>4 DEF Handle
<1>8. ASSUME NEW t \in Tabs, HandleUnheard(t) PROVE OnboardingTyped'
  <2>1. PICK no : no = FALSE
    OBVIOUS
  <2>2. PICK next : next = [tab[t] EXCEPT !.onWire = no]
    OBVIOUS
  <2>3. next.config = tab[t].config /\ next.tries = tab[t].tries
    BY <1>1, <2>2
  <2>4. PaneFits(next)
    BY <1>0, <2>3 DEF PaneFits
  <2>5. tab' = [tab EXCEPT ![t] = next]
    BY <1>8, <2>1, <2>2 DEF HandleUnheard
  <2> QED BY <1>2, <1>8, <2>4, <2>5 DEF HandleUnheard
<1>9. ASSUME NEW t \in Tabs, SendAgain(t) PROVE OnboardingTyped'
  <2>1. PICK yes, n : yes = TRUE /\ n = tab[t].tries + 1 /\ n \in 0..MaxRequests
    <3>1. tab[t].tries + 1 \in 0..MaxRequests
      BY <1>0, <1>9 DEF SendAgain, PaneFits
    <3> QED BY <3>1
  <2>2. PICK next : next = [tab[t] EXCEPT !.onWire = yes, !.tries = n]
    OBVIOUS
  <2>3. next.config = tab[t].config /\ next.tries = n
    BY <1>0, <2>2 DEF PageRow
  <2>4. PaneFits(next)
    BY <1>0, <2>1, <2>3 DEF PaneFits
  <2>5. tab' = [tab EXCEPT ![t] = next]
    BY <1>0, <1>9, <2>1, <2>2 DEF SendAgain
  <2> QED BY <1>2, <1>9, <2>4, <2>5 DEF SendAgain
<1>10. ASSUME NEW t \in Tabs, StopTrying(t) PROVE OnboardingTyped'
  <2>1. PICK next : next = Idle(tab[t])
    OBVIOUS
  <2>2. PaneFits(next)
    BY <1>0, <1>1, <2>1, IdleFits DEF PaneFits
  <2> QED BY <1>2, <1>10, <2>1, <2>2 DEF StopTrying
<1>11. ASSUME NEW t \in Tabs, OpenAgain(t) PROVE OnboardingTyped'
  <2>1. PICK next : next = Opened(policy, onboarding)
    OBVIOUS
  <2>2. next.config = policy /\ next.tries = 0
    BY <2>1 DEF Opened
  <2>3. PaneFits(next)
    BY <1>0, <2>2 DEF PaneFits
  <2> QED BY <1>2, <1>11, <2>1, <2>3 DEF OpenAgain
<1>12. CASE PublishDocuments
  <2>1. policy' \in Versions
    BY <1>0, <1>12, OnboardingAssumption DEF PublishDocuments, Versions
  <2> QED BY <1>0, <1>12, <2>1 DEF PublishDocuments, OnboardingTyped
<1>13. CASE UNCHANGED <<policy, tab, ticked>>
  BY <1>0, <1>13 DEF OnboardingTyped
<1> QED BY <1>5, <1>6, <1>7, <1>8, <1>9, <1>10, <1>11, <1>12, <1>13
        DEF OnboardingNext, HandleLate, onboardingVars

\* OnboardingTypeOK, of every number of pages, versions and requests.
THEOREM OnboardingIsTyped == OnboardingSpec => []OnboardingTypeOK
<1>1. OnboardingInit => OnboardingTyped
  <2> SUFFICES ASSUME OnboardingInit PROVE OnboardingTyped
    OBVIOUS
  <2>1. 1 \in Versions /\ 0 \in 0..MaxRequests
    BY OnboardingAssumption DEF Versions
  <2>2. \A t \in Tabs : tab[t].config = 1 /\ tab[t].tries = 0
    BY DEF OnboardingInit, Opened
  <2> QED BY <2>1, <2>2 DEF OnboardingInit, OnboardingTyped, PaneFits
<1>2. OnboardingInv /\ OnboardingTyped => OnboardingTypeOK
  <2> SUFFICES ASSUME OnboardingInv, OnboardingTyped PROVE OnboardingTypeOK
    OBVIOUS
  <2>1. onboarding \in OnboardingRow
    BY DEF OnboardingInv
  <2> QED BY <2>1 DEF OnboardingTyped, PaneFits, OnboardingRow, OnboardingSteps, OnboardingTypeOK
<1> QED BY <1>1, <1>2, OnboardingInitInv, OnboardingStep, OnboardingTypesHold, PTL DEF OnboardingSpec
=============================================================================
