---------------------------- MODULE TelegramLogin ----------------------------
(***************************************************************************)
(* The login of a Telegram user: a request carries a key the client made   *)
(* and a proof Telegram signed.  It runs three transactions: the operation *)
(* and the consumption of the proof; the account; the session.  The ids of *)
(* everything it writes are computed from the key and the proof, and its   *)
(* timestamps from the second it started in.  Between the transactions     *)
(* other requests run, staff block accounts, and the process may stop.     *)
(***************************************************************************)
EXTENDS Integers, FiniteSets

CONSTANTS Logins,       \* requests
          Keys,         \* request keys
          Proofs,       \* signed proofs
          Owner,        \* the Telegram user of each proof
          Returning,    \* users who may have an account already
          LastSecond    \* the clock's bound

ASSUME LoginAssumption ==
  /\ LastSecond \in Nat /\ DOMAIN Owner = Proofs
  /\ Returning \subseteq {Owner[p] : p \in Proofs}

VARIABLES
  operations,   \* authentication_operations with telegram_proof_consumptions
  noted,        \* security_audit_events of the proof consumption
  accounts,     \* accounts with their external identity
  blocked,      \* accounts that are not active
  sessions,     \* auth_session_families with their first credential
  login,        \* where each request is
  second        \* the clock

loginVars == <<operations, noted, accounts, blocked, sessions, login, second>>

NoAccount == <<>>
Resolved(type, account) == [type |-> type, account |-> account]
Unresolved == Resolved("none", NoAccount)

Ids == Keys \X Proofs
AccountIds == Ids \cup {<<u>> : u \in Returning}

\* The rows, as they are read back.
Resolution == [type : {"none", "new", "existing", "blocked"},
               account : AccountIds \cup {NoAccount}]
OperationRow == [id : Ids, at : 0..LastSecond, status : {"pending", "completed"},
                 resolution : Resolution]
AuditRow == [id : Ids, at : 0..LastSecond,
             outcome : {"created", "request_conflict", "proof_replayed"}]
SessionRow == [operation : Ids, account : AccountIds, credential : Logins]

LoginInit ==
  /\ operations = {} /\ noted = {} /\ blocked = {} /\ sessions = {}
  /\ accounts \in SUBSET {[id |-> <<u>>, user |-> u] : u \in Returning}
  /\ login = [r \in Logins |-> [pc |-> "unsent"]]
  /\ second = 0

-----------------------------------------------------------------------------
Id(r) == <<login[r].key, login[r].proof>>
User(r) == Owner[login[r].proof]

Go(r, pc) == login' = [login EXCEPT ![r].pc = pc]
LoginAnswered(r, reason) == Go(r, reason)
Abort(r, reason) ==
  LoginAnswered(r, reason) /\ UNCHANGED <<operations, noted, accounts, blocked, sessions, second>>

\* A transaction commits and goes on, or commits and is reported as failed;
\* a process that stops after it, or before it, leaves the same rows.
Committed(r, next) == Go(r, next) \/ Go(r, "unavailable")

SendLogin(r, k, p) ==
  /\ login[r].pc = "unsent"
  /\ login' = [login EXCEPT ![r] = [pc |-> "pending", key |-> k, proof |-> p,
                                    now |-> second, account |-> NoAccount]]
  /\ UNCHANGED <<operations, noted, accounts, blocked, sessions, second>>

-----------------------------------------------------------------------------
(* The first transaction.                                                  *)

SameKey(r) == {o \in operations : o.id[1] = login[r].key}
SameProof(r) == {o \in operations : o.id[2] = login[r].proof}

ExactRetry(r) == \E o \in operations : o.id = Id(r) /\ o.at = login[r].now

\* What the transaction finds, and writes to the audit.
Found(r) == IF SameKey(r) \cup SameProof(r) = {} THEN "created"
            ELSE IF ExactRetry(r) THEN "created"
            ELSE IF SameKey(r) # {} THEN "request_conflict" ELSE "proof_replayed"

NewRow(r) == {[id |-> Id(r), at |-> login[r].now, status |-> "pending", resolution |-> Unresolved]}

Event(r) == [id |-> Id(r), outcome |-> Found(r), at |-> login[r].now]

\* An audit event with this id may exist only with the same contents.
AuditAgrees(r) == \A e \in noted : e.id = Id(r) => e = Event(r)

PersistPending(r) ==
  /\ login[r].pc = "pending"
  /\ \/ Abort(r, "unavailable")
     \/ ~AuditAgrees(r) /\ Abort(r, "internal_failure")
     \/ /\ AuditAgrees(r)
        /\ noted' = noted \cup {Event(r)}
        /\ operations' = IF Found(r) = "created" /\ ~ExactRetry(r)
                         THEN operations \cup NewRow(r) ELSE operations
        /\ IF Found(r) = "created" THEN Committed(r, "account")
           ELSE Committed(r, Found(r))
        /\ UNCHANGED <<accounts, blocked, sessions, second>>

-----------------------------------------------------------------------------
(* The second transaction.                                                 *)

Linked(u) == {a \in accounts : a.user = u}

\* A completed operation takes the same resolution again, no other.
Completes(o, resolution) == o.status = "pending" \/ o.resolution = resolution

CompleteWith(r, resolution) ==
  operations' = {IF o.id = Id(r) THEN [o EXCEPT !.status = "completed", !.resolution = resolution]
                 ELSE o : o \in operations}

OperationOf(r) == CHOOSE o \in operations : o.id = Id(r)

ResolutionFor(a) == Resolved(IF a.id \in blocked THEN "blocked" ELSE "existing", a.id)

ResolveAccount(r) ==
  /\ login[r].pc = "account"
  /\ \/ Abort(r, "unavailable")
     \/ Linked(User(r)) = {} /\ Abort(r, "provision")
     \/ \E a \in Linked(User(r)) :
          IF Completes(OperationOf(r), ResolutionFor(a))
          THEN /\ CompleteWith(r, ResolutionFor(a))
               /\ \/ login' = [login EXCEPT ![r].pc = IF a.id \in blocked
                                                      THEN "account_unavailable" ELSE "session",
                                            ![r].account = a.id]
                  \/ Go(r, "unavailable")
               /\ UNCHANGED <<noted, accounts, blocked, sessions, second>>
          ELSE Abort(r, "internal_failure")

\* The same transaction inserts; the unique identity decides a race.
Reserved(r) == Linked(User(r)) # {}

ProvisionAccount(r) ==
  /\ login[r].pc = "provision"
  /\ \/ Abort(r, "unavailable")
     \/ Reserved(r) /\ Abort(r, "request_conflict")
     \/ /\ ~Reserved(r)
        /\ accounts' = accounts \cup {[id |-> Id(r), user |-> User(r)]}
        /\ CompleteWith(r, Resolved("new", NoAccount))
        /\ \/ login' = [login EXCEPT ![r].pc = "session", ![r].account = Id(r)]
           \/ Go(r, "unavailable")
        /\ UNCHANGED <<noted, blocked, sessions, second>>

-----------------------------------------------------------------------------
(* The third transaction.                                                  *)

\* mutant of SessionOf: the session of the operation is not looked for
SessionOfNone(r) == {s \in sessions : s.credential = r}
SessionOf(r) == {s \in sessions : s.operation = Id(r)}

\* mutant of MayEnter: the account is not read again
MayEnterUnread(r) == login[r].account # NoAccount
MayEnter(r) == login[r].account \notin blocked

SessionAccount(r) == login[r].account

CreateSession(r) ==
  /\ login[r].pc = "session"
  /\ \/ Abort(r, "unavailable")
     \/ ~MayEnter(r) /\ Abort(r, "account_unavailable")
     \/ MayEnter(r) /\ SessionOf(r) # {} /\ Abort(r, "request_conflict")
     \/ /\ MayEnter(r) /\ SessionOf(r) = {}
        /\ sessions' = sessions \cup {[operation |-> Id(r), account |-> SessionAccount(r),
                                       credential |-> r]}
        /\ Committed(r, "authenticated")
        /\ UNCHANGED <<operations, noted, accounts, blocked, second>>

-----------------------------------------------------------------------------
Working == {"pending", "account", "provision", "session"}

BlockAccount(a) ==
  /\ a \in accounts /\ a.id \notin blocked
  /\ blocked' = blocked \cup {a.id}
  /\ UNCHANGED <<operations, noted, accounts, sessions, login, second>>

NextSecond ==
  /\ second < LastSecond
  /\ second' = second + 1
  /\ UNCHANGED <<operations, noted, accounts, blocked, sessions, login>>

LoginStep(r) == PersistPending(r) \/ ResolveAccount(r) \/ ProvisionAccount(r) \/ CreateSession(r)

LoginNext ==
  \/ \E r \in Logins, k \in Keys, p \in Proofs : SendLogin(r, k, p)
  \/ \E r \in Logins : LoginStep(r)
  \/ \E a \in accounts : BlockAccount(a)
  \/ NextSecond

LoginSpec == LoginInit /\ [][LoginNext]_loginVars

-----------------------------------------------------------------------------
(* Properties                                                              *)

Refusals == {"request_conflict", "proof_replayed", "internal_failure", "account_unavailable"}
Sent == {r \in Logins : login[r].pc # "unsent"}

\* Every variable keeps its type, and a request past the first transaction
\* has its operation.
LoginTypeOK ==
  /\ operations \subseteq OperationRow /\ noted \subseteq AuditRow
  /\ accounts \subseteq [id : AccountIds, user : {Owner[p] : p \in Proofs}]
  /\ blocked \subseteq AccountIds /\ second \in 0..LastSecond
  /\ sessions \subseteq SessionRow
  /\ \A r \in Sent : login[r].pc \in Working \cup Refusals \cup {"unavailable", "authenticated"}
  /\ \A r \in Logins : login[r].pc \in {"account", "provision", "session"} =>
       \E o \in operations : o.id = Id(r)

\* Two first logins of one Telegram user that race make one account.
OneAccountPerUser ==
  \A a, b \in accounts : a.user = b.user => a = b

\* A key, and a proof, give out one credential at most, however often and
\* whenever the request is repeated.
ProofEntersOnce ==
  \A r, q \in Logins :
    /\ login[r].pc = "authenticated" /\ login[q].pc = "authenticated" /\ r # q
    => login[r].key # login[q].key /\ login[r].proof # login[q].proof

\* An answered credential is the one stored, in a session of the account of
\* the user Telegram vouched for, under a completed operation.
AnswerIsBacked ==
  \A r \in Logins : login[r].pc = "authenticated" =>
    \E s \in sessions, a \in accounts, o \in operations :
      /\ s.credential = r /\ s.operation = Id(r) /\ s.account = a.id
      /\ a.user = User(r)
      /\ o.id = Id(r) /\ o.resolution \in {Resolved("new", NoAccount), Resolved("existing", a.id)}

\* An account that was blocked while the login ran gets no session.
BlockedAccountStaysOut ==
  \A s \in sessions' \ sessions : s.account \notin blocked

\* A login that shares its key, its proof and its user with no other is
\* refused only for a blocked account.
RefusalHasRival ==
  \A r \in Logins :
    login[r].pc \in Refusals \ {"account_unavailable"} =>
      \E q \in Sent \ {r} :
        login[q].key = login[r].key \/ User(q) = User(r)

\* What an operation was resolved to is final: a repeated request cannot
\* change it, which is also why a first login that stopped before its
\* session is never resumed.
ResolutionIsFinal ==
  \A o \in operations : o.status = "completed" => o \in operations'

\* Logins that race, repeat or stop between their transactions make one account
\* for a user and one session for a proof; an answer is what was stored, and a
\* refusal has a cause.
LoginsAreSound ==
  OneAccountPerUser /\ ProofEntersOnce /\ AnswerIsBacked /\ RefusalHasRival

\* No later request takes back what was decided: not the resolution of an
\* operation, and not the blocking of an account.
LoginOutcomesStand == [][BlockedAccountStaysOut /\ ResolutionIsFinal]_loginVars
=============================================================================
