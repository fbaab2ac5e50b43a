---------------------------- MODULE PlayerSession ----------------------------
(***************************************************************************)
(* The session of one device: the page, the credential it keeps in the     *)
(* secure storage of Telegram, and the session families of the server.     *)
(* A credential is used once: a refresh consumes it and issues the next    *)
(* generation.  Requests may be answered late or never; a page repeats a   *)
(* request under the same key, then gives up.  A page may close at any     *)
(* moment.  What a served request does to the page and to the server is    *)
(* one action: an answer that is lost is one the page has stopped          *)
(* waiting for.                                                            *)
(***************************************************************************)
EXTENDS Integers, Sequences, FiniteSets

CONSTANTS MaxTries,     \* MAX_REQUESTS of one operation
          MaxCommands,  \* bound on the request keys a device makes
          MaxFamilies   \* bound on the sessions started

ASSUME SessionAssumption ==
  MaxTries \in Nat \ {0} /\ MaxCommands \in Nat \ {0} /\ MaxFamilies \in Nat \ {0}

Families == 1..MaxFamilies
NoCredential == [family |-> 0, generation |-> 0]

VARIABLES
  family,   \* auth_session_families with their commands, by family
  late,     \* the families past expires_at
  wire,     \* requests sent and not yet served
  spent,    \* login keys whose proof the server has consumed
  page,     \* what the page waits for
  via,      \* how the page got its credential: "refresh" or "login"
  held,     \* the credential of the page
  stored,   \* the credential in secure storage
  requestKey,  \* the request key in use
  try,      \* the requests made with it
  used,     \* request keys made so far
  torn,     \* a refresh was abandoned, or the storage failed
  leaving   \* the families somebody asked to log out of

sessionVars == <<family, late, wire, spent, page, via, held, stored, requestKey, try,
                 used, torn, leaving>>
pageVars == <<page, via, held, stored, requestKey, try, used, torn, leaving>>

Waiting == {"refresh", "login", "logout"}

Credentials == [family : 0..MaxFamilies, generation : Nat]

\* A command as it is stored with its family.
AppliedCommand == [command : Nat, presented : Nat,
                   type : {"rotate", "reuse", "expire", "revoke"}]
FamilyRow == [status : {"none", "active", "revoked", "expired", "reuse_detected"},
              generation : Nat, log : Seq(AppliedCommand)]

SessionInit ==
  /\ family = [f \in Families |-> [status |-> "none", generation |-> 0, log |-> <<>>]]
  /\ late = {} /\ wire = {} /\ spent = {}
  /\ page = "closed" /\ via = "login"
  /\ held = NoCredential /\ stored = NoCredential
  /\ requestKey = 0 /\ try = 0 /\ used = 0
  /\ torn = FALSE /\ leaving = {}

-----------------------------------------------------------------------------
(* The server.  A family records each command it applied; a request with   *)
(* a recorded key changes nothing.                                         *)

Recorded(f, c) == \E i \in DOMAIN family[f].log : family[f].log[i].command = c

\* What the validator demands of a stored family: each command once, the
\* rotations count the generations, nothing follows an expiry or a reuse,
\* and after a revocation only a reuse.
Replays(row) ==
  /\ \A i, j \in DOMAIN row.log : i # j => row.log[i].command # row.log[j].command
  /\ row.status # "none" =>
       row.generation = 1 + Cardinality({i \in DOMAIN row.log : row.log[i].type = "rotate"})
  /\ \A i, j \in DOMAIN row.log : i < j =>
       /\ row.log[i].type \notin {"expire", "reuse"}
       /\ row.log[i].type = "revoke" => row.log[j].type = "reuse"

Apply(f, c, type, status, generation) ==
  family' = [family EXCEPT ![f] =
    [status |-> status, generation |-> generation,
     log |-> Append(@.log, [command |-> c, type |-> type, presented |-> @.generation])]]

\* The answer to a refresh, and what it leaves behind.
RotatedBy(f, c) == \E i \in DOMAIN family[f].log :
                     family[f].log[i].command = c /\ family[f].log[i].type = "rotate"

Consumed(cred) == cred.generation < family[cred.family].generation

RefreshAnswer(m) ==
  LET f == m.credential.family
  IN IF Recorded(f, m.command)
     THEN IF RotatedBy(f, m.command) THEN "reopen_required" ELSE "invalid"
     ELSE IF family[f].status \in {"expired", "reuse_detected"} THEN "invalid"
     ELSE IF Consumed(m.credential) THEN "invalid"
     ELSE IF family[f].status # "active" THEN "invalid"
     ELSE IF f \in late THEN "expired" ELSE "refreshed"

ServeRefresh(m) ==
  LET f == m.credential.family
      row == family[f]
  IN CASE RefreshAnswer(m) = "refreshed" ->
            Apply(f, m.command, "rotate", "active", row.generation + 1)
       [] RefreshAnswer(m) = "expired" ->
            Apply(f, m.command, "expire", "expired", row.generation)
       [] /\ RefreshAnswer(m) = "invalid"
          /\ ~Recorded(f, m.command) /\ row.status \in {"active", "revoked"}
          /\ Consumed(m.credential) ->
            Apply(f, m.command, "reuse", "reuse_detected", row.generation)
       [] OTHER -> UNCHANGED family

LogoutAllowed(f) == family[f].status = "active" /\ f \notin late

LogoutAnswer(m) ==
  LET f == m.credential.family
  IN IF Consumed(m.credential) THEN "invalid"
     ELSE IF Recorded(f, m.command) \/ LogoutAllowed(f) THEN "logged_out"
     ELSE "invalid"

\* mutant of ServeLogout: the answer comes without the revocation
ServeLogoutUnrecorded(m) == UNCHANGED family /\ m \in wire
ServeLogout(m) ==
  LET f == m.credential.family
  IN IF LogoutAnswer(m) = "logged_out" /\ ~Recorded(f, m.command)
     THEN Apply(f, m.command, "revoke", "revoked", family[f].generation)
     ELSE UNCHANGED family

NewFamily == CHOOSE f \in Families : family[f].status = "none"
               /\ \A g \in Families : family[g].status = "none" => f <= g

\* A login whose key is spent is answered "conflict" (module TelegramLogin).
LoginAnswer(m) == IF m.command \in spent THEN "conflict" ELSE "authenticated"
ServeLogin(m) ==
  IF LoginAnswer(m) = "authenticated"
  THEN /\ \E f \in Families : family[f].status = "none"
       /\ family' = [family EXCEPT ![NewFamily] =
                       [status |-> "active", generation |-> 1, log |-> <<>>]]
       /\ spent' = spent \cup {m.command}
  ELSE UNCHANGED <<family, spent>>

\* The credential of a request to /session/me.
Valid(cred) == /\ family[cred.family].status = "active"
               /\ family[cred.family].generation = cred.generation
               /\ cred.family \notin late

-----------------------------------------------------------------------------
(* The page.                                                               *)

Request(kind, cred, c, n) ==
  [kind |-> kind, credential |-> cred, command |-> c, try |-> n]

\* A new operation, under a new request key.
Begin(kind, cred) ==
  /\ used < MaxCommands
  /\ used' = used + 1
  /\ requestKey' = used + 1
  /\ try' = 1
  /\ page' = kind
  /\ wire' = wire \cup {Request(kind, cred, used + 1, 1)}

\* removeItem answers, or fails and leaves what is stored.
Removed == \/ stored' = NoCredential /\ UNCHANGED torn
           \/ stored' = stored /\ torn' = TRUE

\* A page that cannot read the storage goes on as if it were empty.
Open ==
  /\ page = "closed"
  /\ held' = NoCredential
  /\ UNCHANGED <<family, late, spent, stored, torn, leaving>>
  /\ \/ stored # NoCredential /\ Begin("refresh", stored) /\ via' = "refresh"
     \/ Begin("login", NoCredential) /\ via' = "login"

\* The page is closed, perhaps amid an operation.
Close ==
  /\ page # "closed"
  /\ page' = "closed"
  /\ held' = NoCredential
  /\ torn' = (torn \/ (page = "refresh") \/ (page = "store" /\ via = "refresh"))
  /\ UNCHANGED <<family, late, wire, spent, via, stored, requestKey, try, used, leaving>>

\* mutant of RetryKey: every request has a key of its own
RetryKeyFresh == used + 1
RetryKey == requestKey

MayRetry == try < MaxTries

\* No answer in time, or a temporary failure.
Retry ==
  /\ page \in Waiting
  /\ MayRetry
  /\ try' = try + 1
  /\ requestKey' = RetryKey
  /\ wire' = wire \cup {Request(page, IF page = "refresh" THEN stored ELSE held,
                                RetryKey, try + 1)}
  /\ UNCHANGED <<family, late, spent, page, via, held, stored, used, torn, leaving>>

\* A refresh or a login ends in an error; the stored credential stays.
GiveUp ==
  /\ page \in Waiting
  /\ ~MayRetry
  /\ page' = IF page = "logout" THEN "in" ELSE "error"
  /\ torn' = (torn \/ (page = "refresh"))
  /\ UNCHANGED <<family, late, wire, spent, via, held, stored, requestKey, try, used,
                 leaving>>

Awaited(m) == page = m.kind /\ requestKey = m.command /\ try = m.try

\* The page does not hear the answer of m, or does not wait for it.
Unheard == UNCHANGED pageVars

HearRefresh(m, answer) ==
  /\ Awaited(m)
  /\ IF answer = "refreshed"
     THEN /\ page' = "store"
          /\ held' = [family |-> m.credential.family,
                      generation |-> m.credential.generation + 1]
          /\ wire' = wire \ {m}
          /\ UNCHANGED <<via, stored, requestKey, try, used, torn, leaving>>
     ELSE \* invalid, expired, reopen_required: the stored value is dropped
          /\ used < MaxCommands
          /\ Removed
          /\ page' = "login" /\ via' = "login"
          /\ used' = used + 1 /\ requestKey' = used + 1 /\ try' = 1
          /\ wire' = (wire \ {m}) \cup {Request("login", NoCredential, used + 1, 1)}
          /\ UNCHANGED <<held, leaving>>

HandleRefresh(m) ==
  /\ m \in wire /\ m.kind = "refresh"
  /\ ServeRefresh(m)
  /\ UNCHANGED <<late, spent>>
  /\ \/ HearRefresh(m, RefreshAnswer(m))
     \/ Unheard /\ wire' = wire \ {m}

HandleLogin(m) ==
  /\ m \in wire /\ m.kind = "login"
  /\ wire' = wire \ {m}
  /\ UNCHANGED late
  /\ \/ /\ ServeLogin(m)
        /\ \/ /\ Awaited(m)
              /\ page' = IF LoginAnswer(m) = "authenticated" THEN "store" ELSE "error"
              /\ held' = IF LoginAnswer(m) = "authenticated"
                         THEN [family |-> NewFamily, generation |-> 1] ELSE held
              /\ UNCHANGED <<via, stored, requestKey, try, used, torn, leaving>>
           \/ Unheard
     \/ \* the process stops between two transactions of the login
        /\ m.command \notin spent
        /\ spent' = spent \cup {m.command}
        /\ UNCHANGED family
        /\ Unheard

HandleLogout(m) ==
  /\ m \in wire /\ m.kind = "logout"
  /\ wire' = wire \ {m}
  /\ ServeLogout(m)
  /\ UNCHANGED <<late, spent>>
  /\ \/ /\ Awaited(m)
        /\ page' = "out"
        /\ held' = NoCredential
        /\ Removed
        /\ UNCHANGED <<via, requestKey, try, used, leaving>>
     \/ Unheard

Written == stored' = held

\* persistCredentialOrRemove: a failed write removes what is stored.
Store ==
  /\ page = "store"
  /\ page' = "check"
  /\ \/ Written /\ UNCHANGED torn
     \/ Removed
  /\ UNCHANGED <<family, late, wire, spent, via, held, requestKey, try, used, leaving>>

\* The request to /session/me reads only; it may fail for the moment.
Check ==
  /\ page = "check"
  /\ UNCHANGED <<family, late, spent, leaving>>
  /\ \/ /\ Valid(held)
        /\ page' = "in"
        /\ UNCHANGED <<wire, via, held, stored, requestKey, try, used, torn>>
     \/ /\ page' = "error"
        /\ UNCHANGED <<wire, via, held, stored, requestKey, try, used, torn>>
     \/ /\ ~Valid(held)
        /\ held' = NoCredential
        /\ Removed
        /\ IF via = "refresh"
           THEN Begin("login", NoCredential) /\ via' = "login"
           ELSE page' = "error" /\ UNCHANGED <<wire, via, requestKey, try, used>>

Logout ==
  /\ page = "in"
  /\ Begin("logout", held)
  /\ leaving' = leaving \cup {held.family}
  /\ UNCHANGED <<family, late, spent, via, held, stored, torn>>

\* The timer of the page: the session of this page has expired.
RunOut ==
  /\ page = "in" /\ held.family \in late
  /\ page' = "error"
  /\ held' = NoCredential
  /\ Removed
  /\ UNCHANGED <<family, late, wire, spent, via, requestKey, try, used, leaving>>

Expire(f) ==
  /\ family[f].status # "none" /\ f \notin late
  /\ late' = late \cup {f}
  /\ UNCHANGED <<family, wire, spent, pageVars>>

SessionNext ==
  \/ Open \/ Close \/ Retry \/ GiveUp \/ Store \/ Check \/ Logout \/ RunOut
  \/ \E m \in wire : HandleRefresh(m) \/ HandleLogin(m) \/ HandleLogout(m)
  \/ \E f \in Families : Expire(f)

SessionSpec == SessionInit /\ [][SessionNext]_sessionVars

-----------------------------------------------------------------------------
(* Properties                                                              *)

Pages == Waiting \cup {"closed", "store", "check", "in", "out", "error"}

\* Every variable keeps its type; the page holds a credential while it is
\* storing or checking one, or is signed in.
SessionTypeOK ==
  /\ family \in [Families -> FamilyRow]
  /\ late \subseteq Families /\ leaving \subseteq Families /\ spent \subseteq Nat
  /\ wire \subseteq [kind : Waiting, credential : Credentials, command : Nat, try : Nat]
  /\ page \in Pages /\ via \in {"refresh", "login"}
  /\ held \in Credentials /\ stored \in Credentials
  /\ requestKey \in Nat /\ try \in Nat /\ used \in Nat /\ torn \in BOOLEAN
  /\ page \in {"store", "check", "in", "logout"} => held.family \in Families

\* Every family can be read again: its commands replay to what is stored.
\* A family that does not replay is refused by the server for good.
HistoryReplays == \A f \in Families : Replays(family[f])

\* Retries, late requests and lost answers alone never end a session as
\* reused: that takes a refresh that was abandoned, or a storage that failed.
ReuseNeedsTornRefresh ==
  (\E f \in Families : family[f].status = "reuse_detected") => torn

\* A signed-in page holds the current credential of a live session, unless
\* the session ended by time, by a logout, or by a reuse the device caused.
SignedInIsCurrent ==
  page = "in" =>
    LET row == family[held.family]
    IN /\ row.generation = held.generation
       /\ \/ row.status = "active"
          \/ row.status = "reuse_detected" /\ torn
          \/ row.status = "revoked" /\ held.family \in leaving
          \/ row.status = "expired" /\ held.family \in late

\* What is kept for the next visit is never a consumed credential, except
\* while a refresh is under way or after a torn one.
StoredIsUnused ==
  (stored # NoCredential /\ page \notin {"refresh", "store"} /\ ~torn)
     => family[stored.family].generation = stored.generation

\* The page says "logged out" only when its session can no longer be used.
LoggedOutIsEnded ==
  (page = "logout" /\ page' = "out") =>
        \/ family'[held.family].status # "active"
        \/ held.family \in late

\* Page, storage and server agree on the session after any lost, late or
\* repeated message: a retry finds its answer, a session is not ended as reused
\* without cause, what the page holds and keeps is what the server takes, and
\* "logged out" is said when it is true.
SessionsAgree ==
  HistoryReplays /\ ReuseNeedsTornRefresh /\ SignedInIsCurrent /\ StoredIsUnused
SessionsAreSound == [][SessionsAgree' /\ LoggedOutIsEnded]_sessionVars
=============================================================================
