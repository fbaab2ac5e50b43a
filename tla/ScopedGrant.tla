----------------------------- MODULE ScopedGrant -----------------------------
(***************************************************************************)
(* A grant for one action on one resource, made from fresh evidence of an  *)
(* active session, and consumed, revoked or expired by one command.  The   *)
(* session ends beside it; the consumer brings the session it has read,    *)
(* which may be an old reading, and its own clock.                         *)
(***************************************************************************)
EXTENDS Integers, Sequences

CONSTANTS GrantIds,      \* ids of commands
          GrantSessions, \* sessions; each is of one account
          Resources,     \* resource digests with their scopes
          LastMoment     \* moments are 0..LastMoment

VARIABLES
  grant,     \* ScopedGrantState, or NoGrant
  evidence,  \* the evidence the grant was made from
  lives      \* the window and the status of each session

grantVars == <<grant, evidence, lives>>

Moments == 0..LastMoment
NoGrant == [status |-> "none"]
NoEvidence == [session |-> "none", from |-> 0, to |-> 0]
Windows == {w \in [from : Moments, to : Moments] : w.from < w.to}
Within(now, w) == w.from <= now /\ now < w.to

GrantCommands ==
  [id : GrantIds, type : {"consume_grant"}, session : GrantSessions, resource : Resources]
    \cup [id : GrantIds, type : {"revoke_grant", "expire_grant"}, session : {"none"},
          resource : {"none"}]

GrantInit ==
  /\ grant = NoGrant /\ evidence = NoEvidence
  /\ \E w \in [GrantSessions -> Windows] :
       lives = [s \in GrantSessions |-> [id |-> s, from |-> w[s].from, to |-> w[s].to,
                                        status |-> "active"]]

-----------------------------------------------------------------------------
(* createScopedGrant.                                                      *)

\* mutant of GrantFits: the end of the evidence is not compared
GrantFitsSession(w, e) ==
  /\ Within(w.from, lives[e.session]) /\ lives[e.session].status = "active"
  /\ Within(w.from, e)
  /\ w.to <= lives[e.session].to
\* The grant begins while session and evidence hold, and ends with them.
GrantFits(w, e) ==
  /\ Within(w.from, lives[e.session]) /\ lives[e.session].status = "active"
  /\ Within(w.from, e) /\ w.to <= e.to
  /\ w.to <= lives[e.session].to

CreateGrant(w, held, s, resource) ==
  LET e == [session |-> s, from |-> held.from, to |-> held.to]
  IN /\ grant = NoGrant
     /\ GrantFits(w, e)
     /\ evidence' = e
     /\ grant' = [status |-> "active", session |-> s, resource |-> resource,
                  from |-> w.from, to |-> w.to, applied |-> << >>]
     /\ UNCHANGED lives

-----------------------------------------------------------------------------
(* The validator.                                                          *)

\* scopedGrantStateRejectionReason: an open grant has no command, a closed one
\* exactly the command that closed it, inside or after its window.
GrantStateFits(g) ==
  \/ g.status = "active" /\ g.applied = << >>
  \/ /\ Len(g.applied) = 1
     /\ LET a == g.applied[1]
        IN \/ /\ g.status = "consumed" /\ a.command.type = "consume_grant"
              /\ a.command.session = g.session /\ a.command.resource = g.resource
              /\ Within(a.at, g)
           \/ g.status = "revoked" /\ a.command.type = "revoke_grant" /\ Within(a.at, g)
           \/ g.status = "expired" /\ a.command.type = "expire_grant" /\ a.at >= g.to

-----------------------------------------------------------------------------
(* transitionScopedGrant.                                                  *)

\* A state that does not fit, a grant that is closed and a reading before its
\* creation change nothing; a retry gets the stored result.
GrantMayApply(now) ==
  /\ grant # NoGrant /\ GrantStateFits(grant)
  /\ grant.status = "active"
  /\ now >= grant.from

GrantEnds(c, now, status) ==
  /\ grant' = [grant EXCEPT !.status = status,
                 !.applied = Append(@, [command |-> c, at |-> now])]
  /\ UNCHANGED <<evidence, lives>>

\* The session as somebody read it: as it is, or before it ended.
SessionReadings == {lives[s] : s \in GrantSessions}
                     \cup {[lives[s] EXCEPT !.status = "active"] : s \in GrantSessions}

Grant(c, now, session) ==
  /\ GrantMayApply(now)
  /\ \/ c.type = "expire_grant" /\ now >= grant.to /\ GrantEnds(c, now, "expired")
     \/ c.type = "revoke_grant" /\ now < grant.to /\ GrantEnds(c, now, "revoked")
     \/ /\ c.type = "consume_grant" /\ now < grant.to
        /\ session.status = "active" /\ Within(now, session)
        /\ session.id = grant.session
        /\ c.session = grant.session /\ c.resource = grant.resource
        /\ GrantEnds(c, now, "consumed")

\* The session is revoked, expired or found reused: the login side does it.
EndSession(s) ==
  /\ lives[s].status = "active"
  /\ lives' = [lives EXCEPT ![s].status = "ended"]
  /\ UNCHANGED <<grant, evidence>>

GrantNext ==
  \/ \E w, held \in Windows, s \in GrantSessions, r \in Resources : CreateGrant(w, held, s, r)
  \/ \E c \in GrantCommands, now \in Moments, session \in SessionReadings : Grant(c, now, session)
  \/ \E s \in GrantSessions : EndSession(s)

GrantSpec == GrantInit /\ [][GrantNext]_grantVars

-----------------------------------------------------------------------------
(* Properties                                                              *)

\* Every variable keeps its type.
GrantTypeOK ==
  /\ grant # NoGrant =>
       /\ grant.status \in {"active", "consumed", "revoked", "expired"}
       /\ grant.session \in GrantSessions /\ grant.resource \in Resources
       /\ grant.from \in Moments /\ grant.to \in Moments
       /\ \A i \in DOMAIN grant.applied : grant.applied[i].command \in GrantCommands
  /\ evidence = NoEvidence \/ evidence.session \in GrantSessions
  /\ \A s \in GrantSessions : lives[s].id = s /\ lives[s].status \in {"active", "ended"}

\* A grant opens one resource once, for the session whose user proved himself
\* afresh, and at a moment when the evidence and the session both still held;
\* what the validator refuses never comes up.
GrantIsSound ==
  grant # NoGrant =>
    /\ GrantStateFits(grant)
    /\ grant.status = "consumed" =>
         LET a == grant.applied[1]
         IN /\ a.command.session = evidence.session /\ a.command.resource = grant.resource
            /\ Within(a.at, evidence)
            /\ Within(a.at, lives[evidence.session])
=============================================================================
