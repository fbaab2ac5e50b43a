------------------------- MODULE ContactVerification -------------------------
(***************************************************************************)
(* One challenge that proves a contact of an account: proofs are presented, *)
(* the message is sent again after a pause, and any command that comes too  *)
(* late expires the challenge.  The state keeps every applied command, and  *)
(* is judged again from them before the next.                               *)
(***************************************************************************)
EXTENDS Integers, Sequences, FiniteSets

CONSTANTS ProofIds,       \* ids of commands
          ResendKeys,     \* idempotency keys of resends
          Dispatches,     \* dispatchId with rateLimitDecisionId, chosen by the caller
          ProofAttempts,  \* maxAttempts
          ProofExpires,   \* expiresAt; createdAt is 0
          Cooldown        \* resendCooldownSeconds

ASSUME ContactAssumption ==
  ProofAttempts \in Nat \ {0} /\ ProofExpires \in Nat /\ Cooldown \in Nat

VARIABLE proof   \* ContactVerificationChallengeState

NoneGiven == "none"
ProofCommand(type, values, keys, dispatches) ==
  [id : ProofIds, type : {type}, value : values, key : keys, dispatch : dispatches]
ProofCommands ==
  ProofCommand("submit_proof", {"right", "wrong"}, {NoneGiven}, {NoneGiven})
    \cup ProofCommand("expire", {NoneGiven}, {NoneGiven}, {NoneGiven})
    \cup ProofCommand("cancel", {"contact_changed"}, {NoneGiven}, {NoneGiven})
    \cup ProofCommand("reserve_resend", {NoneGiven}, ResendKeys, Dispatches)

ProofInit ==
  proof = [status |-> "pending", left |-> ProofAttempts, lastDispatch |-> 0, resends |-> 0,
           applied |-> << >>]

-----------------------------------------------------------------------------
(* The validator.                                                          *)

SentAgain(h, i) == {j \in 1..i : h[j].result = "resend_reserved"}
Missed(h, i) == {j \in 1..i : h[j].result \in {"incorrect_proof", "attempts_exhausted"}}
LeftAfter(h, i) == ProofAttempts - Cardinality(Missed(h, i))
\* The moment of the last message up to the i-th command.
DispatchedAt(h, i) ==
  IF SentAgain(h, i) = {} THEN 0
  ELSE h[CHOOSE j \in SentAgain(h, i) : \A k \in SentAgain(h, i) : k <= j].at

\* One entry of validateAppliedHistory.
EntryFits(h, i) ==
  LET a == h[i]
      inTime == a.at < ProofExpires
      isLast == i = Len(h)
  IN /\ a.at >= (IF i = 1 THEN 0 ELSE h[i - 1].at)
     /\ \/ /\ a.result = "resend_reserved" /\ inTime
           /\ a.at - DispatchedAt(h, i - 1) >= Cooldown
           /\ \A j \in SentAgain(h, i - 1) :
                h[j].command.key # a.command.key /\ h[j].command.dispatch # a.command.dispatch
        \/ /\ a.result = "incorrect_proof" /\ inTime /\ a.command.value = "wrong"
           /\ LeftAfter(h, i) > 0 /\ a.left = LeftAfter(h, i)
        \/ /\ a.result = "attempts_exhausted" /\ isLast /\ inTime /\ a.command.value = "wrong"
           /\ LeftAfter(h, i) = 0
        \/ a.result = "verified" /\ isLast /\ inTime /\ a.command.value = "right"
        \/ a.result = "cancelled" /\ isLast /\ inTime /\ a.command.type = "cancel"
        \/ a.result = "expired" /\ isLast /\ ~inTime

\* challengeStateIsValid.
ProofStateFits(s) ==
  LET h == s.applied
      n == Len(h)
  IN /\ \A i, j \in 1..n : i # j => h[i].command.id # h[j].command.id
     /\ \A i \in 1..n : EntryFits(h, i)
     /\ s.left = LeftAfter(h, n)
     /\ s.lastDispatch = DispatchedAt(h, n) /\ s.resends = Cardinality(SentAgain(h, n))
     /\ IF s.status = "pending"
        THEN s.left > 0 /\ (n > 0 => h[n].result \in {"incorrect_proof", "resend_reserved"})
        ELSE n > 0 /\ h[n].result = s.status

-----------------------------------------------------------------------------
(* The transitions.                                                        *)

ProofRecorded(c, now, result, left) ==
  Append(proof.applied, [command |-> c, at |-> now, result |-> result, left |-> left])

ProofEnds(c, now, status) ==
  proof' = [proof EXCEPT !.status = status, !.applied = ProofRecorded(c, now, status, 0)]

ExpireFromCommand(c, now) == now >= ProofExpires /\ ProofEnds(c, now, "expired")

CancelProof(c, now) == c.type = "cancel" /\ ProofEnds(c, now, "cancelled")

\* mutant of ReserveResend: the pause is counted from the creation
ReserveResendFromCreation(c, now) ==
  /\ c.type = "reserve_resend"
  /\ now >= Cooldown
  /\ proof' = [proof EXCEPT !.lastDispatch = now, !.resends = @ + 1,
                 !.applied = ProofRecorded(c, now, "resend_reserved", 0)]
ReserveResend(c, now) ==
  /\ c.type = "reserve_resend"
  /\ now - proof.lastDispatch >= Cooldown
  /\ proof' = [proof EXCEPT !.lastDispatch = now, !.resends = @ + 1,
                 !.applied = ProofRecorded(c, now, "resend_reserved", 0)]

PresentProof(c, now) ==
  /\ c.type = "submit_proof"
  /\ IF c.value = "right" THEN ProofEnds(c, now, "verified")
     ELSE IF proof.left - 1 = 0
     THEN proof' = [proof EXCEPT !.status = "attempts_exhausted", !.left = 0,
                      !.applied = ProofRecorded(c, now, "attempts_exhausted", 0)]
     ELSE proof' = [proof EXCEPT !.left = @ - 1,
                      !.applied = ProofRecorded(c, now, "incorrect_proof", proof.left - 1)]

\* A state that does not fit, a key or an id that was used, a reading before
\* the last command and a challenge that ended change nothing.
ProofMayApply(c, now) ==
  /\ ProofStateFits(proof)
  /\ \A i \in DOMAIN proof.applied :
       /\ proof.applied[i].command.id # c.id
       /\ c.type = "reserve_resend" /\ proof.applied[i].command.type = "reserve_resend"
            => proof.applied[i].command.key # c.key
       /\ now >= proof.applied[i].at
  /\ proof.status = "pending"

Prove(c, now) ==
  /\ ProofMayApply(c, now)
  /\ \/ ExpireFromCommand(c, now)
     \/ now < ProofExpires /\ (CancelProof(c, now) \/ ReserveResend(c, now) \/ PresentProof(c, now))

ProofNext == \E c \in ProofCommands, now \in 0..ProofExpires : Prove(c, now)

ProofSpec == ProofInit /\ [][ProofNext]_proof

-----------------------------------------------------------------------------
(* Properties                                                              *)

\* Every field keeps its type.
ProofTypeOK ==
  /\ proof.status \in {"pending", "verified", "attempts_exhausted", "expired", "cancelled"}
  /\ proof.left \in 0..ProofAttempts /\ proof.lastDispatch \in 0..ProofExpires
  /\ proof.resends \in 0..Len(proof.applied)
  /\ \A i \in DOMAIN proof.applied : proof.applied[i].command \in ProofCommands

\* No series of proofs, resends, cancellations and expiries leads to a state
\* that its own validator refuses, which would block the challenge for good;
\* only a resend under a new key with the dispatch of an earlier one does.
ProofStaysUsable ==
  \/ ProofStateFits(proof)
  \/ LET sent == SentAgain(proof.applied, Len(proof.applied))
     IN \E i, j \in sent :
          i # j /\ proof.applied[i].command.dispatch = proof.applied[j].command.dispatch

\* A contact is proved by the right value, in time, after fewer misses than
\* there are attempts, and no two messages leave within the pause.
ContactIsProved ==
  LET h == proof.applied
      n == Len(h)
  IN /\ proof.status = "verified" <=> \E i \in 1..n : h[i].result = "verified"
     /\ proof.status = "verified" =>
          /\ h[n].command.value = "right" /\ h[n].at < ProofExpires
          /\ Cardinality({i \in 1..n : h[i].command.value = "wrong"}) < ProofAttempts
     /\ \A i, j \in SentAgain(h, n) : i < j => h[j].at - h[i].at >= Cooldown
     /\ \A i \in SentAgain(h, n) : h[i].at >= Cooldown

ContactIsSound == ProofStaysUsable /\ ContactIsProved
=============================================================================
