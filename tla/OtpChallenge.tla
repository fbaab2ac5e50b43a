---------------------------- MODULE OtpChallenge ----------------------------
(***************************************************************************)
(* One challenge of a one-time code.  A command carries an id; the state   *)
(* keeps each command it applied with its result, and before the next one  *)
(* the whole state is judged again from that history.  The clock is the    *)
(* caller's: readings come in any order, one may lie before the creation.  *)
(***************************************************************************)
EXTENDS Integers, Sequences

CONSTANTS OtpIds,        \* ids of commands
          OtpAttempts,   \* maxAttempts
          LastReading    \* clock readings are 0..LastReading

ASSUME OtpAssumption == OtpAttempts \in Nat \ {0} /\ LastReading \in Nat

VARIABLE otp   \* OtpChallengeState

OtpCreated == 1
OtpExpires == LastReading
OtpCommands ==
  [id : OtpIds, type : {"submit_otp"}, value : {"right", "wrong"}]
    \cup [id : OtpIds, type : {"expire_otp"}, value : {"none"}]
    \cup [id : OtpIds, type : {"cancel_otp"}, value : {"user_cancelled", "superseded"}]

\* What a terminal state keeps of the command that ended it.
Metadata(c, now) == [at |-> now, id |-> c.id, reason |-> c.value]
NoMetadata == [at |-> 0, id |-> "none", reason |-> "none"]

OtpInit ==
  otp = [status |-> "pending", left |-> OtpAttempts, metadata |-> NoMetadata,
         applied |-> << >>]

-----------------------------------------------------------------------------
(* The validator.                                                          *)

\* isAppliedOtpCommand: a recorded command has a result it can have had.
AppliedFits(a) ==
  LET inWindow == OtpCreated <= a.at /\ a.at < OtpExpires
      own == a.metadata = Metadata(a.command, a.at)
  IN CASE a.command.type = "submit_otp" ->
            /\ inWindow
            /\ \/ a.result = "verified" /\ a.command.value = "right" /\ own
               \/ a.result = "attempts_exhausted" /\ a.command.value = "wrong" /\ own
               \/ a.result = "incorrect_code" /\ a.command.value = "wrong"
                    /\ a.left \in 1..OtpAttempts
       [] a.command.type = "expire_otp" -> a.at >= OtpExpires /\ a.result = "expired" /\ own
       [] a.command.type = "cancel_otp" -> inWindow /\ a.result = "cancelled" /\ own

\* incorrectHistoryIsSequential: nothing but wrong codes, counted down.
CountedDown(applied) ==
  \A i \in DOMAIN applied :
    applied[i].result = "incorrect_code" /\ applied[i].left = OtpAttempts - i

LastOtp(s) == s.applied[Len(s.applied)]

\* isOtpChallengeState: the status, the attempts left and the metadata are
\* those that the history gives.
OtpStateFits(s) ==
  LET n == Len(s.applied)
  IN /\ \A i \in 1..n : AppliedFits(s.applied[i])
     /\ \A i, j \in 1..n : i # j => s.applied[i].command.id # s.applied[j].command.id
     /\ IF s.status = "pending"
        THEN s.left >= 1 /\ CountedDown(s.applied) /\ s.left = OtpAttempts - n
        ELSE /\ n > 0 /\ CountedDown(SubSeq(s.applied, 1, n - 1))
             /\ LastOtp(s).result = s.status /\ LastOtp(s).metadata = s.metadata
             /\ IF s.status = "attempts_exhausted" THEN s.left = 0 /\ n = OtpAttempts
                ELSE s.left >= 1 /\ s.left = OtpAttempts - (n - 1)

-----------------------------------------------------------------------------
(* The transitions.                                                        *)

Applied(c, now, result, metadata, left) ==
  [command |-> c, at |-> now, result |-> result, metadata |-> metadata, left |-> left]

\* The challenge ends with the command c.
OtpEnds(c, now, status, left) ==
  otp' = [status |-> status, left |-> left, metadata |-> Metadata(c, now),
          applied |-> Append(otp.applied, Applied(c, now, status, Metadata(c, now), 0))]

\* mutant of SubmitOtp: the last attempt is refused but still counted as open
SubmitOtpUnending(c, now) ==
  IF c.value = "right" THEN OtpEnds(c, now, "verified", otp.left)
  ELSE otp' = [otp EXCEPT !.left = @ - 1,
                 !.applied = Append(@, Applied(c, now, "incorrect_code", NoMetadata, otp.left - 1))]
SubmitOtp(c, now) ==
  IF c.value = "right" THEN OtpEnds(c, now, "verified", otp.left)
  ELSE IF otp.left - 1 = 0 THEN OtpEnds(c, now, "attempts_exhausted", 0)
  ELSE otp' = [otp EXCEPT !.left = @ - 1,
                 !.applied = Append(@, Applied(c, now, "incorrect_code", NoMetadata, otp.left - 1))]

\* A state that does not fit, an id that was used and a challenge that ended
\* change nothing.
OtpMayApply(c) ==
  /\ OtpStateFits(otp)
  /\ \A i \in DOMAIN otp.applied : otp.applied[i].command.id # c.id
  /\ otp.status = "pending"

Otp(c, now) ==
  /\ OtpMayApply(c)
  /\ \/ c.type = "expire_otp" /\ now >= OtpExpires /\ OtpEnds(c, now, "expired", otp.left)
     \/ c.type = "cancel_otp" /\ now < OtpExpires /\ OtpEnds(c, now, "cancelled", otp.left)
     \/ c.type = "submit_otp" /\ now < OtpExpires /\ SubmitOtp(c, now)

OtpNext == \E c \in OtpCommands, now \in 0..LastReading : Otp(c, now)

OtpSpec == OtpInit /\ [][OtpNext]_otp

-----------------------------------------------------------------------------
(* Properties                                                              *)

\* Every field keeps its type.
OtpTypeOK ==
  /\ otp.status \in {"pending", "verified", "attempts_exhausted", "expired", "cancelled"}
  /\ otp.left \in 0..OtpAttempts
  /\ \A i \in DOMAIN otp.applied : otp.applied[i].command \in OtpCommands

\* No series of codes, retries, cancellations and expiries leads to a state
\* that its own validator refuses, which would block the challenge for good;
\* only a command stamped before the creation, by another clock, does.
OtpStaysUsable ==
  OtpStateFits(otp) \/ \E i \in DOMAIN otp.applied : otp.applied[i].at < OtpCreated

\* A code is accepted once, before the expiry, and after fewer wrong ones
\* than there are attempts.
OtpAcceptsOnce ==
  LET wrong == {i \in DOMAIN otp.applied : otp.applied[i].command.value = "wrong"}
      right == {i \in DOMAIN otp.applied : otp.applied[i].command.value = "right"}
  IN /\ (otp.status = "verified") <=> (right # {})
     /\ \A i \in right : otp.applied[i].at < OtpExpires /\ i = Len(otp.applied)
     /\ \A i \in wrong : i <= OtpAttempts
     /\ right # {} => \A i \in wrong : i < OtpAttempts

OtpIsSound == OtpStaysUsable /\ OtpAcceptsOnce
=============================================================================
