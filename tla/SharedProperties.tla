--------------------------- MODULE SharedProperties ---------------------------
(***************************************************************************)
(* Properties that lifecycles of one kind have in common: three that are   *)
(* closed by one right answer, and three whose outcomes stand for good.    *)
(***************************************************************************)
EXTENDS ReservationLifecycle, TelegramLogin, LevelReassessment,
        OtpChallenge, ContactVerification, ScopedGrant

\* A one-time code, the proof of a contact and a grant each stay usable, are
\* used once, by the right side and in time.
CodesAndGrantsAreSound == OtpIsSound /\ ContactIsSound /\ GrantIsSound

\* Only an outcome moves a reservation or a login, and neither it nor the
\* evidence of a level is taken back.
OutcomesStand == OnlyOutcomesMove /\ LoginOutcomesStand /\ EvidenceStands
=============================================================================
