--------------------------- MODULE LifecyclesProof --------------------------
(***************************************************************************)
(* The lifecycles together, as they are run: a step of the scene that runs *)
(* is a step of its part and leaves the other parts where they are, so a   *)
(* behaviour of the composition is one of every part, and what is proved   *)
(* of a part for any values of its constants holds of the composition.     *)
(***************************************************************************)
EXTENDS MCLifecycles, MatchesProof, FeedsProof, AccountsProof

\* Every part takes a step or stays.
EachScene ==
  /\ [Next]_vars
  /\ [SessionNext]_sessionVars
  /\ [LoginNext]_loginVars
  /\ [RatingsNext]_ratingsVars
  /\ [LineupNext]_lineupVars
  /\ [InboxNext]_inboxVars
  /\ [PaymentNext]_paymentVars
  /\ [OtpNext]_otp
  /\ [ProofNext]_proof
  /\ [GrantNext]_grantVars
  /\ [OnboardingNext]_onboardingVars
  /\ [CancellationNext]_cancelVars
  /\ [ControlledNext]_controlledVars
  /\ [ChatNext]_chatVars
  /\ [NotesNext]_notesVars
  /\ [SurveyNext]_survey
  /\ [ReassessmentNext]_reassessmentVars
  /\ [PhotoNext]_photoVars
  /\ [AvailabilityNext]_screenVars
  /\ [CreationNext]_creationVars

LEMMA ScenesStep == [LifecyclesNext]_lifecyclesVars => EachScene
<1> SUFFICES ASSUME [LifecyclesNext]_lifecyclesVars PROVE EachScene
  OBVIOUS
<1>1. CASE ReservationScene
  BY <1>1 DEF ReservationScene, EachScene
<1>2. CASE SessionScene
  BY <1>2 DEF SessionScene, EachScene
<1>3. CASE LoginScene
  BY <1>3 DEF LoginScene, EachScene
<1>4. CASE RatingsScene
  BY <1>4 DEF RatingsScene, EachScene
<1>5. CASE LineupScene
  BY <1>5 DEF LineupScene, EachScene
<1>6. CASE InboxScene
  BY <1>6 DEF InboxScene, EachScene
<1>7. CASE PaymentScene
  BY <1>7 DEF PaymentScene, EachScene
<1>8. CASE OtpScene
  BY <1>8 DEF OtpScene, EachScene
<1>9. CASE ProofScene
  BY <1>9 DEF ProofScene, EachScene
<1>10. CASE GrantScene
  BY <1>10 DEF GrantScene, EachScene
<1>11. CASE OnboardingScene
  BY <1>11 DEF OnboardingScene, EachScene
<1>12. CASE CancellationScene
  BY <1>12 DEF CancellationScene, EachScene
<1>13. CASE ControlledScene
  BY <1>13 DEF ControlledScene, EachScene
<1>14. CASE ChatScene
  BY <1>14 DEF ChatScene, EachScene
<1>15. CASE NotesScene
  BY <1>15 DEF NotesScene, EachScene
<1>16. CASE SurveyScene
  BY <1>16 DEF SurveyScene, EachScene
<1>17. CASE ReassessmentScene
  BY <1>17 DEF ReassessmentScene, EachScene
<1>18. CASE PhotoScene
  BY <1>18 DEF PhotoScene, EachScene
<1>19. CASE AvailabilityScene
  BY <1>19 DEF AvailabilityScene, EachScene
<1>20. CASE CreationScene
  BY <1>20 DEF CreationScene, EachScene
<1>21. CASE UNCHANGED lifecyclesVars
  BY <1>21 DEF lifecyclesVars, EachScene
<1> QED BY <1>1, <1>2, <1>3, <1>4, <1>5, <1>6, <1>7, <1>8, <1>9, <1>10, <1>11, <1>12, <1>13,
           <1>14, <1>15, <1>16, <1>17, <1>18, <1>19, <1>20, <1>21 DEF LifecyclesNext

\* The behaviours of every part.
EachPart ==
  /\ Spec
  /\ SessionSpec
  /\ LoginSpec
  /\ RatingsSpec
  /\ LineupSpec
  /\ InboxSpec
  /\ PaymentSpec
  /\ OtpSpec
  /\ ProofSpec
  /\ GrantSpec
  /\ OnboardingSpec
  /\ CancellationSpec
  /\ ControlledSpec
  /\ ChatSpec
  /\ NotesSpec
  /\ SurveySpec
  /\ ReassessmentSpec
  /\ PhotoSpec
  /\ AvailabilitySpec
  /\ CreationSpec

LEMMA LifecyclesImplementTheirParts == LifecyclesSpec => EachPart
<1>1. LifecyclesInit => /\ Init /\ SessionInit /\ LoginInit /\ RatingsInit /\
                          LineupInit /\ InboxInit /\ PaymentInit /\ OtpInit /\
                          ProofInit /\ GrantInit /\ OnboardingInit /\
                          CancellationInit /\ ControlledInit /\ ChatInit /\ NotesInit /\
                          SurveyInit /\ ReassessmentInit /\ PhotoInit /\
                          AvailabilityInit /\ CreationInit
  BY DEF LifecyclesInit
<1>2. EachScene => /\ [Next]_vars /\ [SessionNext]_sessionVars /\
                     [LoginNext]_loginVars /\ [RatingsNext]_ratingsVars /\
                     [LineupNext]_lineupVars /\ [InboxNext]_inboxVars /\
                     [PaymentNext]_paymentVars /\ [OtpNext]_otp /\ [ProofNext]_proof /\
                     [GrantNext]_grantVars /\ [OnboardingNext]_onboardingVars /\
                     [CancellationNext]_cancelVars /\ [ControlledNext]_controlledVars /\
                     [ChatNext]_chatVars /\ [NotesNext]_notesVars /\
                     [SurveyNext]_survey /\ [ReassessmentNext]_reassessmentVars /\
                     [PhotoNext]_photoVars /\ [AvailabilityNext]_screenVars /\
                     [CreationNext]_creationVars
  BY DEF EachScene
<1> QED BY <1>1, <1>2, ScenesStep, PTL
       DEF LifecyclesSpec, EachPart, Spec, SessionSpec, LoginSpec, RatingsSpec, LineupSpec, InboxSpec,
           PaymentSpec, OtpSpec, ProofSpec, GrantSpec, OnboardingSpec, CancellationSpec,
           ControlledSpec, ChatSpec, NotesSpec, SurveySpec, ReassessmentSpec, PhotoSpec,
           AvailabilitySpec, CreationSpec

\* LifecyclesTypeOK, of every value of the constants: whichever part runs, what
\* it keeps is of its type and within its bounds.
THEOREM LifecyclesAreTyped == LifecyclesSpec => []LifecyclesTypeOK
<1>1. /\ TypeOK /\ SessionTypeOK /\ LoginTypeOK /\ RatingsTypeOK /\ LineupTypeOK /\
         InboxTypeOK /\ PaymentTypeOK /\ OtpTypeOK /\ ProofTypeOK /\ GrantTypeOK /\
         OnboardingTypeOK /\ CancellationTypeOK /\ ControlledTypeOK /\ ChatTypeOK /\
         NotesTypeOK /\ SurveyTypeOK /\ ReassessmentTypeOK /\ PhotoTypeOK /\
         AvailabilityTypeOK /\ CreationTypeOK
      => LifecyclesTypeOK
  BY DEF LifecyclesTypeOK
<1> QED BY <1>1, LifecyclesImplementTheirParts, LifecycleIsTyped, SessionIsTyped, LoginIsTyped, RatingsAreTyped,
           LineupIsTyped, InboxIsTyped, PaymentsAreTyped, OtpIsTyped, ContactIsTyped,
           GrantIsTyped, OnboardingIsTyped, CancellationIsTyped, ControlledIsTyped,
           ChatIsTyped, NotesAreTyped, LevelIsAlwaysFair, ReassessmentIsTyped,
           PhotoIsTyped, AvailabilityIsTyped, CreationIsTyped, PTL
       DEF EachPart

\* However the onboarding and the reassessment cross, what a player is shown of
\* his level is what the rows keep, and the survey gives every answer its due.
THEOREM LevelsAreAlwaysTrue == LifecyclesSpec => []LevelsAreTrue
<1>1. OnboardingIsTrue /\ ShownLevelIsKept /\ LevelIsFair => LevelsAreTrue
  BY DEF LevelsAreTrue
<1> QED BY <1>1, LifecyclesImplementTheirParts, OnboardingIsAlwaysTrue, ShownLevelIsAlwaysKept,
           LevelIsAlwaysFair, PTL DEF EachPart

\* What is proved of each part holds of the parts as they are run: what the
\* rows say is so and explained, whatever was lost, late, repeated or crossed.
THEOREM LifecyclesAreSound ==
  LifecyclesSpec =>
    /\ []ReservationIsExplained /\ []LoginsAreSound /\ []RatingsAreExact /\ []LineupIsTrue
    /\ []MoneyIsAccountedFor /\ []CodesAndGrantsAreSound /\ []CancellationIsTrue
    /\ []HoldsAreHonest /\ []FeedsAreTrue
BY LifecyclesImplementTheirParts, ReservationStaysExplained, LoginsAreAlwaysSound,
   RatingsAreAlwaysExact, LineupIsAlwaysTrue, MoneyIsAlwaysAccountedFor,
   CodesAndGrantsStaySound, CancellationStaysTrue, HoldsAreAlwaysHonest, FeedsAreAlwaysTrue, PTL
   DEF EachPart

\* No step of the parts as they are run takes an outcome back, breaks what page,
\* storage and server agree on of a session, or fills the inbox beyond its bound.
THEOREM LifecyclesStepSoundly ==
  LifecyclesSpec => OutcomesStand /\ SessionsAreSound /\ InboxKeepsItsBound
BY LifecyclesImplementTheirParts, OutcomesAlwaysStand, SessionsStaySound,
   InboxAlwaysKeepsItsBound, PTL DEF EachPart
=============================================================================
