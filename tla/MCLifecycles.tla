----------------------------- MODULE MCLifecycles -----------------------------
(* Twenty lifecycles in one run: each keeps state of its own, so a beha-      *)
(* viour is one of them ("scene") and leaves the others where they begin.    *)
EXTENDS ReservationLifecycle, PlayerSession, TelegramLogin, MatchRatings,
        MatchLineup, WebhookInbox, Payments, OtpChallenge,
        ContactVerification, ScopedGrant, PlayerOnboarding,
        ReservationCancellation, ControlledRun, MatchChat,
        NotificationCentre, LevelSurvey, LevelReassessment, ProfilePhoto,
        BookingAvailability, MatchCreation, SharedProperties,
        FeedProperties, TLC

CONSTANTS t1,   \* a slot
          k1, k2   \* idempotency keys

VARIABLE scene   \* the part that runs

MCOwner == ("p1" :> "ann") @@ ("p2" :> "ann") @@ ("q1" :> "bob")
MCWinners == ("m1" :> {1, 2}) @@ ("m2" :> {1, 2})
MCLosers == ("m1" :> {3}) @@ ("m2" :> {4})
MCSubmitter == ("m1" :> 1) @@ ("m2" :> 2)
MCFilled == {[q \in QuestionCodes |-> points] : points \in {0, 4}}
MCBusy == {{0}}
MCReferences == (k1 :> {"own"}) @@ (k2 :> {"own", "other"})

Scenes ==
  {"reservation", "session", "login", "ratings", "lineup", "inbox",
   "payment", "otp", "contact", "grant", "onboarding", "cancellation",
   "controlled", "chat", "notes", "survey", "reassessment", "photo",
   "availability", "creation"}

LifecyclesInit ==
  /\ scene \in Scenes
  /\ Init /\ SessionInit /\ LoginInit
  /\ RatingsInit /\ LineupInit /\ InboxInit
  /\ PaymentInit /\ OtpInit /\ ProofInit
  /\ GrantInit /\ OnboardingInit /\ CancellationInit
  /\ ControlledInit /\ ChatInit /\ NotesInit
  /\ SurveyInit /\ ReassessmentInit /\ PhotoInit
  /\ AvailabilityInit /\ CreationInit
  /\ scene # "login" => accounts = {}
  /\ scene # "photo" => photo.version = 0
  /\ scene # "reservation" => reservation.target = t1
  /\ scene # "grant" => \A s \in GrantSessions : lives[s].from = 0 /\ lives[s].to = 1

ReservationScene ==
  /\ scene = "reservation" /\ Next
  /\ UNCHANGED <<scene, sessionVars, loginVars, ratingsVars, lineupVars,
                 inboxVars, paymentVars, otp, proof, grantVars,
                 onboardingVars, cancelVars, controlledVars, chatVars,
                 notesVars, survey, reassessmentVars, photoVars,
                 screenVars, creationVars>>
SessionScene ==
  /\ scene = "session" /\ SessionNext
  /\ UNCHANGED <<scene, vars, loginVars, ratingsVars, lineupVars,
                 inboxVars, paymentVars, otp, proof, grantVars,
                 onboardingVars, cancelVars, controlledVars, chatVars,
                 notesVars, survey, reassessmentVars, photoVars,
                 screenVars, creationVars>>
LoginScene ==
  /\ scene = "login" /\ LoginNext
  /\ UNCHANGED <<scene, vars, sessionVars, ratingsVars, lineupVars,
                 inboxVars, paymentVars, otp, proof, grantVars,
                 onboardingVars, cancelVars, controlledVars, chatVars,
                 notesVars, survey, reassessmentVars, photoVars,
                 screenVars, creationVars>>
RatingsScene ==
  /\ scene = "ratings" /\ RatingsNext
  /\ UNCHANGED <<scene, vars, sessionVars, loginVars, lineupVars,
                 inboxVars, paymentVars, otp, proof, grantVars,
                 onboardingVars, cancelVars, controlledVars, chatVars,
                 notesVars, survey, reassessmentVars, photoVars,
                 screenVars, creationVars>>
LineupScene ==
  /\ scene = "lineup" /\ LineupNext
  /\ UNCHANGED <<scene, vars, sessionVars, loginVars, ratingsVars,
                 inboxVars, paymentVars, otp, proof, grantVars,
                 onboardingVars, cancelVars, controlledVars, chatVars,
                 notesVars, survey, reassessmentVars, photoVars,
                 screenVars, creationVars>>
InboxScene ==
  /\ scene = "inbox" /\ InboxNext
  /\ UNCHANGED <<scene, vars, sessionVars, loginVars, ratingsVars,
                 lineupVars, paymentVars, otp, proof, grantVars,
                 onboardingVars, cancelVars, controlledVars, chatVars,
                 notesVars, survey, reassessmentVars, photoVars,
                 screenVars, creationVars>>
PaymentScene ==
  /\ scene = "payment" /\ PaymentNext
  /\ UNCHANGED <<scene, vars, sessionVars, loginVars, ratingsVars,
                 lineupVars, inboxVars, otp, proof, grantVars,
                 onboardingVars, cancelVars, controlledVars, chatVars,
                 notesVars, survey, reassessmentVars, photoVars,
                 screenVars, creationVars>>
OtpScene ==
  /\ scene = "otp" /\ OtpNext
  /\ UNCHANGED <<scene, vars, sessionVars, loginVars, ratingsVars,
                 lineupVars, inboxVars, paymentVars, proof, grantVars,
                 onboardingVars, cancelVars, controlledVars, chatVars,
                 notesVars, survey, reassessmentVars, photoVars,
                 screenVars, creationVars>>
ProofScene ==
  /\ scene = "contact" /\ ProofNext
  /\ UNCHANGED <<scene, vars, sessionVars, loginVars, ratingsVars,
                 lineupVars, inboxVars, paymentVars, otp, grantVars,
                 onboardingVars, cancelVars, controlledVars, chatVars,
                 notesVars, survey, reassessmentVars, photoVars,
                 screenVars, creationVars>>
GrantScene ==
  /\ scene = "grant" /\ GrantNext
  /\ UNCHANGED <<scene, vars, sessionVars, loginVars, ratingsVars,
                 lineupVars, inboxVars, paymentVars, otp, proof,
                 onboardingVars, cancelVars, controlledVars, chatVars,
                 notesVars, survey, reassessmentVars, photoVars,
                 screenVars, creationVars>>
OnboardingScene ==
  /\ scene = "onboarding" /\ OnboardingNext
  /\ UNCHANGED <<scene, vars, sessionVars, loginVars, ratingsVars,
                 lineupVars, inboxVars, paymentVars, otp, proof, grantVars,
                 cancelVars, controlledVars, chatVars, notesVars, survey,
                 reassessmentVars, photoVars, screenVars, creationVars>>
CancellationScene ==
  /\ scene = "cancellation" /\ CancellationNext
  /\ UNCHANGED <<scene, vars, sessionVars, loginVars, ratingsVars,
                 lineupVars, inboxVars, paymentVars, otp, proof, grantVars,
                 onboardingVars, controlledVars, chatVars, notesVars,
                 survey, reassessmentVars, photoVars, screenVars,
                 creationVars>>
ControlledScene ==
  /\ scene = "controlled" /\ ControlledNext
  /\ UNCHANGED <<scene, vars, sessionVars, loginVars, ratingsVars,
                 lineupVars, inboxVars, paymentVars, otp, proof, grantVars,
                 onboardingVars, cancelVars, chatVars, notesVars, survey,
                 reassessmentVars, photoVars, screenVars, creationVars>>
ChatScene ==
  /\ scene = "chat" /\ ChatNext
  /\ UNCHANGED <<scene, vars, sessionVars, loginVars, ratingsVars,
                 lineupVars, inboxVars, paymentVars, otp, proof, grantVars,
                 onboardingVars, cancelVars, controlledVars, notesVars,
                 survey, reassessmentVars, photoVars, screenVars,
                 creationVars>>
NotesScene ==
  /\ scene = "notes" /\ NotesNext
  /\ UNCHANGED <<scene, vars, sessionVars, loginVars, ratingsVars,
                 lineupVars, inboxVars, paymentVars, otp, proof, grantVars,
                 onboardingVars, cancelVars, controlledVars, chatVars,
                 survey, reassessmentVars, photoVars, screenVars,
                 creationVars>>
SurveyScene ==
  /\ scene = "survey" /\ SurveyNext
  /\ UNCHANGED <<scene, vars, sessionVars, loginVars, ratingsVars,
                 lineupVars, inboxVars, paymentVars, otp, proof, grantVars,
                 onboardingVars, cancelVars, controlledVars, chatVars,
                 notesVars, reassessmentVars, photoVars, screenVars,
                 creationVars>>
ReassessmentScene ==
  /\ scene = "reassessment" /\ ReassessmentNext
  /\ UNCHANGED <<scene, vars, sessionVars, loginVars, ratingsVars,
                 lineupVars, inboxVars, paymentVars, otp, proof, grantVars,
                 onboardingVars, cancelVars, controlledVars, chatVars,
                 notesVars, survey, photoVars, screenVars, creationVars>>
PhotoScene ==
  /\ scene = "photo" /\ PhotoNext
  /\ UNCHANGED <<scene, vars, sessionVars, loginVars, ratingsVars,
                 lineupVars, inboxVars, paymentVars, otp, proof, grantVars,
                 onboardingVars, cancelVars, controlledVars, chatVars,
                 notesVars, survey, reassessmentVars, screenVars,
                 creationVars>>
AvailabilityScene ==
  /\ scene = "availability" /\ AvailabilityNext
  /\ UNCHANGED <<scene, vars, sessionVars, loginVars, ratingsVars,
                 lineupVars, inboxVars, paymentVars, otp, proof, grantVars,
                 onboardingVars, cancelVars, controlledVars, chatVars,
                 notesVars, survey, reassessmentVars, photoVars,
                 creationVars>>
CreationScene ==
  /\ scene = "creation" /\ CreationNext
  /\ UNCHANGED <<scene, vars, sessionVars, loginVars, ratingsVars,
                 lineupVars, inboxVars, paymentVars, otp, proof, grantVars,
                 onboardingVars, cancelVars, controlledVars, chatVars,
                 notesVars, survey, reassessmentVars, photoVars,
                 screenVars>>

LifecyclesNext ==
  \/ ReservationScene
  \/ SessionScene
  \/ LoginScene
  \/ RatingsScene
  \/ LineupScene
  \/ InboxScene
  \/ PaymentScene
  \/ OtpScene
  \/ ProofScene
  \/ GrantScene
  \/ OnboardingScene
  \/ CancellationScene
  \/ ControlledScene
  \/ ChatScene
  \/ NotesScene
  \/ SurveyScene
  \/ ReassessmentScene
  \/ PhotoScene
  \/ AvailabilityScene
  \/ CreationScene

lifecyclesVars ==
  <<scene, vars, sessionVars, loginVars, ratingsVars, lineupVars,
    inboxVars, paymentVars, otp, proof, grantVars, onboardingVars,
    cancelVars, controlledVars, chatVars, notesVars, survey,
    reassessmentVars, photoVars, screenVars, creationVars>>

\* Only the part that runs tells two states apart; the others never move.
Moving ==
  CASE scene = "reservation" -> <<scene, vars>>
    [] scene = "session" -> <<scene, sessionVars>>
    [] scene = "login" -> <<scene, loginVars>>
    [] scene = "ratings" -> <<scene, ratingsVars>>
    [] scene = "lineup" -> <<scene, lineupVars>>
    [] scene = "inbox" -> <<scene, inboxVars>>
    [] scene = "payment" -> <<scene, paymentVars>>
    [] scene = "otp" -> <<scene, otp>>
    [] scene = "contact" -> <<scene, proof>>
    [] scene = "grant" -> <<scene, grantVars>>
    [] scene = "onboarding" -> <<scene, onboardingVars>>
    [] scene = "cancellation" -> <<scene, cancelVars>>
    [] scene = "controlled" -> <<scene, controlledVars>>
    [] scene = "chat" -> <<scene, chatVars>>
    [] scene = "notes" -> <<scene, notesVars>>
    [] scene = "survey" -> <<scene, survey>>
    [] scene = "reassessment" -> <<scene, reassessmentVars>>
    [] scene = "photo" -> <<scene, photoVars>>
    [] scene = "availability" -> <<scene, screenVars>>
    [] scene = "creation" -> <<scene, creationVars>>

LifecyclesSpec == LifecyclesInit /\ [][LifecyclesNext]_lifecyclesVars

\* Every variable of the scene that runs keeps its type; the others never move.
LifecyclesTypeOK ==
  /\ scene = "reservation" => TypeOK
  /\ scene = "session" => SessionTypeOK
  /\ scene = "login" => LoginTypeOK
  /\ scene = "ratings" => RatingsTypeOK
  /\ scene = "lineup" => LineupTypeOK
  /\ scene = "inbox" => InboxTypeOK
  /\ scene = "payment" => PaymentTypeOK
  /\ scene = "otp" => OtpTypeOK
  /\ scene = "contact" => ProofTypeOK
  /\ scene = "grant" => GrantTypeOK
  /\ scene = "onboarding" => OnboardingTypeOK
  /\ scene = "cancellation" => CancellationTypeOK
  /\ scene = "controlled" => ControlledTypeOK
  /\ scene = "chat" => ChatTypeOK
  /\ scene = "notes" => NotesTypeOK
  /\ scene = "survey" => SurveyTypeOK
  /\ scene = "reassessment" => ReassessmentTypeOK
  /\ scene = "photo" => PhotoTypeOK
  /\ scene = "availability" => AvailabilityTypeOK
  /\ scene = "creation" => CreationTypeOK

\* However the onboarding and the reassessment cross, what a player is shown of
\* his level is what the rows keep, and the survey gives every answer its due.
LevelsAreTrue ==
  /\ scene = "onboarding" => OnboardingIsTrue
  /\ scene = "reassessment" => ShownLevelIsKept
  /\ scene = "survey" => LevelIsFair
===============================================================================
