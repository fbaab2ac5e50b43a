--------------------------- MODULE PlayerOnboarding ---------------------------
(***************************************************************************)
(* The onboarding of one account: the pages in which its player fills in   *)
(* the profile, ticks the documents and answers the survey, the requests   *)
(* they send again or stop listening to, and the rows of the server, which *)
(* are guarded by a revision.  The documents may get a new version at any  *)
(* time; a page shows the documents of the build it was opened with.       *)
(***************************************************************************)
EXTENDS Integers, FiniteSets

CONSTANTS Tabs,         \* pages of the one player
          Profiles,     \* contents of a profile form
          Surveys,      \* complete answers to the survey
          MaxRequests,  \* requestNumber < MAX_REQUESTS
          MaxRevision,  \* bound: no page starts over beyond this revision
          MaxPolicy,    \* bound: versions of the documents are 1..MaxPolicy
          MaxLate       \* bound: requests served after their page stopped listening

ASSUME OnboardingAssumption == MaxRequests \in Nat \ {0} /\ MaxPolicy \in Nat \ {0}

VARIABLES
  onboarding,  \* the state, profile and consent rows of the account
  policy,      \* the version of the documents the server runs with
  tab,         \* the pages
  unheard,        \* requests under way that no page listens to
  ticked       \* history: the versions whose boxes the player has ticked

onboardingVars == <<onboarding, policy, tab, unheard, ticked>>

NothingYet == "none"
Versions == 1..MaxPolicy
Consents == [version : Versions, flow : {"tma_v1", "tma_legal_reconsent_v1"}]

\* What a read answers; a completed onboarding answers only whether its
\* consents are current.
View(row) ==
  [step |-> row.step, revision |-> row.revision,
   versions |-> {c.version : c \in row.consents},
   current |-> \E c \in row.consents : c.version = policy]

NoBody == [kind |-> "none", expected |-> 0, version |-> 0, value |-> NothingYet]
Opened(config, row) ==
  [view |-> View(row), config |-> config, body |-> NoBody, onWire |-> FALSE, tries |-> 0,
   saved |-> NothingYet, passed |-> NothingYet, told |-> NothingYet]
Waits(t) == tab[t].body # NoBody

OnboardingInit ==
  /\ onboarding = [step |-> "profile", revision |-> 0, profile |-> NothingYet,
                   answers |-> NothingYet, consents |-> {}]
  /\ policy = 1 /\ unheard = {} /\ ticked = {}
  /\ tab = [t \in Tabs |-> Opened(1, onboarding)]

-----------------------------------------------------------------------------
(* The server: each request is one transaction behind the lock of its rows. *)

Consented(version, flow) == [version |-> version, flow |-> flow] \in onboarding.consents
InProgress == onboarding.revision # 0 /\ onboarding.step # "completed"
Before(step) == IF step = "consents" THEN "profile" ELSE "consents"
Advances(b) == b.kind \in {"consents", "level_survey"}

\* The service knows only the documents it runs with.
Served(b) == b.kind \in {"level_survey", "complete", "accept"} => b.version = policy

\* The request does what it asks for.
Accepts(b) ==
  /\ Served(b)
  /\ \/ b.kind = "draft" /\ onboarding.step # "completed" /\ onboarding.revision = b.expected
     \/ /\ Advances(b) /\ InProgress /\ onboarding.revision = b.expected
        /\ onboarding.step = Before(b.kind) /\ onboarding.profile # NothingYet
     \/ /\ b.kind = "complete" /\ InProgress /\ onboarding.revision = b.expected
        /\ onboarding.step = "level_survey" /\ onboarding.profile # NothingYet
     \/ b.kind = "accept" /\ onboarding.step = "completed"

\* mutant of AlreadyDone: a completed onboarding answers every completion
AlreadyDoneAny(b) ==
  /\ Served(b) /\ onboarding.revision = b.expected + 1
  /\ \/ /\ Advances(b) /\ InProgress /\ onboarding.step = b.kind
        /\ b.kind = "level_survey" => Consented(b.version, "tma_v1")
     \/ b.kind = "complete" /\ onboarding.step = "completed"
\* The request was done before, as far as the rows tell.
AlreadyDone(b) ==
  /\ Served(b) /\ onboarding.revision = b.expected + 1
  /\ \/ /\ Advances(b) /\ InProgress /\ onboarding.step = b.kind
        /\ b.kind = "level_survey" => Consented(b.version, "tma_v1")
     \/ /\ b.kind = "complete" /\ onboarding.step = "completed"
        /\ onboarding.answers = b.value /\ Consented(b.version, "tma_v1")

Stale(b) ==
  /\ Served(b) /\ ~Accepts(b) /\ ~AlreadyDone(b)
  /\ \/ b.kind = "draft" /\ onboarding.step # "completed"
     \/ b.kind = "complete" /\ InProgress /\ onboarding.revision # b.expected
     \/ /\ Advances(b) /\ InProgress
        /\ onboarding.revision \notin {b.expected, b.expected + 1}

\* ON CONFLICT (account, kind, version) DO NOTHING, whatever the flow was.
WithConsent(version, flow) ==
  onboarding.consents \cup
    {c \in Consents : c.version = version /\ c.flow = flow
                        /\ \A d \in onboarding.consents : d.version # version}

RowAfter(b) ==
  IF ~Accepts(b) THEN onboarding
  ELSE CASE b.kind = "draft" ->
              [onboarding EXCEPT !.revision = @ + 1, !.profile = b.value]
         [] b.kind = "consents" ->
              [onboarding EXCEPT !.revision = @ + 1, !.step = "consents"]
         [] b.kind = "level_survey" ->
              [onboarding EXCEPT !.revision = @ + 1, !.step = "level_survey",
                 !.consents = WithConsent(policy, "tma_v1")]
         [] b.kind = "complete" ->
              [onboarding EXCEPT !.revision = @ + 1, !.step = "completed",
                 !.answers = b.value, !.consents = WithConsent(policy, "tma_v1")]
         [] b.kind = "accept" ->
              [onboarding EXCEPT !.consents = WithConsent(policy, "tma_legal_reconsent_v1")]

-----------------------------------------------------------------------------
(* The pages.                                                              *)

Body(kind, expected, version, value) ==
  [kind |-> kind, expected |-> expected, version |-> version, value |-> value]
Asking(page, b) == [page EXCEPT !.body = b, !.onWire = TRUE, !.tries = 1]
Idle(page) ==
  [page EXCEPT !.body = NoBody, !.onWire = FALSE, !.tries = 0, !.saved = NothingYet]

\* saveAndAdvance begins: both boxes are ticked and the form is complete.
Continue(t, profile) ==
  /\ ~Waits(t) /\ tab[t].view.step \in {"profile", "consents"}
  /\ tab[t].view.revision < MaxRevision
  /\ ticked' = ticked \cup {tab[t].config}
  /\ tab' = [tab EXCEPT ![t] = Asking(@, Body("draft", @.view.revision, 0, profile))]
  /\ UNCHANGED <<onboarding, policy, unheard>>

\* The survey is offered only while the page knows the consents to be current.
CanComplete(t) ==
  tab[t].view.step = "level_survey" /\ tab[t].config \in tab[t].view.versions

Finish(t, answers) ==
  /\ ~Waits(t) /\ CanComplete(t)
  /\ tab' = [tab EXCEPT ![t] =
               Asking(@, Body("complete", @.view.revision, @.config, answers))]
  /\ UNCHANGED <<onboarding, policy, unheard, ticked>>

Reaccept(t) ==
  /\ ~Waits(t) /\ tab[t].view.step = "completed" /\ ~tab[t].view.current
  /\ ticked' = ticked \cup {tab[t].config}
  /\ tab' = [tab EXCEPT ![t] = Asking(@, Body("accept", 0, @.config, NothingYet))]
  /\ UNCHANGED <<onboarding, policy, unheard>>

Reload(t) ==
  /\ ~Waits(t) /\ tab[t].view # View(onboarding)
  /\ tab' = [tab EXCEPT ![t].view = View(onboarding)]
  /\ UNCHANGED <<onboarding, policy, unheard, ticked>>

\* saveAndAdvance goes on with what the last answer said.
GoesOn(page, view, b) ==
  CASE b.kind = "draft" /\ view.step = "profile" ->
         Asking(page, Body("consents", view.revision, 0, NothingYet))
    [] b.kind \in {"draft", "consents"} /\ view.step = "consents" ->
         Asking(page, Body("level_survey", view.revision, page.config, NothingYet))
    [] OTHER -> Idle(page)

\* The page gets the answer of the server, whose rows are now row.  After
\* "stale" it reads them again.
Heard(page, b, row, answer) ==
  IF answer = "refused" THEN Idle(page)
  ELSE LET known == [page EXCEPT !.view = View(row)]
       IN IF answer = "stale" THEN Idle(known)
          ELSE CASE b.kind = "draft" -> GoesOn([known EXCEPT !.saved = b.value], known.view, b)
                 [] b.kind = "consents" -> GoesOn(known, known.view, b)
                 [] b.kind = "level_survey" -> Idle([known EXCEPT !.passed = known.saved])
                 [] b.kind = "complete" -> Idle([known EXCEPT !.told = b.value])
                 [] OTHER -> Idle(known)

AnswerTo(b) ==
  IF Accepts(b) \/ AlreadyDone(b) THEN "ok" ELSE IF Stale(b) THEN "stale" ELSE "refused"

\* The server does the request; its answer arrives, or is lost.
Handle(t) ==
  LET b == tab[t].body
  IN /\ tab[t].onWire
     /\ onboarding' = RowAfter(b)
     /\ tab' = [tab EXCEPT ![t] = Heard(@, b, onboarding', AnswerTo(b))]
     /\ UNCHANGED <<policy, unheard, ticked>>
HandleUnheard(t) ==
  /\ tab[t].onWire
  /\ onboarding' = RowAfter(tab[t].body)
  /\ tab' = [tab EXCEPT ![t].onWire = FALSE]
  /\ UNCHANGED <<policy, unheard, ticked>>

\* The page stops to listen: the request is lost, or served later.
StopsListening(t) ==
  \/ UNCHANGED unheard
  \/ tab[t].onWire /\ Cardinality(unheard) < MaxLate /\ unheard' = unheard \cup {tab[t].body}

\* The client sends the same body again, unless the answer may have been the
\* one to a draft.
SendAgain(t) ==
  /\ Waits(t) /\ tab[t].tries < MaxRequests
  /\ \/ tab[t].body.kind # "draft" /\ StopsListening(t)
     \/ tab[t].onWire /\ UNCHANGED unheard      \* 503: nothing was done
  /\ tab' = [tab EXCEPT ![t].onWire = TRUE, ![t].tries = @ + 1]
  /\ UNCHANGED <<onboarding, policy, ticked>>

\* unknown_outcome for a draft, temporary_unavailable after the last try.
StopTrying(t) ==
  /\ Waits(t)
  /\ tab[t].body.kind = "draft" \/ tab[t].tries = MaxRequests
  /\ StopsListening(t)
  /\ tab' = [tab EXCEPT ![t] = Idle(@)]
  /\ UNCHANGED <<onboarding, policy, ticked>>

\* The player opens the page again, with the build of today.
OpenAgain(t) ==
  /\ StopsListening(t)
  /\ tab' = [tab EXCEPT ![t] = Opened(policy, onboarding)]
  /\ UNCHANGED <<onboarding, policy, ticked>>

HandleLate(b) ==
  /\ onboarding' = RowAfter(b) /\ unheard' = unheard \ {b}
  /\ UNCHANGED <<policy, tab, ticked>>

\* Server and build are deployed with a new version of the documents.
PublishDocuments ==
  /\ policy < MaxPolicy /\ policy' = policy + 1
  /\ UNCHANGED <<onboarding, tab, unheard, ticked>>

OnboardingNext ==
  \/ \E t \in Tabs :
       \/ \E p \in Profiles : Continue(t, p)
       \/ \E a \in Surveys : Finish(t, a)
       \/ Reaccept(t) \/ Reload(t) \/ Handle(t) \/ HandleUnheard(t)
       \/ SendAgain(t) \/ StopTrying(t) \/ OpenAgain(t)
  \/ \E b \in unheard : HandleLate(b)
  \/ PublishDocuments

OnboardingSpec == OnboardingInit /\ [][OnboardingNext]_onboardingVars

\* A player who goes on: what a page offers is pressed, a page with old
\* documents is opened again, and the server answers now and then.
PlayerGoesOn ==
  \A t \in Tabs :
    /\ WF_onboardingVars(\E p \in Profiles : Continue(t, p))
    /\ WF_onboardingVars(\E a \in Surveys : Finish(t, a))
    /\ WF_onboardingVars(Reaccept(t) \/ Reload(t) \/ SendAgain(t) \/ StopTrying(t))
    /\ SF_onboardingVars(Handle(t))
    /\ SF_onboardingVars(tab[t].config # policy /\ OpenAgain(t))

FairOnboarding == OnboardingSpec /\ PlayerGoesOn

-----------------------------------------------------------------------------
(* Properties                                                              *)

\* Every variable keeps its type.
OnboardingTypeOK ==
  /\ onboarding.step \in {"profile", "consents", "level_survey", "completed"}
  /\ onboarding.revision \in Nat /\ onboarding.consents \subseteq Consents
  /\ policy \in Versions /\ ticked \subseteq Versions
  /\ \A t \in Tabs : tab[t].config \in Versions /\ tab[t].tries \in 0..MaxRequests

\* The server records no consent to documents that this player has not ticked
\* in that version, whatever was published between the page and the server.
ConsentsWereTicked == {c.version : c \in onboarding.consents} \subseteq ticked

\* What a page was told is so: the answers it completed with, and the profile
\* it came through with, are the ones of the rows, whichever page was first
\* and whichever request was repeated.
PagesWereToldTheTruth ==
  \A t \in Tabs :
    /\ tab[t].told # NothingYet =>
         onboarding.step = "completed" /\ onboarding.answers = tab[t].told
    /\ tab[t].passed # NothingYet => onboarding.profile = tab[t].passed

OnboardingIsTrue == ConsentsWereTicked /\ PagesWereToldTheTruth

\* A survey that waits "until the configuration of the documents is current"
\* is completed once no newer documents come.
WaitsOnlyForDocuments ==
  (onboarding.step = "level_survey" /\ policy = MaxPolicy) ~> onboarding.step = "completed"
=============================================================================
