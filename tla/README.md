# A formal model of the Prosto Padel back end

TLA+ modules, TLC runs and TLAPS proofs kept beside the code of the Telegram
mini app of a padel club.  Paths below are relative to the repository.

## 1. The system

Players open a Telegram mini app (React, `src/`), which talks to a NestJS
server (`backend/src`).  The server keeps its state in PostgreSQL
(`docs/migrations`), books courts in YCLIENTS, the club's calendar service, and
writes to players through the Telegram bot API.  Several server instances run at
once.  Apart from the request queue of the limiter nothing is kept in memory
that matters: every step that counts is a database transaction, and between two
transactions other instances, the calendar, the clock and crashes act.

| Component | State | Operations | Interacts with | What makes it correct |
|---|---|---|---|---|
| Reservation rules (`reservations/`) | statuses of a reservation and of its operations | create, reschedule, cancel; confirm, reject, mark unknown, reconcile | used by every repository | one active operation at a time; outcomes are final; a failed change changes nothing |
| Court booking (`bookings/booking-reservation.service.ts`, `database/postgres-court-reservation.repository.ts`) | `court_reservations`, `reservation_operations`, `reservation_slot_holds` | create, list, read | calendar (POST), limiter, notification intents | no double hold; one POST per key; rows agree; the player's answer is true; nothing pends for ever |
| Court refresh (same service, `matches/match-reservation.state-machine.ts`, `database/postgres-match-reservation.repository.ts`) | the same rows, `match_reservation_links`, `match_reservation_events` | read, refresh, link | calendar (GET, list), matches | a late answer never overwrites a newer one; only a deleted record cancels; links follow the court |
| Reservation cancellation (`reservations/reservation-cancellation.*`) | the same rows | cancel | calendar (DELETE), court refresh | one DELETE per operation; the court is given back only on a deleted record |
| YCLIENTS clients and limiter (`integrations/yclients/`) | request queue, permits of the last minute | book, check, get, list | calendar | order, rate and queue bounds; one attempt per call |
| Reconciliation and webhooks | leases, signal inbox | lease, compare, complete; record a signal | court refresh, intents | one worker per lease; no untrue message; bounded inbox |
| Matches, waitlist and offers, invitations | matches, participants, queue, timed offers, commands | create, join, leave, describe; enqueue, offer, accept, decline, lapse; invite, accept, decline, cancel | one another, under the row lock of the match | a slot has one claim; no slot stays free beside a queue; first come, first served; a command runs once |
| Line-up | assignments to the four places | take, change, give back a place; lock with the result | participants | four distinct places, of players of the match; locked with the result |
| Results and rating | results, rating states, ledger | submit, confirm, dispute, set a rating | matches, links | a rating is applied once, from the ratings it was computed from; no deadlock |
| Telegram notifications | outbox, intents, destinations | enqueue, claim, send, retry, abandon | bot API | at most one delivery; no message stuck for ever |
| Sessions | session families, credentials; secure storage of the page | login, refresh, check, logout, expire | login | a credential works once; a lost answer can be asked for again; reuse ends the session |
| Telegram login | login operations, consumed proofs, accounts | prove, resolve the account, start the session | accounts, sessions | a proof starts one session, of its owner; a crash can be resumed |
| Onboarding | profile, consents, survey; revision | complete the profile, accept, advance, complete | the page and its client | nothing is recorded that the player has not sent; no repeated request is told another's answers are its own |
| One-time codes, grants, contacts | command histories | create, verify, resend, consume, expire, revoke | (not wired up) | attempt budgets; used once, by the right side, in time |
| Payments | orders, attempts | start, confirm, fail, reconcile | acquirer (not wired up) | one unresolved attempt; every charge is accounted for |
| Match chat | messages of a match, commands; the chat on the screen | list, poll, send, repeat | matches, intents | a message is stored and announced once; what the player is told stands |
| Notifications of a player | rows with their read mark; the page and its badge | load, poll, mark as read | matches | badge, page and rows agree through overtaking answers |
| Controlled test of YCLIENTS (`yclients-controlled-*`) | approval, consumed and binding files; a record of its own | book, move, delete, clean up | calendar | one approval books once; a report names every slot left in danger |
| Reassessment of the level | answers and level of a round; revision | read, complete | the page, several devices | one evidence per player; nobody is shown a level that the rows do not keep |
| Booking page (`BookingScreen.jsx`, `privateBookingSlotSelection.js`) | what is loaded, the chosen half-hours; the queue of reads | load, refresh, choose a date, a court, half-hours | calendar | what can be chosen was read for what is shown |
| Making a match on a court | match, link, command; the form on the page | read the court, create, link | court refresh, matches | one match per reservation, at the court it has |
| Profile photo | pointer, ledger of assets, stored objects | upload, delete, read | object storage, the page | the active photo is stored, the ones before it are removed |
| Profiles, trainings, CRM binding | single rows | versioned reads and writes | | no lost update |

The hard behaviours come from three sources.  A booking spans three
transactions and a call to a calendar that offers no idempotency key and may
answer after its timeout, and the staff change the calendar behind the server's
back.  Matches, seats, queues and ratings are shared by players who act at once.
And everything a page sends may be sent again, arrive late, or be answered to
nobody.

## 2. The modules

| Module | Models | State and actions |
|---|---|---|
| `ReservationRules` | `reservation.state-machine.ts` | operators on statuses, shared by the others |
| `ReservationLifecycle` | one reservation with all of its operations | `Start`, `Transition`: the two functions of the state machine, called by anybody with anything at any time |
| `BookingReservation` | `create`, and the part of `read` without a provider record | per key the rows `status`, `op`, `hold`, `intents`; per request its place in the handler, claim and answer; `post`, the fate of its POST |
| `CourtRefresh` | the part of `read` with a provider record, and the links of matches | `res`, `hold`, `link`, `match`, `announced`; per read what it read and found; `record`, the calendar |
| `CourtPromise` | abstract: what the club promises about courts | `Hold`, `Book`, `Move`, `Close`; implemented by the two modules above |
| `ReservationCancellation` | `ReservationCancellationService.request` beside a reader and the staff | the row, one operation per key, the requests, `deleting` (DELETEs that may still arrive), `entry`, the calendar |
| `Reconciliation` | the scheduler, its leases, the refresh and the messages it leaves | per booking its row, record and lease; per scheduler what it has read; `FiveMinutesPass`, `LeaseRunsOut` |
| `RequestLimiter` | the queue to YCLIENTS of one process | the chain of promises, the permit being waited for, the ages of the last starts, the timer |
| `WebhookInbox` | the signals of the calendar | deliveries of two statements (lock; insert with a count of its own snapshot), committed rows |
| `TelegramDelivery` | both dispatchers with the two tables and the destination | claim, send, write the outcome, with stalls, crashes and lost answers between |
| `OfferSweep` | the ticks that settle the offers whose time is over, of all matches and processes | per match its active `offers` row, as far as the sweep looks at it; per process the matches its `tick` has still to visit |
| `MatchSeats` | join, leave, invitations, waitlist, offers, sweep of one match | the slots' claims, the queue, the offer, recorded commands; a handler is an action, because each locks the row of the match first |
| `MatchLineup` | taking and giving back places, departures, the result | transactions with their row locks and the snapshot each statement reads |
| `MatchRatings` | confirm, dispute, the rating and its ledger, an administrator | the row locks in their order, what was read under them, the rows |
| `PlayerSession` | the page, its client and secure storage, and the session rows | login, refresh, check, logout; messages under way, late or given up |
| `TelegramLogin` | the transactions of a login | operations, consumed proofs, accounts, identities, sessions; requests with their keys and seconds |
| `PlayerOnboarding` | pages, their requests, the rows with their revision, the versions of the documents | `SaveProfile`, `Accept`, `Advance`, `Complete` and the page that follows them |
| `LevelSurvey` | the questions, their score with its caps, and the page that asks them one by one | the sheet of answers; `Level`, an operator on sheets |
| `LevelReassessment` | a new survey from several devices | the one row of evidence, requests with their repeats, what each gate shows |
| `ProfilePhoto` | uploads and deletions of a photo, the page that starts them | the pointer, the ledger of assets, the objects in the storage; a request writes objects, commits, and removes or undoes objects |
| `BookingAvailability` | the booking page and its loads | `screen`, the scheduler `reads`, what others have `busy`; each load runs the effects that depend on it, and the one before it is no longer listened to |
| `MatchCreation` | a match made on a booked court, from the devices of its owner | the row and the record (`court`), `made`, `linked`; each device reads afresh (`ReadCourt`), then commits (`CommitCreation`) |
| `MatchChat` | the chat of the match on a player's screen, his messages with their repeats, the transactions that store them | `send` with its attempts on their way in `sending`, the latest request for messages in `list`; the match ends, and the player leaves, between any two steps |
| `NotificationCentre` | the notifications of a player, on his page and in their rows | loads and marks that overtake one another; a mark takes its snapshot (`BeginMark`) before it has the row (`EndMark`) |
| `ControlledRun` | the controlled test of YCLIENTS and its cleanup | the files, the record, writes that may still land (`flying`), each start with its step and its report |
| `OtpChallenge`, `ContactVerification`, `ScopedGrant`, `Payments` | the pure state machines with the validators that judge a state by its history | the state with its history; callers with any clock |
| `BookingReservationProof`, `CourtRefreshProof`, `MatchesProof`, `WorkersProof`, `ReservationsProof`, `FeedsProof`, `AccountsProof`, `LifecyclesProof` | theorems | |
| `SharedProperties`, `FeedProperties` | the properties that components of one kind have in common | |
| `MCBookingReservation`, `MCCourtRefresh`, `MCMatchSeats` | constants for TLC; `MCCourtRefresh` also two instances in one (`BothSpec`) | |
| `MCLifecycles`, `MCWorkers` | the modules that share no state with another, side by side: a behaviour belongs to one `scene` and leaves the others where they begin | |

**From code to actions.**  A transaction is one action where it locks one row
first (`FOR UPDATE` on the match, the idempotency lock) or where constraints
serialise it: it commits, fails without effect, or commits and is reported as
failed.  Where the order of locks or the snapshot of a statement matters
(`MatchLineup`, `MatchRatings`, `WebhookInbox`) a statement is an action.  The
handler's place between two transactions or provider calls is `pc`; a crash may
end it anywhere.

`Receive`, `Lookup`, `Availability`, `Start`, `Preflight`, `ClaimAttempt`,
`Dispatch`, `Await`, then `Confirm` or `MarkUnknown`, with `Fallback`, `Reject`,
`StaleRead` and `StaleMark`, follow `BookingReservationService.create` line by
line; `ReadClassify` and `ReadClaimScan` are the two transactions of
`readCanonical` without a binding.  `Begin`, `Found`, `NotFound`, `Scan`,
`Confirm`, `Refresh`, `Refuse` and `Fail` follow `readCanonical` with a binding.
`StartCancel`, `Delete`, `ReadExact`, `RejectCancel`, `Decide` follow the
cancelling service; `BeginTick` and `Visit` are `listDueMatchIds` and the body of
the loop of `sweepExpiredOffers`; in `TelegramLogin`, `MatchRatings` and the other modules
with a `pc` the actions likewise carry the names of the steps of the handler.

**Abstractions.**

- A `Slot` is a court from a start to an end.  In a booking it stands for the
  whole digested request: another slot under the same key is another digest.
- Checks of a body, of a profile, of a signature answer before any state is
  touched; a request that fails them is one that never arrives.
- Digests, derived identifiers and idempotency keys are equality of what they
  are computed from.  Secrets and their hashes are abstracted to who holds them.
- The clock of a transaction never runs backwards, so guards that reject a time
  before the last update are no-effect transactions, which the models have
  anyway.  `CourtRefresh`, `TelegramLogin` and the pure state machines have
  clock readings of their own, because there the compared times come from
  different callers or rows.
- Ages and deadlines are what the code asks of them: `age` stops at `StaleAge`,
  an offer is due or not, a message is available or not, a start is counted by
  the limiter until it is `Minute` old.
- In `BookingReservation` the version of a row is determined by its status and
  is left out; elsewhere it is the guard that orders writers.
- `read` first reads in one transaction and then decides in another, which
  checks again under the lock; only the second is modelled where the first
  selects nothing else.  `noteReconciliationAttempt` only counts, and is left
  out.
- The deferred trigger of migration 034 is a guard of `Complete`, where it
  bites; `CourtFollowsRow` shows that it never stops a refresh or a link.
- `CourtRefresh` and `Reconciliation` start from confirmed reservations, as
  `BookingReservation` leaves them.
- A chat, and the notifications of a player, fit on their first page.  A request
  to mark a notification that its page has given up is one of another device.
- The reads of the controlled test tell the truth or prove nothing, and the staff
  leave its slots alone, as its plan asks them to.
- `SweepOffer` of `MatchSeats` is what a visit does to one match.  When a visit
  comes, and whether, is in `OfferSweep`, where a match is its active offer and the
  handlers of `MatchSeats` are what they do to it: make it, answer it, close its
  entry.  An offer outlasts a tick, which the code's minutes against one loop make
  so, and a match that has started stands for every one that is not available.
- `MatchSeats` skips every entry of the queue that cannot be promoted at once,
  where the code tries eight per transaction.  The expected score of a rating is
  left out of its change, which is the player's factor with the sign of who won.

## 3. The runs

| Run | Question | Bounds and why they are enough |
|---|---|---|
| `booking` | Do retries, races, crashes, timeouts and lost commits break a booking? | 2 keys, 3 requests (two for one key, one for either), 2 overlapping slots.  Slots that do not overlap never meet in a guard, so two overlapping ones are the hard case; the theorems are for any `Overlap` |
| `booking_live` | Is every request answered, and every attempt classified? | 1 key, 2 requests |
| `booking_lost` | *violation*: is a court held while its POST may make a record? | 1 key, 2 requests |
| `refresh` | Do late answers, changes by staff and matches break a booked court? | 2 reservations, 2 matches, 2 reads, 2 changes.  `BothInit` joins two instances: where `r2` has the court `c` it rests, and two matches and two clock readings surround `r1`; elsewhere both reservations move about three slots of which two overlap |
| `refresh_live` | Is a move in the calendar discovered? | 1 reservation, 1 match, 2 changes |
| `refresh_unchanged`, `refresh_played` | *violations*: does the refresh of an unchanged reservation succeed; can a match with a court be completed? | 1 reservation, 1 match |
| `matches` | Is every place given away once, in the order of the queue, and passed on? | 4 players for 2 slots: a full match leaves two in the queue; 4 commands; one player may stop being eligible; offers on or off |
| `offers_stranded` | *violation*: can a direct join strand an offer? | the players and slots of `matches` |
| `workers` | Do crashes, stalls, leases and timers send, lose or hold up anything? | delivery: a row of each table, 2 dispatchers, 2 attempts, 2 destinations.  Reconciliation: 2 bookings, 2 schedulers, 1 booking a round, 2 changes.  Limiter: 4 callers, a queue of 3, 3 permits in a minute of 6 ticks, so the queue, the rate and the minute all fill.  Sweep: 2 processes, 2 matches, one of which makes a second offer, so that one is before the other in every tick; a batch of 2 lists both, so no offer has to wait for a later batch |
| `lifecycle` | Do races, repeats, lost answers and crashes break one of twenty lifecycles? | see below |
| `onboarding_stuck` | *violation*: does a survey wait only for current documents? | 1 page, 2 versions of the documents |

`lifecycle` chooses a scene: 3 operations of a reservation, so that a failed, an
uncertain and a successful change come in any order; 2 cancelling requests, 2
keys, 1 change by staff; 3 commands with 2 tries each in 2 session families; 2
logins with 3 proofs of 2 users in 2 different seconds; 2 rating matches that
share two players, with 2 resolvers and an administrator; 2 transactions on a
line-up of two places; 3 webhook deliveries to an inbox with room for 1; 2
attempts to pay; 3 commands on a code and on a contact, with a budget of 2; a
grant between 2 sessions; 2 pages of one onboarding with 1 late request each and
2 versions of the documents; 1 message with 2 tries while the player turns
between 2 matches; 2 notifications and 2 taps, so that two marks, or a mark and
a load, cross; 2 starts of the controlled test and 2 of its cleanup on the same
files; the survey with every sheet of answers, and a reassessment from 2
devices with 2 tries each and 2 sheets, the lowest and the highest; 2 changes of a photo;
a booking page with 2 courts, 2 dates, 3 durations, 5 half-hours, 2 choices of
the player and 1 of another; a match made from 2 devices with 3 presses and 2
changes by staff.  Two parties that cross and a third step that
repeats or overtakes are what every property of these modules needs to fail, as
their mutants show; counters (`MaxRevision`, `MaxCommands`, `MaxRequests`,
`MaxStaffEdits` and the like) bound only how often the environment acts.

The cfg gives TLC a `VIEW`, `Moving`: the variables of the scene that runs, as the
others never change; it changes the fingerprint and not the states.

Deadlock is not checked where a run ends: requests are done, operations used up.

**What they show.**

- *Booking.*  At most one POST leaves per key (`AtMostOnePost`); the three rows
  agree and no two reservations hold overlapping slots (`RowsAreSound`); a
  confirmation or a message rests on a record for the held slot, and what a
  refused request has sent and read bears its refusal out (`AnswersAreBacked`): it
  has sent no POST itself, a refusal by the provider stands on an operation that
  is rejected, and a conflict on a key used for another slot.  It does not say
  that the player has no booking: another request of the key may make one, as the
  trace of `booking_lost` shows.  Outcomes are final, once an attempt is claimed
  only a rejecting retry gives the court back, and after a rejection of a key
  that no request had claimed nobody sends a POST for it (`CommitmentsStand`).
- *Refresh.*  Hold and link are where the reservation is (`CourtFollowsRow`);
  only a deletion cancels, and players of a match have been told of the court
  they have (`NewsIsTrue`); late answers take nothing back
  (`LateReadsAreHarmless`).  Booking and refresh both implement `CourtPromise`
  (`KeepsPromise`).
- *Cancellation.*  The court is given back only on a deleted record, no DELETE
  is sent twice for an operation, and an uncertain booking is explained by one
  operation (`CancellationIsTrue`).
- *Matches.*  `PlacesAreExclusive`, `QueueIsFair`, `FreeSlotIsPassedOn`,
  `MatchRowIsTrue` (a repeated command is served once, the status tells whether
  a seat is free); `LineupIsTrue` (the line-up names
  players of the match, and the result names the line-up) and `RatingsAreExact`
  (a match is rated once, from the ratings before it, and row locks never wait
  in a circle).
- *Workers.*  One message at most goes out for a row, and the row tells
  (`DeliveryIsTrue`); overtaken schedulers spoil nothing
  and announce nothing untrue (`LateCallsAreHarmless`, `MessageIsTrue`), the
  next booking is compared (`NextBookingIsReconciled`); the rate to the provider
  is kept (`RateIsKept`); each message is settled and the request at the head of
  the queue starts (`QueuesMove`); an offer whose time is over is settled, unless
  it is behind a stranded one (`DueOfferIsSettled`); the inbox keeps its bound (`InboxKeepsItsBound`).
- *Players.*  `SessionsAreSound`, `LoginsAreSound`, `LevelsAreTrue`,
  `MoneyIsAccountedFor`, `CodesAndGrantsAreSound`; `FeedsAreTrue`: a message is
  stored and announced once and what its sender is told of it stands, and the
  badge, the page and the rows of the notifications agree; the active photo is
  stored, and a confirmed change leaves nothing of the photos before it; the
  booking page offers only what was read for the date and courts it shows; a
  reservation carries one match, where the row of the court is.
  `LevelsAreTrue`: what a page shows of the onboarding or of the level is what the
  rows keep, and a better answer never lowers a level.
- *Rules.*  `ReservationIsExplained` for a reservation and its operations, and
  `OutcomesStand`: only an outcome moves a reservation, the outcomes of a
  login are final, and the evidence of a level is never replaced.
- *Controlled test.*  `HoldsAreHonest`: one approval books, and deletes, once; a
  report names every slot the record is in or may still get into, and success
  means that it is deleted.
  The comment above each property says what it conjoins.

Each property of a passing run has a mutant of the code's guard or order in
`PROJECT.json` that breaks it.

**Fairness.**  `BookingReservation`: a running handler takes its next step
(provider calls have timeouts, transactions end), the clock advances, and the
owner opens a pending booking again (nothing else classifies it: the code has no
sweeper, so this is an assumption about players).  `CourtRefresh`: reads go on
and are repeated, strong fairness for an answer of the provider and for a
commit, because both may fail any number of times but not for ever.
`MCWorkers`: time passes, timers
fire, running workers take their next step, a dispatcher asks each table in
turn, some process begins a tick of the sweep when a match is due; strong
fairness for a read of the calendar, for the transaction that writes it and for
a visit of the sweep, because each may fail any number of times but not for
ever.  That is fairness of *some* visit of *some* match, always the first of a
list: no match has a visit of its own to count on, so one whose visits all throw
holds up those behind it.  `PlayerOnboarding` (for its violation only): the player presses what
the page offers and reopens an outdated page, the server now and then answers.
No fairness is assumed of staff, of other players, or of crashes.

**Where code and documents disagree** (the violation runs):

1. `booking_lost`: a retry of the same key whose preflight fails runs the
   rejecting transaction because *it* claimed nothing
   (`booking-reservation.service.ts:384`), although another request has started
   the provider attempt.  The court is given back while that POST is under way;
   the proposal on unknown creates permits rejection only when no attempt was
   started.
2. `refresh_unchanged`: `synchronizeCanonicalRefresh` judges an unchanged
   reservation at the time of its own row
   (`postgres-match-reservation.repository.ts:660`); if the match or the link is
   newer, the state machine refuses and the read is answered as stale.
3. `refresh_played`: completing a match leaves its active link, so the deferred
   trigger fails the commit for ever; the README of migration 034 says that a
   terminal match releases its link.
4. `offers_stranded`: a join looks only at offers that have not lapsed.  A player
   whose offer has lapsed and is not yet swept joins directly, his waiting entry
   is closed and the offer can no longer be resolved: every sweep of the match
   throws, and no other offer is made.  The loop over the due matches
   (`match-waitlist.service.ts:539`) has no catch, so the throw ends the tick: due
   offers of matches with greater ids are not settled either, while entries of
   theirs still wait.  `DueOfferIsSettled` excepts exactly these, and is violated
   without the exception.
5. `onboarding_stuck`: before the onboarding is completed no page offers the
   documents again, so a player between consents and survey when a new version
   is published reaches no page that accepts it; the page says that it waits
   only until the documents are current.

**Limits of the code that the models show.**

- A late read may write an older answer after an *unchanged* refresh, which does
  not advance the version (A-B-A); `NewestWins` compares with the last written
  change.  The next read repairs it.
- A record that was moved and then deleted, and that the calendar answers with
  404, is looked for under its old time: the deletion is never discovered and
  the court stays held.  `MoveIsDiscovered` excludes deleted records.
- Two reservations that the staff swap wait for each other's hold for ever.
  `MoveIsDiscovered` is therefore checked for one reservation.
- A round of the reconciliation takes ten bookings by their start, so later ones
  wait.  A change that a reader writes first is never announced to the player of
  the booking; a second scheduler that finds it announces under the same event
  key.
- `docs/migrations/015_backend_auth_foundation_README.md:66` says that a retry
  finds the account and the operation of transaction A and completes transaction
  B.  A repeated *first* login is resolved as a login of an existing account,
  which is another command, and fails; a retry in a later second fails already
  in the first transaction.  The player logs in again with a fresh proof.
- The dispatchers read their clock before they claim; a stall of a whole lease
  between the two is excluded from `TelegramDelivery`.
- A crash after the start of a cancellation leaves `cancel_pending` for ever and
  an uncertain cancellation stays uncertain: nothing reconciles either.  A retry
  of a rejected key after another key has cancelled is answered as unknown.
- A rating match with an unverified player can never be confirmed.
- A submission stamped before the creation of its code is applied and then
  refused by the validator; so is a contact message sent again under a new key
  with the identifiers of an old one.  No caller does either.
- A second mark of one notification that waits for the first is answered as a
  failure (`AnswerOf`), and the page says so, although the notification is read;
  `docs/migrations/029_backend_match_notifications_README.md:32` calls repeating
  it naturally idempotent.  `NotesAreTrue` shows that this is the only failure.
- An activation of a photo whose commit is reported as failed undoes the objects
  of a photo that is active: it is shown without a picture until the next change.
  Objects of an upload that was never activated are in no row, so no later change
  removes them, although the comment at `player-profile-photo.service.ts:272` says that a later attempt does.  A profile refresh that begins
  while a change is on its way may show the older photo until the next refresh.
- A second device that makes a match with other details is answered with the
  match of the first.
- Seen while reading, and not checked: a poll that overtakes a slow load leaves
  the loading mark of the notifications set; the plan of the controlled test
  lets a repeated DELETE pass with a stable not-found, which the client reports
  as unknown.
- Payments, codes, grants, contact proofs and the cancelling service have no
  caller in the repository, and `PostgresCourtReservationRepository
  .startOperation` refuses a cancellation: the models take the ports and domain
  rules as their documentation of use.

## 4. The proofs

`BookingReservationProof` proves every safety property of the run `booking` for any sets of
keys, slots and requests, any symmetric reflexive overlap and any age
(`BookingAssumption`, the only assumption; nothing is assumed finite).

About the rows:

| Theorem | Property |
|---|---|
| `TypeCorrect` | `TypeOK` |
| `RowsAlwaysAgree` | `RowsAgree` |
| `NeverDoublyHeld` | `NoDoubleHold` |
| `RowsAreAlwaysSound` | `RowsAreSound`, from the two before |
| `OutcomeNeverChanges` | `OutcomeIsFinal` |
| `BookingKeepsPromise` | `KeepsPromise`: `BookingReservation` implements `CourtPromise` |

The argument goes through one classification, `RowStep`: whatever request, reader
or failure takes it, a step inserts an operation (`Inserted`), persists a command
(`Settled`), or changes only control data (`OnlyControl`).  The inductive invariant
is `Rows`: the types, the agreement of the rows, the exclusion of the holds, and
that only an operation that exists is started.  Agreement is what makes
`PersistEffect` hold (a command the service issues finds a pending operation, a
pending reservation and the hold of the operation's slot), and with it each of the
three kinds of step keeps `Rows`, leaves outcomes alone and is a step or a stutter
of the ledger (`LedgerStep`).

About the requests:

| Theorem | Property |
|---|---|
| `OnePostPerKey` | `AtMostOnePost` |
| `RefusalsAreBacked` | `RefusalIsBacked` |
| `RejectionsAreForGood` | `RejectionStays`, the part of `CommitmentsStand` about rejections |
| `ConfirmationsAreBooked` | `ConfirmedIsBooked` |
| `ClaimsAreHeld` | `ClaimedIsHeld` |
| `AnswersAreAlwaysBacked` | `AnswersAreBacked`, from `RefusalsAreBacked` and `ConfirmationsAreBooked` |
| `CommitmentsAlwaysStand` | `CommitmentsStand`, from `OutcomeNeverChanges`, `ClaimsAreHeld` and `RejectionsAreForGood` |

No property of the requests is inductive.  `ClaimInv` adds what the compare-and-set of the
attempt buys: a POST leaves only under a claim, a claimed operation is started, two
requests never claim the same one, and a request that was refused has claimed
nothing.  A start is never undone (`OutcomeStep`), so a second claim fails for
ever.  `MatchInv` adds that a request past its lookup works for the slot of its
key's operation and confirms only after its own POST made a record, and `ToldInv`
what the refusals say of the operation; that stays, because outcomes do
(`OperationStays`).  `DispatchInv` is the conjunction, checked by TLC on the instance of `booking`
before it was proved.  `ClaimsAreHeld` is also the exact extent of divergence 1:
the proof leaves the rejecting retry as the only step that takes a claimed court.
`RejectionsAreForGood` is its other half: where nobody had claimed the attempt, a
rejection makes every later claim fail.

The first part of `MatchesProof`, about the seats of a match (`SeatsSpec`), for
any players, slots and bounds (`SlotsAssumption`, `PlayersAssumption`, `BoundsAssumption`: slots are positive
numbers, players and slots finitely many):

| Theorem | Property |
|---|---|
| `SeatsAreTyped` | `SeatsTypeOK` |
| `PlacesStayExclusive` | `PlacesAreExclusive` |
| `QueueStaysFair` | `QueueIsFair` |
| `FreeSlotsArePassedOn` | `FreeSlotIsPassedOn` |
| `MatchRowIsAlwaysTrue` | `MatchRowIsTrue` |

The inductive invariant `SeatsInv` splits the exclusion of claims into seats and
invitations (`Exclusive`) and the live offer (`OfferIsClear`), and adds that nobody who
sits is invited or waits (`Placed`), that the entries of the queue are numbered
apart, none beyond the entries made (`InOrder`), and that a match without offers
never has one: a promotion without offers looks at no offer, so without this it
could seat a player on an offered slot.  `PromoteFacts` is the core: the promotion that ends
most handlers keeps the invariant and offers to the first of the queue, from any
state in which a slot has just come free; each handler's lemma then shows that
it reaches such a state.

The last two rest on `RowInv`: the version is one more than the edits and the
recorded commands, the status tells fullness, and no slot stays free beside
somebody who could be given it.  The recorded commands are a set of pairs
(`CommandsOf`) whose size is taken; a sum over the players would say the same,
but what a fold computes needs induction over data, while the size of a set that
grows by one element is a fact about finite sets.  A free slot that nobody was
given is traced to its cause: a promotion that stops has found the queue without
a player who still may be seated, or the match full.

`CourtRefreshProof`, about a booked court and the match on it, for any
reservations (at least one), slots, matches, reads and bounds
(`RefreshAssumption`: as for bookings, an overlap is symmetric and reflexive):

| Theorem | Property |
|---|---|
| `RefreshIsTyped` | `TypeOK` |
| `CourtAlwaysFollowsRow` | `CourtFollowsRow` |
| `NewsIsAlwaysTrue` | `NewsIsTrue` |
| `LateReadsStayHarmless` | `LateReadsAreHarmless` |
| `RefreshKeepsPromise` | `KeepsPromise`: `CourtRefresh` implements `CourtPromise` |
| `NoCourtIsPromisedTwice` | no two reservations hold overlapping times of a court: what `CourtPromise` starts from (`Exclusive`) is kept by its steps, so by those of `CourtRefresh` |

That a link follows its row is not inductive: a late answer could take the row
back.  `RefreshInv` therefore says what a row and an answer know of the record.
A row has taken over a change that was made, and says what the record says if
that was the latest (`RowsFollow`).  An answer says what was so when it was
given, and as long as the row is unchanged since it was read, the answer is not
older than the row (`Answered`): this is what the compare-and-set of the version
buys, and from it follow that only a deleted record cancels
(`CancelledIsDeleted`) and that what is released stays released.

`WorkersProof`, about the background workers, each for any number of them, of
rows and of attempts (their assumptions give the bounds their types):

| Theorem | Property |
|---|---|
| `WorkersAreTyped` | `WorkersTypeOK`, from `DeliveryIsTyped`, `ReconciliationIsTyped`, `LimiterIsTyped` and `SweepIsTyped` |
| `SweepIsTyped` | `SweepTypeOK` of `OfferSweep`: a tick has no more to visit than a batch |
| `DeliveryIsAlwaysTrue` | `DeliveryIsTrue` of `TelegramDelivery` |
| `MessagesAreTrue` | `MessageIsTrue` of `Reconciliation` |
| `LateCallsStayHarmless` | `LateCallsAreHarmless` of `Reconciliation` |
| `RateIsAlwaysKept` | `RateIsKept` of `RequestLimiter` |
| `WorkersAreSound` | the four above, of the specification the run checks |

- `DeliveryInv`: a dispatcher at work has a row of its own (`OneEach`) whose
  last attempt is open or was given up as unknown, and knows whether the
  messenger took the message (`Knows`); a row that may be tried again was never
  accepted.
- `ReconciliationInv`: a row is not ahead of its record (`RowFollows`), and while
  the version a scheduler claimed still stands, what it read of the record is
  newer than the row (`ClaimIsSound`).
- `LimiterInv`: the starts the limiter has forgotten are a minute old
  (`Remembers`), and a permit given is for the present moment (`PermitHolds`):
  without the second, time could pass between the permit and the start.
- `SchedulersRun` adds to the reconciliation that no record has more edits than
  its bound; `QueueIsCounted` adds to the limiter that a turn that is not asking
  for a permit has a request at the head of the queue, which is why a request that
  ends always finds itself to take off, and the counter never loses count.
- `ListedIsBounded`: the sweep lists a match if no more than a batch are due up to
  it, so all that are listed are among those up to the last of them.
- `WorkersImplementTheirParts`: a step of the workers together is a step of each
  of them or none, so that `WorkersSpec` implies the specification of each, and
  each theorem holds of the run's specification.

What follows is about the components of the run `lifecycle`, for any
requests, keys, accounts, members, places, attempts and programs.  The theorems
are about the specification of each component; `LifecyclesProof`, the last,
carries them over to the specification the run checks.  Each component also has a
theorem of its type invariant; where its inductive invariant says less, a second
predicate is carried along it.  What these say beyond types is what counters count:
`InboxIsTyped` shows that a record is counted as often as its deliveries were
recorded (`InboxCounts`), `CreationIsTyped` that a row has at most one version
more than the moves it followed (`VersionsFit`), `ContactIsTyped` that no
challenge of a contact counts past its budget (`ProofCounts`).

`ReservationsProof`:

| Theorem | Property |
|---|---|
| `LifecycleIsTyped` | `TypeOK` of `ReservationLifecycle` |
| `ReservationStaysExplained` | `ReservationIsExplained` |
| `OnlyOutcomesEverMove` | `OnlyOutcomesMove`, the part of `OutcomesStand` about reservations |
| `CancellationStaysTrue` | `CancellationIsTrue` of `ReservationCancellation` |
| `MoneyIsAlwaysAccountedFor` | `MoneyIsAccountedFor` of `Payments` |
| `HoldsAreAlwaysHonest` | `HoldsAreHonest` of `ControlledRun` |
| `InboxAlwaysKeepsItsBound` | `InboxKeepsItsBound` of `WebhookInbox` |
| `PaymentsAreTyped`, `CancellationIsTyped`, `ControlledIsTyped`, `InboxIsTyped` | the type invariants |

The assumptions are named in the modules: the missing record is no record and
the clock counts from zero (`LifecycleAssumption`), a request may name the
booking's own reference under any key (`CancellationAssumption`), no attempt is
the missing one and the clock counts from zero (`PaymentAssumption`), a program
is a test or a cleanup (`ControlledAssumption`), and "no delivery" is no delivery
(`InboxAssumption`).

- `LifecycleInv`: `ReservationIsExplained` says that some active operation
  explains the status; `ActiveExplains` adds the converse, that every active
  operation does, and that a booking still being created, also one that is
  uncertain, is the one without a record.  That is what a failed change falls
  back on: without it an uncertain move that is rejected could leave a confirmed
  reservation without its binding.  `LeftExplained` states once what rows a
  function may leave, and the lemmas of `Start` and `Transition` show that they
  leave such rows.
- `CancelInv` explains the row by its operations as above (`Explained`), and adds
  that a request which got beyond the start of its operation works for a pending
  one, alone (`Alone`), that a DELETE not yet sent has been counted by nobody
  (`DeletesCounted`), and that every deletion somebody saw has happened (`Proved`).
  `SettledInv` is the core: the transaction that ends a request settles the
  operation only if it is still active, and gives the court back only with the
  proof the read brought.
- `PaymentInv`: an open attempt is the one its order names, so a second charge
  finds the order taken (`OrderNames`, `Accounted`); an answer that is still on
  its way has a charge behind it.
- `ControlledInv`: one program owns the approval, and its step and the writes
  that may still land agree (`TestStands`, `CleanupStands`): every slot the
  record may come to is among those the report names (`Covered`).
- `InboxInv`: the delivery past its lock is the only one, and what its insert
  counted is still what the inbox keeps.

The rest of `MatchesProof`:

| Theorem | Property |
|---|---|
| `LineupIsAlwaysTrue` | `LineupIsTrue` of `MatchLineup` |
| `RatingsAreAlwaysExact` | `RatingsAreExact` of `MatchRatings` |
| `LineupIsTyped`, `RatingsAreTyped` | the type invariants |

The owner of a match is a member and its places are finitely many
(`LineupAssumption`); the players of a result are on two sides, its submitter on
the winning one, and accounts are numbers, as the rows are locked in their order
(`RatingsAssumption`).

- `LineupInv`: the row lock has one holder (`OneHolder`), and what the holder
  checked or read of the players still holds when it writes (`Lawful`).  The
  snapshot of its last statement may name players who have left, never fewer
  than those with a place.
- `RatingsInv`: a request that holds its match has locked the players below the
  next in the order of their accounts, and what it has read of them still holds
  (`Serves`); two holders have neither a match nor a player in common (`Apart`).
  From the first, whoever waits does so for a larger account than any it holds,
  so the waits never close a circle (`LocksAreOrdered`); from the second, the
  transaction that writes starts every entry from the rating that is there.
  `LedgersGrow` states once what new entries do to the ledgers, for a result and
  for a setting of the administrator.  What the ledger has to say is counted
  with the size of a set of its positions, so that no induction is needed.

`FeedsProof`, about what a page shows of what others change:

| Theorem | Property |
|---|---|
| `CreationIsAlwaysTrue` | `CreationIsTrue` of `MatchCreation` |
| `ChatIsAlwaysTrue` | `ChatIsTrue` of `MatchChat` |
| `NotesAreAlwaysTrue` | `NotesAreTrue` of `NotificationCentre` |
| `PhotoIsAlwaysTrue` | `PhotoIsTrue` of `ProfilePhoto` |
| `AvailabilityIsAlwaysTrue` | `AvailabilityIsTrue` of `BookingAvailability` |
| `FeedsAreAlwaysTrue` | `FeedsAreTrue`, from the five |
| `CreationIsTyped`, `ChatIsTyped`, `NotesAreTyped`, `PhotoIsTyped`, `AvailabilityIsTyped` | the type invariants |

There are courts and details to choose from and the moves have a bound (`CreationAssumption`), the missing
match is no match (`ChatAssumption`), the notifications are finitely many, as they
are counted (`NotesAssumption`), and the changes of a photo are numbered
(`PhotoAssumption`).  Courts and lengths of a rental are positive numbers, of which
there are some, today is on the strip of days, and what is busy lies within
the day (`AvailabilityAssumption`).

- `CreationInv`: one link at most is active, and it is where the row is
  (`LinksFollow`).  What a device read stays true while the version of the row is
  the one it read, and a press precedes what is read after it (`MakerKnows`); no
  other row than the first match was ever made, which is why the second press
  finds the first match instead of making another.
- `ChatInv`: a message is stored in the match it was written in, if anywhere
  (`StoredOnce`); an answer under way says what is so and stays so (`IsSo`),
  since a closed match takes no message any more; a list that is loaded belongs
  to the match on the screen (`ListHolds`).
- `NotesInv`: what the page or a list under way shows as read is read
  (`PageShows`), and a list that arrives after a mark shows the mark
  (`TapSound`).  `OneLessUnread` is the lemma about the badge.
- `PhotoInv`: an asset is recorded by its own request and once, and a request
  that removes has exactly what is stored of the assets recorded before it
  (`ChangeSound`); versions only grow, so a removal never meets the active photo
  (`ActiveStored`).
- `AvailabilityInv`: at most one read of a kind is still listened to (`ReadsSound`),
  it is the one its part of the page waits for (`AwaitedBy`), and a part that waits
  has asked for what the page now shows (`Loads`).  So an answer that is listened to
  fits the page, however many choices came after the request; a chosen range lies in
  one offer of the court it names (`RangeOffered`).  That the
  scheduler picks a first task needs that pairs of numbers have a least one
  (`FirstPair`), which comes from the well-foundedness of `<` and not from an
  induction.

`AccountsProof`:

| Theorem | Property |
|---|---|
| `LoginsAreAlwaysSound` | `LoginsAreSound` of `TelegramLogin` |
| `LoginOutcomesAreFinal` | `LoginOutcomesStand`, the part of `OutcomesStand` about logins |
| `CodesAndGrantsStaySound` | `CodesAndGrantsAreSound`, from `OtpStaysSound`, `ContactStaysSound` and `GrantsStaySound` |
| `ShownLevelIsAlwaysKept` | `ShownLevelIsKept` of `LevelReassessment`, a part of `LevelsAreTrue` |
| `OutcomesAlwaysStand` | `OutcomesStand`, from `OnlyOutcomesEverMove`, `LoginOutcomesAreFinal` and `EvidenceAlwaysStands` |
| `SessionsStaySound` | `SessionsAreSound` of `PlayerSession` |
| `OnboardingIsAlwaysTrue` | `OnboardingIsTrue` of `PlayerOnboarding`, a part of `LevelsAreTrue` |
| `LevelIsAlwaysFair` | `LevelIsFair` of `LevelSurvey`, a part of `LevelsAreTrue`, with its type invariant |
| `LoginIsTyped`, `GrantIsTyped`, `OtpIsTyped`, `ContactIsTyped`, `ReassessmentIsTyped`, `SessionIsTyped`, `OnboardingIsTyped` | the type invariants |

Every proof has its user, a user who returns has a proof, and the clock a bound
(`LoginAssumption`); a challenge has an attempt to give, and its moments are
natural numbers (`OtpAssumption`, `ContactAssumption`); there is a session, a
request key and a try (`SessionAssumption`); what is filled in answers the whole survey, and it
is sent at least once (`ReassessmentAssumption`); a request of the onboarding is
sent at least once, and some version of the documents is published
(`OnboardingAssumption`).

- `LoginInv`: every row was written by a request that has gone on since
  (`RowsWritten`), a key and a proof belong to one operation (`OneOperation`), a
  session has the resolution it stands on (`SessionsFollow`), and what a request
  between two of its transactions found out still holds, or it has a rival
  (`Standing`).  The second transaction of a race is refused by a constraint of
  the rows; `RowsWritten` is what turns that into a cause.
- `GrantInv`: the window of a grant lies within those of its evidence and of its
  session, which is why a use in time is a use while both are open.
- `OtpInv` and `ProofInv` are the properties themselves with the types of the
  rows: that a validator accepts the history is strong enough to carry itself.
  `OpenHistory` and `OpenHistoryFits` read off what an open challenge was judged
  by; the lemmas after them follow one more entry through every clause of the
  validator.  For contacts `SentBefore`, `SentAfter` and `GrownCounts` say what an
  entry does to the last dispatch and to the attempts, which the validator
  counts anew from the whole history; `ReserveResendInv` is where the one state
  the validator refuses comes from, a dispatch that was used before.
- `ReassessmentInv`: what a gate was told is the level of a stored sheet
  (`GateKnows`), and completions that arrive late find the sheet in its place.
- `LevelIsAlwaysFair`: `RanksAs` says in numbers what the level of a sheet is, the
  least that the score and the caps allow (`LevelRanks`).  A point more lifts the
  score by one and its rank by one at most (`SixSteps`); the rest of `OnePointMore` is
  arithmetic on the five answers before and after.  `SurveyInv` says that the
  questions before the one that is asked have been answered.
- `SessionInv` says of each actor what the others may rely on.  A family ends for a
  cause and its commands are among those the device made (`FamilySound`), which
  makes a new request key a fresh one.  A message names a credential the server gave
  out, and under one key there is one request (`MessageSound`, `OneRequestPerKey`).  The page
  that stores, checks or uses a credential has the latest of its family, and nobody
  asks to refresh it (`Holding`).  And while no refresh was torn, a refresh that may
  still be served is recorded already, or is the one the page waits for, or comes to
  a family that has ended (`RefreshIsAnswerable`): that is why a late or repeated request is
  never taken for a reuse.  `RefreshServed` and `LogoutServed` split what the server
  does by its effect on the family, `AppendedRow` keeps the validator content with one
  more command, and `QuietKeeps` covers every answer that consumes no credential.
- `OnboardingInv`: a revision names one step.  A page that saved a draft and goes
  on to the next step finds its own draft at the revision it expects
  (`Advancing`), and so it is told what the account keeps, not what another tab
  saved in between; `RowMoves` states once what a transaction may do to the row.

`LifecyclesProof`, about the run's own specification (`LifecyclesSpec`):

| Theorem | Property |
|---|---|
| `LifecyclesAreTyped` | `LifecyclesTypeOK`, from the type theorem of every part |
| `LevelsAreAlwaysTrue` | `LevelsAreTrue`, from `OnboardingIsAlwaysTrue`, `ShownLevelIsAlwaysKept` and `LevelIsAlwaysFair` |
| `LifecyclesAreSound` | every other invariant of the run |
| `LifecyclesStepSoundly` | `OutcomesStand`, `SessionsAreSound`, `InboxKeepsItsBound` |

`ScenesStep` shows that a step of any scene is, for each of the twenty parts, a step
of that part or none (`EachScene`); with the initial states this makes
`LifecyclesSpec` imply the specification of every part
(`LifecyclesImplementTheirParts`), and the theorems follow from the ones above.

Only model-checked:

- liveness (`NobodyWaitsForEver`, `MoveIsDiscovered`, `DueOfferIsSettled`,
  `QueuesMove`, `NextBookingIsReconciled`), which needs fairness and ENABLED, and
  those TLAPS does not handle.

Every invariant and every action property of the passing runs has a theorem.

## 5. Plan

1. (done) Booking, refresh, their promise and their proofs.
2. (done) `MatchSeats` with its proof, `MatchLineup`, `MatchRatings`.
3. (done) `TelegramDelivery`, `Reconciliation`, `RequestLimiter`, `WebhookInbox`,
   `OfferSweep`.
4. (done) `PlayerSession`, `TelegramLogin`, `PlayerOnboarding`.
5. (done) `ReservationCancellation`, `OtpChallenge`, `ContactVerification`,
   `ScopedGrant`, `Payments`.
6. Proofs: (done) `ReservationLifecycle`, `ReservationCancellation`,
   `CourtRefresh` with its refinement, `MatchSeats`, the workers, `Payments`,
   `MatchLineup`, `MatchRatings`, `TelegramLogin`, `ControlledRun`,
   `ScopedGrant`, `OtpChallenge`, `ContactVerification`, `LevelReassessment`,
   `PlayerSession`, `PlayerOnboarding`, `ProfilePhoto`, `MatchChat`,
   `NotificationCentre`, `MatchCreation`, `BookingAvailability`, `LevelSurvey`; the
   type invariants; the compositions `WorkersSpec` and `LifecyclesSpec`.
7. (done) `MatchChat`, `NotificationCentre`, `ControlledRun`.
8. (done) `LevelSurvey`, `LevelReassessment`, `ProfilePhoto`,
   `BookingAvailability`, `MatchCreation`.
9. The reminder scheduler; a login that ends in a session of `PlayerSession`.

## 6. Not modelled

HTTP parsing, validation of bodies, encryption of snapshots, logging and
metrics, the screens of the front end apart from the session, login,
onboarding, chat, notification, survey, photo and booking clients and the
making of a match, infrastructure scripts, and the dry
run of the controlled test, which sends nothing.  Profiles, trainings and the
CRM binding are single rows under a version, or read-only calls.
The confirmation of a booking on the page is switched off in this build
(`PAYMENT_PROVIDER_READY` is false), and half-hours that pass while the page is
open are left out.
`PROJECT.json` lists every component with its status.
