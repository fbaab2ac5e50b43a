------------------------------ MODULE OfferSweep ------------------------------
(***************************************************************************)
(* The expiry sweep of the waitlist offers: MatchWaitlistOfferExpiry-      *)
(* Processor.tick and MatchWaitlistService.sweepExpiredOffers.  A tick     *)
(* lists the matches whose offer is due, in the order of their ids, and    *)
(* visits them one by one, each in a transaction of its own and without a  *)
(* catch: whatever throws ends the tick.  Every server process ticks.      *)
(*                                                                         *)
(* Of a match only its active offer is kept; MatchSeats has the rest.      *)
(***************************************************************************)
EXTENDS Integers, FiniteSets

CONSTANTS SweptMatches,  \* the matches with a waitlist, by their ids
          SweepLimit,    \* MATCH_WAITLIST_OFFER_SWEEP_BATCH_SIZE
          Sweepers,      \* the server processes
          MaxOffers      \* bound on the offers a match ever makes, by match

ASSUME SweepAssumption ==
  /\ SweptMatches \subseteq Nat /\ SweepLimit \in Nat \ {0}
  /\ MaxOffers \in [SweptMatches -> Nat]

VARIABLES
  offers,  \* the active match_waitlist_offers row of each match
  tick     \* the tick of each process: the matches still to visit

sweepVars == <<offers, tick>>

\* due: expires_at has passed.  waits: its entry still waits.  over: the match
\* has started.  made: the offers the match has made.
SweptOffer(m) ==
  [active : BOOLEAN, due : BOOLEAN, waits : BOOLEAN, over : BOOLEAN,
   made : 0..MaxOffers[m]]

\* over: those whose match has started by the clock the tick has read.
NoTick == [todo |-> {}, over |-> {}]

SweepInit ==
  /\ offers = [m \in SweptMatches |->
                 [active |-> FALSE, due |-> FALSE, waits |-> FALSE,
                  over |-> FALSE, made |-> 0]]
  /\ tick = [s \in Sweepers |-> NoTick]

-----------------------------------------------------------------------------
(* The tick.                                                               *)

\* mutant of IsDue: offers of a match that has started are left to their expiry
IsDueByTime(m) == offers[m].active /\ offers[m].due
IsDue(m) == offers[m].active /\ (offers[m].due \/ offers[m].over)

\* listDueMatchIds: the first of the matches with an offer that is due.
UpTo(m) == {j \in SweptMatches : IsDue(j) /\ j <= m}
Listed == {m \in SweptMatches : IsDue(m) /\ Cardinality(UpTo(m)) <= SweepLimit}

BeginTick(s) ==
  /\ tick[s].todo = {} /\ Listed # {}
  /\ tick' = [tick EXCEPT ![s] =
                [todo |-> Listed, over |-> {m \in Listed : offers[m].over}]]
  /\ UNCHANGED offers

EndTick(s) == tick' = [tick EXCEPT ![s] = NoTick]
PassBy(s, m) ==
  tick' = [tick EXCEPT ![s] = [todo |-> @.todo \ {m}, over |-> @.over \ {m}]]

Close(m) ==
  offers' = [offers EXCEPT ![m].active = FALSE, ![m].due = FALSE, ![m].waits = FALSE]

\* createNextOffer, when somebody else waits and a slot is free.
OfferNext(m) ==
  /\ offers[m].made < MaxOffers[m]
  /\ offers' = [offers EXCEPT ![m].active = TRUE, ![m].due = FALSE,
                              ![m].waits = TRUE, ![m].made = @ + 1]

\* The offer is due to the tick of s, which goes by the clock it has read.
DueTo(s, m) == offers[m].active /\ (offers[m].due \/ m \in tick[s].over)

\* The matches are visited in the order of their ids.
\* mutant of IsNext: from the last to the first
IsNextFromLast(s, m) == m \in tick[s].todo /\ \A j \in tick[s].todo : j <= m
IsNext(s, m) == m \in tick[s].todo /\ \A j \in tick[s].todo : m <= j

\* expireForMatch, and the next offer: nothing is due any more; the offer and
\* its entry are resolved, and the slot passed on unless the match is over; or
\* the entry waits no longer, which throws.
Visit(s, m) ==
  /\ IsNext(s, m)
  /\ \/ ~DueTo(s, m) /\ PassBy(s, m) /\ UNCHANGED offers
     \/ /\ DueTo(s, m) /\ offers[m].waits
        /\ Close(m) \/ (m \notin tick[s].over /\ OfferNext(m))
        /\ PassBy(s, m)
     \/ DueTo(s, m) /\ ~offers[m].waits /\ EndTick(s) /\ UNCHANGED offers

\* A transaction fails, or the process stops and starts again.
TickFails(s) ==
  /\ tick[s].todo # {}
  /\ EndTick(s)
  /\ UNCHANGED offers

-----------------------------------------------------------------------------
(* The handlers of a match, as far as its offer goes (see MatchSeats).     *)

OfferIsMade(m) ==
  /\ ~offers[m].active /\ ~offers[m].over
  /\ OfferNext(m)
  /\ UNCHANGED tick

\* The player accepts or declines, and the slot may go to the next.
OfferIsAnswered(m) ==
  /\ offers[m].active /\ offers[m].waits /\ ~offers[m].due /\ ~offers[m].over
  /\ Close(m) \/ OfferNext(m)
  /\ UNCHANGED tick

\* The entry is closed behind the back of the offer: its player joins directly
\* once the offer has lapsed, or a promotion skips him.
EntryIsClosed(m) ==
  /\ offers[m].active /\ offers[m].waits /\ ~offers[m].over
  /\ offers' = [offers EXCEPT ![m].waits = FALSE]
  /\ UNCHANGED tick

\* An offer lasts longer than a tick: one that is made while a tick is still
\* to visit its match does not lapse before the visit.
OfferRunsOut(m) ==
  /\ offers[m].active /\ ~offers[m].due
  /\ \A s \in Sweepers : m \notin tick[s].todo
  /\ offers' = [offers EXCEPT ![m].due = TRUE]
  /\ UNCHANGED tick

SweptMatchStarts(m) ==
  /\ ~offers[m].over
  /\ offers' = [offers EXCEPT ![m].over = TRUE]
  /\ UNCHANGED tick

SweepNext ==
  \/ \E s \in Sweepers : BeginTick(s) \/ TickFails(s)
                           \/ \E m \in SweptMatches : Visit(s, m)
  \/ \E m \in SweptMatches :
       OfferIsMade(m) \/ OfferIsAnswered(m) \/ EntryIsClosed(m)
         \/ OfferRunsOut(m) \/ SweptMatchStarts(m)

SweepSpec == SweepInit /\ [][SweepNext]_sweepVars

-----------------------------------------------------------------------------
(* Properties                                                              *)

\* The rows keep their types, only an active offer is due or bound to an entry,
\* and no tick has more to visit than it may list.
SweepTypeOK ==
  /\ \A m \in SweptMatches :
       /\ offers[m] \in SweptOffer(m)
       /\ offers[m].due \/ offers[m].waits => offers[m].active
  /\ tick \in [Sweepers -> [todo : SUBSET SweptMatches, over : SUBSET SweptMatches]]
  /\ \A s \in Sweepers : /\ tick[s].over \subseteq tick[s].todo
                         /\ Cardinality(tick[s].todo) <= SweepLimit

\* No transaction can settle the offer any more, and every tick tries.
StrandedDue(m) ==
  offers[m].active /\ ~offers[m].waits /\ (offers[m].due \/ offers[m].over)

\* An offer that the sweep owes an answer: it is due, or its match has started,
\* and its entry still waits.  Behind a stranded offer of a match with a smaller
\* id no tick comes so far: each throws before.
Owed(m) ==
  /\ offers[m].waits /\ (offers[m].due \/ offers[m].over)
  /\ \A j \in SweptMatches : j < m => ~StrandedDue(j)

SweepIsOwed == \E m \in SweptMatches : Owed(m)

\* Whatever fails in between, an offer whose time is over, and whose entry still
\* waits, is settled by a later tick, unless it is behind a stranded one:
\* whenever the sweep owes an answer, a time comes when it owes none.
DueOfferIsSettled == SweepIsOwed ~> ~SweepIsOwed
=============================================================================
