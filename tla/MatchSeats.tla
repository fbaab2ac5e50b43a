----------------------------- MODULE MatchSeats -----------------------------
(***************************************************************************)
(* The seats of one public match: direct joins and leaves, invitations,    *)
(* the waitlist and its timed offers.  The owner sits in slot 1, which is  *)
(* never given away; SeatSlots are the others.  Every handler is one       *)
(* database transaction that locks the row of the match first, so a        *)
(* handler is one action.  Time is what the handlers ask of it: an offer   *)
(* is `due` once its expiry has passed, the match has `started`.           *)
(***************************************************************************)
EXTENDS Integers, FiniteSets

CONSTANTS Players,      \* accounts other than the owner
          Changing,     \* the players whose rating may change
          SeatSlots,        \* the slots players sit in
          RatingMatch,  \* is_rating_match
          MaxVersion,   \* bound on the match commands applied
          MaxEntries    \* bound on the entries of the waitlist

NoSlot == 0
NoOffer == [account |-> 0, slot |-> 0, due |-> FALSE, bound |-> FALSE]

ASSUME SlotsAssumption == SeatSlots \subseteq Nat \ {0} /\ IsFiniteSet(SeatSlots)
ASSUME PlayersAssumption == 0 \notin Players /\ IsFiniteSet(Players)
                            /\ Changing \subseteq Players
ASSUME BoundsAssumption == MaxVersion \in Nat /\ MaxEntries \in Nat
                           /\ RatingMatch \in BOOLEAN

VARIABLES
  status,    \* matches.status
  started,   \* now >= starts_at
  version,   \* matches.version
  seat,      \* the slot of an active participant, or NoSlot
  served,    \* the match commands of each player the match has recorded
  edits,     \* the description updates of the owner
  invited,   \* the slot of a pending invitation, or NoSlot
  joined,    \* the place of a waiting entry by joined_at and id, or 0
  entries,   \* the entries ever made
  offer,     \* the active offer of the match; bound: its entry still waits
  eligible,  \* the players whose account and rating the match accepts
  offersOn   \* MATCH_WAITLIST_OFFERS_ENABLED

seatsVars == <<status, started, version, seat, served, edits, invited, joined, entries,
          offer, eligible, offersOn>>

SeatedIn(st) == {p \in Players : st[p] # NoSlot}
SlotsOf(claims) == {claims[p] : p \in Players} \ {NoSlot}

\* The active offer that joins and invitations see: expires_at > now.
Live == offer # NoOffer /\ ~offer.due

\* mutant of Lowest: slots counted from zero
LowestOffByOne(S) == (CHOOSE s \in S : \A t \in S : s <= t) - 1
Lowest(S) == CHOOSE s \in S : \A t \in S : s <= t

\* mutant of OfferedSlots: a join sees no offer
OfferedSlotsNone == {}
\* What a join must leave alone besides the invitations.
OfferedSlots == IF Live THEN {offer.slot} ELSE {}

Without(q, p) == [q EXCEPT ![p] = 0]
Queues(p) == joined[p] # 0

StatusFor(count) ==
  IF status = "searching" THEN status
  ELSE IF count >= Cardinality(SeatSlots)
       THEN IF status = "confirmed" THEN "confirmed" ELSE "upcoming"
       ELSE "open"

\* The waiting entry of a player that took a seat by another way is closed,
\* with no look at the offer that may hang on it.
Unbind(o, p) == IF o # NoOffer /\ o.account = p THEN [o EXCEPT !.bound = FALSE] ELSE o

SeatsInit ==
  /\ status \in {"searching", "confirmed"}
  /\ started = FALSE
  /\ version = 1
  /\ seat = [p \in Players |-> NoSlot]
  /\ served = [p \in Players |-> 0]
  /\ edits = 0
  /\ invited = [p \in Players |-> NoSlot]
  /\ joined = [p \in Players |-> 0]
  /\ entries = 0
  /\ offer = NoOffer
  /\ eligible = Players
  /\ offersOn \in BOOLEAN

-----------------------------------------------------------------------------
(* Promotion: called by every handler that frees a slot.                   *)

\* Entries that cannot be promoted are skipped in bulk before a candidate
\* is chosen; the entry of an active offer is not spared.
Candidates(q, st, inv) ==
  {p \in eligible : q[p] # 0 /\ st[p] = NoSlot /\ inv[p] = NoSlot}
Only(q, S) == [p \in Players |-> IF p \in S THEN q[p] ELSE 0]

Keep(o, cands) ==
  IF o # NoOffer /\ o.account \notin cands THEN [o EXCEPT !.bound = FALSE] ELSE o

\* mutant of FirstOf: the newest entry first
LastOf(q, cands) == CHOOSE p \in cands : \A r \in cands : q[p] >= q[r]
FirstOf(q, cands) == CHOOSE p \in cands : \A r \in cands : q[p] <= q[r]

\* createNextOffer: one offer a match, for the first candidate, of the
\* lowest slot that nobody sits in and no invitation holds.
NextOffer(q, st, inv, o) ==
  LET cands == Candidates(q, st, inv)
      free == SeatSlots \ (SlotsOf(st) \cup SlotsOf(inv))
  IN /\ joined' = Only(q, cands)
     /\ offer' = IF o # NoOffer \/ cands = {} \/ free = {} THEN Keep(o, cands)
                 ELSE [account |-> FirstOf(q, cands), slot |-> Lowest(free),
                       due |-> FALSE, bound |-> TRUE]

\* The first candidates take the lowest free slots, f, in order.
Fills(q, cands, free, f) ==
  /\ \A p, r \in cands : (q[p] < q[r] /\ f[r] # NoSlot) => f[p] # NoSlot /\ f[p] < f[r]
  /\ \A p \in cands : \A s \in free :
       (f[p] # NoSlot /\ s < f[p]) => \E r \in cands : f[r] = s
  /\ (\A p \in cands : f[p] # NoSlot) \/ (\A s \in free : \E p \in cands : f[p] = s)

\* promoteAvailable, given the claims the handler left behind.
PromoteAvailable(st, inv, n, sv) ==
  /\ IF started
     THEN /\ seat' = st /\ version' = n /\ served' = sv
          /\ UNCHANGED <<joined, offer>>
     ELSE IF offersOn
     THEN /\ NextOffer(joined, st, inv, offer)
          /\ seat' = st /\ version' = n /\ served' = sv
     ELSE LET cands == Candidates(joined, st, inv)
              free == SeatSlots \ (SlotsOf(st) \cup SlotsOf(inv))
          IN \E f \in [cands -> free \cup {NoSlot}] :
               LET seated == {p \in cands : f[p] # NoSlot}
               IN /\ Fills(joined, cands, free, f)
                  /\ seat' = [p \in Players |-> IF p \in seated THEN f[p] ELSE st[p]]
                  /\ joined' = Only(joined, cands \ seated)
                  /\ version' = n + Cardinality(seated)
                  /\ served' = [p \in Players |-> IF p \in seated THEN sv[p] + 1 ELSE sv[p]]
                  /\ UNCHANGED offer
  /\ status' = IF seat' = seat THEN status ELSE StatusFor(Cardinality(SeatedIn(seat')))

-----------------------------------------------------------------------------
(* Participants.  A request key names a command; the k-th command of a     *)
(* player is new only if k - 1 were recorded: a repeated one changes       *)
(* nothing.                                                                *)

\* mutant of Fresh: a recorded command runs again
FreshOrRepeated(p, k) == k <= served[p] + 1
Fresh(p, k) == k = served[p] + 1

CanJoin(p) == ~started /\ p \in eligible /\ seat[p] = NoSlot

Sit(p, s, k) ==
  /\ version < MaxVersion
  /\ seat' = [seat EXCEPT ![p] = s]
  /\ status' = StatusFor(Cardinality(SeatedIn(seat)) + 1)
  /\ version' = version + 1
  /\ served' = [served EXCEPT ![p] = k]

Join(p, k) ==
  LET free == SeatSlots \ (SlotsOf(seat) \cup SlotsOf(invited)
                       \cup OfferedSlots)
  IN /\ Fresh(p, k)
     /\ CanJoin(p)
     /\ invited[p] = NoSlot
     /\ ~(Live /\ offer.account = p)
     /\ free # {}
     /\ Sit(p, Lowest(free), k)
     /\ joined' = Without(joined, p)
     /\ offer' = Unbind(offer, p)
     /\ UNCHANGED <<started, edits, invited, entries, eligible, offersOn>>

Leave(p, k) ==
  /\ Fresh(p, k)
  /\ version < MaxVersion
  /\ ~started
  /\ seat[p] # NoSlot
  /\ PromoteAvailable([seat EXCEPT ![p] = NoSlot], invited, version + 1,
                      [served EXCEPT ![p] = k])
  /\ UNCHANGED <<started, edits, invited, entries, eligible, offersOn>>

\* The description is the owner's: a command of the match like the others.
Describe(k) ==
  /\ k = edits + 1
  /\ version < MaxVersion
  /\ ~started
  /\ edits' = k
  /\ version' = version + 1
  /\ UNCHANGED <<status, started, seat, served, invited, joined, entries, offer,
                 eligible, offersOn>>

-----------------------------------------------------------------------------
(* Invitations of the owner.                                               *)

Invite(p, s) ==
  /\ ~started
  /\ seat[p] = NoSlot /\ invited[p] = NoSlot
  /\ s \notin SlotsOf(seat) \cup SlotsOf(invited)
  /\ Live => offer.slot # s /\ offer.account # p
  /\ RatingMatch => p \in eligible
  /\ invited' = [invited EXCEPT ![p] = s]
  /\ UNCHANGED <<status, started, version, seat, served, edits, joined, entries, offer,
                 eligible, offersOn>>

AcceptInvitation(p, k) ==
  LET s == invited[p]
  IN /\ Fresh(p, k)
     /\ s # NoSlot
     /\ CanJoin(p)
     /\ ~(Live /\ (offer.account = p \/ offer.slot = s))
     /\ \A q \in Players : seat[q] # s /\ (q # p => invited[q] # s)
     /\ Sit(p, s, k)
     /\ invited' = [invited EXCEPT ![p] = NoSlot]
     /\ joined' = Without(joined, p)
     /\ offer' = Unbind(offer, p)
     /\ UNCHANGED <<started, edits, entries, eligible, offersOn>>

\* mutant of CloseInvitation: the freed slot is passed to nobody
CloseInvitationOnly(p) ==
  /\ invited[p] # NoSlot
  /\ invited' = [invited EXCEPT ![p] = NoSlot]
  /\ UNCHANGED <<status, started, version, seat, served, edits, joined, entries,
                 offer, eligible, offersOn>>
\* The player declines or the owner cancels; the slot goes to the queue.
CloseInvitation(p) ==
  /\ invited[p] # NoSlot
  /\ invited' = [invited EXCEPT ![p] = NoSlot]
  /\ PromoteAvailable(seat, [invited EXCEPT ![p] = NoSlot], version, served)
  /\ UNCHANGED <<started, edits, entries, eligible, offersOn>>

-----------------------------------------------------------------------------
(* The waitlist.                                                           *)

\* Full counts participants and invitations, never the offer.
JoinWaitlist(p) ==
  /\ entries < MaxEntries
  /\ CanJoin(p)
  /\ invited[p] = NoSlot
  /\ SeatSlots \subseteq SlotsOf(seat) \cup SlotsOf(invited)
  /\ ~Queues(p)
  /\ joined' = [joined EXCEPT ![p] = entries + 1]
  /\ entries' = entries + 1
  /\ UNCHANGED <<status, started, version, seat, served, edits, invited, offer,
                 eligible, offersOn>>

LeaveWaitlist(p) ==
  /\ Queues(p)
  /\ ~(offersOn /\ offer # NoOffer /\ offer.account = p)
  /\ joined' = Without(joined, p)
  /\ UNCHANGED <<status, started, version, seat, served, edits, invited, entries,
                 offer, eligible, offersOn>>

\* The transaction that resolves an offer also resolves its waiting entry
\* and fails, changing nothing, if that entry no longer waits.
Answerable(p) == Live /\ ~started /\ offer.account = p /\ offer.bound

AcceptOffer(p) ==
  LET st == [seat EXCEPT ![p] = offer.slot]
  IN /\ Answerable(p)
     /\ CanJoin(p)
     /\ invited[p] = NoSlot
     /\ offer.slot \notin SlotsOf(seat) \cup SlotsOf(invited)
     /\ Sit(p, offer.slot, served[p] + 1)
     /\ NextOffer(Without(joined, p), st, invited, NoOffer)
     /\ UNCHANGED <<started, edits, invited, entries, eligible, offersOn>>

DeclineOffer(p) ==
  /\ Answerable(p)
  /\ NextOffer(Without(joined, p), seat, invited, NoOffer)
  /\ UNCHANGED <<status, started, version, seat, served, edits, invited, entries,
                 eligible, offersOn>>

Due == offer.due \/ started

\* The transaction of the expiry sweep on this match: an offer that is due is
\* expired, one of a match that is over for joining is cancelled.  When, and
\* whether, the sweep comes to this match depends on the others: OfferSweep.
SweepOffer ==
  /\ offer # NoOffer
  /\ offer.bound
  /\ Due
  /\ IF started
     THEN joined' = Without(joined, offer.account) /\ offer' = NoOffer
     ELSE NextOffer(Without(joined, offer.account), seat, invited, NoOffer)
  /\ UNCHANGED <<status, started, version, seat, served, edits, invited, entries,
                 eligible, offersOn>>

-----------------------------------------------------------------------------
(* The passing of time, and ratings that results of other matches change.  *)

OfferLapses ==
  /\ Live
  /\ offer' = [offer EXCEPT !.due = TRUE]
  /\ UNCHANGED <<status, started, version, seat, served, edits, invited, joined,
                 entries, eligible, offersOn>>

MatchStarts ==
  /\ ~started
  /\ started' = TRUE
  /\ UNCHANGED <<status, version, seat, served, edits, invited, joined, entries, offer,
                 eligible, offersOn>>

RatingChanges(p) ==
  /\ eligible' = IF p \in eligible THEN eligible \ {p} ELSE eligible \cup {p}
  /\ UNCHANGED <<status, started, version, seat, served, edits, invited, joined,
                 entries, offer, offersOn>>

PlayerStep(p) ==
  \/ \E k \in 1..MaxVersion : Join(p, k) \/ Leave(p, k) \/ AcceptInvitation(p, k)
  \/ \E s \in SeatSlots : Invite(p, s)
  \/ CloseInvitation(p)
  \/ JoinWaitlist(p)
  \/ LeaveWaitlist(p)
  \/ AcceptOffer(p)
  \/ DeclineOffer(p)

SeatsNext ==
  \/ \E p \in Players : PlayerStep(p)
  \/ \E k \in 1..MaxVersion : Describe(k)
  \/ SweepOffer
  \/ OfferLapses
  \/ MatchStarts
  \/ \E p \in Changing : RatingChanges(p)

SeatsSpec == SeatsInit /\ [][SeatsNext]_seatsVars

-----------------------------------------------------------------------------
(* Properties                                                              *)

\* Every variable keeps its type (rows of backend_match.*).
SeatsTypeOK ==
  /\ status \in {"searching", "confirmed", "open", "upcoming"}
  /\ started \in BOOLEAN /\ offersOn \in BOOLEAN
  /\ version \in Nat /\ entries \in Nat /\ edits \in Nat
  /\ seat \in [Players -> SeatSlots \cup {NoSlot}]
  /\ invited \in [Players -> SeatSlots \cup {NoSlot}]
  /\ served \in [Players -> Nat]
  /\ joined \in [Players -> Nat]
  /\ eligible \in SUBSET Players
  /\ \/ offer = NoOffer
     \/ offer \in [account : Players, slot : SeatSlots, due : BOOLEAN, bound : BOOLEAN]

\* A slot has at most one claim: a participant, a pending invitation or an
\* offer that has not lapsed, whichever handlers made them.
SlotHasOneClaim ==
  /\ \A p, q \in Players : p # q =>
       /\ seat[p] # NoSlot => seat[p] # seat[q] /\ seat[p] # invited[q]
       /\ invited[p] # NoSlot => invited[p] # invited[q]
  /\ Live => \A p \in Players : seat[p] # offer.slot /\ invited[p] # offer.slot

\* A player has one place: in a seat, invited, or neither; nobody waits in
\* the queue for a match he already sits in.
OnePlaceEach ==
  \A p \in Players : seat[p] # NoSlot => invited[p] = NoSlot /\ ~Queues(p)

\* No slot stays free while somebody waits for it: the handler that frees
\* a slot has passed it on, as a seat or as an offer.
FreeSlotIsPassedOn ==
  (~started /\ (\E p \in Players : Queues(p)) /\ ~(SeatSlots \subseteq SlotsOf(seat) \cup SlotsOf(invited)))
     => offer # NoOffer

\* The recorded commands of the players: one for each number up to the last.
CommandsOf(sv) == UNION {{p} \X (1..sv[p]) : p \in Players}

\* The version of the match counts its commands, so that a repeated request
\* was served once.
VersionCountsCommands == version = 1 + edits + Cardinality(CommandsOf(served))

\* The status the feed shows says whether a seat is free, after any series
\* of joins, leaves and promotions.
StatusTellsFullness ==
  LET full == Cardinality(SeatedIn(seat)) = Cardinality(SeatSlots)
  IN (status = "open" => ~full) /\ (status = "upcoming" => full)

\* Offers follow the queue: who gets a new one had nobody waiting before
\* him that still waits.
OfferGoesToFirst ==
   (offer' # NoOffer /\ (offer = NoOffer \/ offer'.account # offer.account))
     => /\ offer'.bound /\ joined'[offer'.account] # 0
        /\ \A p \in Players :
             joined'[p] # 0 => joined'[offer'.account] <= joined'[p] 

\* A slot that an invitation or a live offer keeps for a player is never
\* taken by somebody else while it is kept; it comes free only by an answer,
\* by the owner or by time.
KeptSlotIsNotTaken ==
   \A p, q \in Players :
     (p # q /\ seat'[q] # seat[q] /\ seat'[q] # NoSlot)
       => /\ (invited[p] = seat'[q] => invited'[p] = NoSlot)
          /\ (Live /\ offer.account = p => offer.slot # seat'[q])

\* docs/launch/WORKLOG.md says that direct joins, invitations, queue leave
\* and duplicates cannot strand an active offer.  An offer is stranded when
\* its entry no longer waits: no transaction can resolve it any more.
OfferIsNeverStranded == offer # NoOffer => offer.bound

\* Two handlers never give one place away twice: neither a slot to two
\* players nor two places to one.
PlacesAreExclusive == SlotHasOneClaim /\ OnePlaceEach

\* The row of the match says what the seats say: its version counts the
\* commands served, its status whether a seat is free.
MatchRowIsTrue == VersionCountsCommands /\ StatusTellsFullness

\* Who waits longest is next, and what is kept for a player stays his.
QueueIsFair == [][OfferGoesToFirst /\ KeptSlotIsNotTaken]_seatsVars
=============================================================================
