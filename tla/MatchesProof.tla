---------------------------- MODULE MatchesProof ----------------------------
(***************************************************************************)
(* What the seats of a match, its line-up and the results that rate its    *)
(* players keep, each with the inductive invariant its properties need.    *)
(***************************************************************************)
EXTENDS MatchSeats, MatchLineup, MatchRatings, FiniteSetTheorems,
        NaturalsInduction, WellFoundedInduction, TLAPS

-----------------------------------------------------------------------------
(* MatchSeats.                                                             *)

Status == {"searching", "confirmed", "open", "upcoming"}
SeatClaim == [Players -> SeatSlots \cup {NoSlot}]
Order == [Players -> Nat]
Offer == [account : Players, slot : SeatSlots, due : BOOLEAN, bound : BOOLEAN]

\* The seats and the pending invitations of a match claim different slots.
Exclusive(st, inv) ==
  \A p, q \in Players : p # q =>
    /\ st[p] # NoSlot => st[p] # st[q] /\ st[p] # inv[q]
    /\ inv[p] # NoSlot => inv[p] # inv[q]

\* The slot of an offer that has not lapsed is claimed by nobody else.
OfferIsClear(o, st, inv) ==
  o # NoOffer /\ ~o.due => \A p \in Players : st[p] # o.slot /\ inv[p] # o.slot

\* A player who sits is neither invited nor waiting.
Placed(st, inv, q) ==
  \A p \in Players : st[p] # NoSlot => inv[p] = NoSlot /\ q[p] = 0

\* Waiting entries have different places, none beyond the entries made.
InOrder(q, n) ==
  \A p, r \in Players : q[p] <= n /\ (p # r /\ q[p] # 0 => q[p] # q[r])

\* The inductive invariant.  A promotion without offers looks at no offer:
\* it is safe because a match without offers never has one.
SeatsInv ==
  /\ SeatsTypeOK
  /\ Exclusive(seat, invited)
  /\ OfferIsClear(offer, seat, invited)
  /\ Placed(seat, invited, joined)
  /\ InOrder(joined, entries)
  /\ ~offersOn => offer = NoOffer

\* What every step does: it keeps the invariant and the queue fair.
SoundStep == SeatsInv' /\ OfferGoesToFirst /\ KeptSlotIsNotTaken

\* If o was the active offer, a new one goes to the first who waits.
FirstServed(o) ==
  (offer' # NoOffer /\ (o = NoOffer \/ offer'.account # o.account))
    => /\ offer'.bound /\ joined'[offer'.account] # 0
       /\ \A p \in Players : joined'[p] # 0 => joined'[offer'.account] <= joined'[p]

-----------------------------------------------------------------------------
(* The operators.                                                          *)

\* The lowest of some natural numbers is one of them.
LEMMA LowestIsIn ==
    ASSUME NEW S \in SUBSET Nat, S # {}
    PROVE  Lowest(S) \in S /\ \A t \in S : Lowest(S) <= t
<1> DEFINE less == OpToRel(<, Nat)
<1>1. IsWellFoundedOn(less, Nat)
  BY NatLessThanWellFounded, Zenon
<1> HIDE DEF less
<1>2. PICK x \in S : \A y \in S : ~(<<y, x>> \in less)
  BY <1>1, WFMin
<1>3. \A y \in S : x <= y
  <2> SUFFICES ASSUME NEW y \in S, y < x PROVE FALSE
    OBVIOUS
  <2>1. <<y, x>> \in less
    BY Zenon DEF less, OpToRel
  <2> QED BY <1>2, <2>1
<1> QED BY <1>3 DEF Lowest

\* The first of some waiting players is one of them.
LEMMA FirstIsIn ==
    ASSUME NEW q \in Order, NEW cands \in SUBSET Players, cands # {}
    PROVE  FirstOf(q, cands) \in cands /\ \A r \in cands : q[FirstOf(q, cands)] <= q[r]
<1> DEFINE N == {q[p] : p \in cands}
<1>1. N \in SUBSET Nat /\ N # {}
  BY DEF Order
<1>2. Lowest(N) \in N /\ \A t \in N : Lowest(N) <= t
  BY <1>1, LowestIsIn
<1>3. PICK p \in cands : q[p] = Lowest(N)
  BY <1>2
<1>4. \A r \in cands : q[p] <= q[r]
  BY <1>2, <1>3
<1> QED BY <1>4 DEF FirstOf

\* A number of players is a natural number.
LEMMA CountType == \A S \in SUBSET Players : Cardinality(S) \in Nat
BY PlayersAssumption, FS_Subset, FS_CardinalityType

\* A status is followed by a status.
LEMMA StatusType ==
    ASSUME status \in Status, NEW n PROVE StatusFor(n) \in Status
BY DEF StatusFor, Status

\* A free slot is claimed by nobody.
LEMMA FreeSlot ==
    ASSUME NEW st \in SeatClaim, NEW inv \in SeatClaim,
           NEW s \in SeatSlots \ (SlotsOf(st) \cup SlotsOf(inv))
    PROVE  s # NoSlot /\ \A p \in Players : st[p] # s /\ inv[p] # s
BY SlotsAssumption DEF SlotsOf, SeatClaim, NoSlot

-----------------------------------------------------------------------------
(* Offers and promotion.                                                   *)

\* The next offer is for a waiting player and for a slot that is free.
LEMMA NextOfferFacts ==
    ASSUME NEW q \in Order, NEW st \in SeatClaim, NEW inv \in SeatClaim,
           eligible \in SUBSET Players,
           NEW o, o = NoOffer \/ o \in Offer,
           NextOffer(q, st, inv, o), OfferIsClear(o, st, inv)
    PROVE  /\ joined' \in Order
           /\ offer' = NoOffer \/ offer' \in Offer
           /\ OfferIsClear(offer', st, inv)
           /\ \A p \in Players : joined'[p] \in {q[p], 0}
           /\ FirstServed(o)
<1> DEFINE cands == Candidates(q, st, inv)
           free == SeatSlots \ (SlotsOf(st) \cup SlotsOf(inv))
<1>1. cands \in SUBSET Players
  BY DEF Candidates
<1>2. joined' = Only(q, cands)
  BY DEF NextOffer
<1>3. joined' \in Order /\ \A p \in Players : joined'[p] \in {q[p], 0}
  BY <1>2 DEF Only, Order
<1>4. CASE o # NoOffer \/ cands = {} \/ free = {}
  <2>1. offer' = Keep(o, cands)
    BY <1>4 DEF NextOffer
  <2>2. offer' = o \/ (o # NoOffer /\ offer' = [o EXCEPT !.bound = FALSE])
    BY <2>1 DEF Keep
  <2>3. ASSUME o \in Offer, offer' = [o EXCEPT !.bound = FALSE]
        PROVE  offer' \in Offer /\ offer'.due = o.due /\ offer'.slot = o.slot
    BY <2>3 DEF Offer
  <2>4. offer' # NoOffer => o # NoOffer /\ offer'.account = o.account
    BY <2>2 DEF Offer
  <2> QED BY <1>3, <2>2, <2>3, <2>4 DEF OfferIsClear, FirstServed
<1>5. CASE ~(o # NoOffer \/ cands = {} \/ free = {})
  <2>1. offer' = [account |-> FirstOf(q, cands), slot |-> Lowest(free),
                  due |-> FALSE, bound |-> TRUE]
    BY <1>5 DEF NextOffer
  <2>2. /\ FirstOf(q, cands) \in Players /\ FirstOf(q, cands) \in cands
        /\ \A r \in cands : q[FirstOf(q, cands)] <= q[r]
    BY <1>1, <1>5, FirstIsIn
  <2>3. Lowest(free) \in free /\ Lowest(free) \in SeatSlots
    BY <1>5, LowestIsIn, SlotsAssumption
  <2>4. \A p \in Players : st[p] # Lowest(free) /\ inv[p] # Lowest(free)
    BY <2>3, FreeSlot
  <2>5. \A p \in cands : q[p] # 0
    BY DEF Candidates
  <2> HIDE DEF cands, free
  <2>6. FirstServed(o)
    BY <1>1, <1>2, <2>1, <2>2, <2>5 DEF FirstServed, Only
  <2> QED BY <1>3, <2>1, <2>2, <2>3, <2>4, <2>6 DEF Offer, OfferIsClear
<1> QED BY <1>4, <1>5

\* The players that are promoted at once sit in different free slots.
LEMMA FillsFacts ==
    ASSUME NEW q \in Order, NEW n \in Nat, InOrder(q, n),
           NEW cands \in SUBSET Players, \A p \in cands : q[p] # 0,
           NEW free \in SUBSET Nat, NEW f \in [cands -> free \cup {NoSlot}],
           Fills(q, cands, free, f),
           NEW p \in cands, NEW r \in cands, p # r, f[p] # NoSlot
    PROVE  f[p] # f[r]
<1>1. q[p] \in Nat /\ q[r] \in Nat /\ q[p] # q[r]
  BY DEF Order, InOrder
<1>2. f[p] \in Nat /\ f[r] \in Nat
  <2>1. free \cup {NoSlot} \in SUBSET Nat
    BY DEF NoSlot
  <2>2. f[p] \in free \cup {NoSlot} /\ f[r] \in free \cup {NoSlot}
    OBVIOUS
  <2> QED BY <2>1, <2>2
<1>3. (q[p] < q[r] /\ f[r] # NoSlot) => f[p] < f[r]
  BY DEF Fills
<1>4. (q[r] < q[p] /\ f[p] # NoSlot) => f[r] # NoSlot /\ f[r] < f[p]
  BY DEF Fills
<1> QED BY <1>1, <1>2, <1>3, <1>4

\* What a promotion leaves behind, given what the handler has written: each
\* claim stays exclusive, whoever is moved up was waiting and not invited.
LEMMA PromoteFacts ==
    ASSUME SeatsInv, NEW st \in SeatClaim, NEW inv \in SeatClaim, NEW n \in Nat,
           NEW sv \in [Players -> Nat], PromoteAvailable(st, inv, n, sv),
           invited' = inv, UNCHANGED <<entries, offersOn, started, edits, eligible>>,
           Exclusive(st, inv), OfferIsClear(offer, st, inv), Placed(st, inv, joined)
    PROVE  /\ SeatsInv' /\ OfferGoesToFirst
           /\ \A q \in Players : \/ seat'[q] = st[q]
                                 \/ /\ ~offersOn
                                    /\ \A p \in Players : seat'[q] # inv[p]
<1> USE DEF SeatsInv
<1>1. status' \in Status
  BY StatusType DEF PromoteAvailable, SeatsTypeOK, Status
<1>2. CASE started
  <2>1. seat' = st /\ version' = n /\ served' = sv /\ joined' = joined /\ offer' = offer
    BY <1>2 DEF PromoteAvailable
  <2>2. OfferGoesToFirst
    BY <2>1 DEF OfferGoesToFirst
  <2> QED BY <1>1, <2>1, <2>2 DEF SeatsTypeOK, SeatClaim, Status
<1>3. CASE ~started /\ offersOn
  <2>1. /\ seat' = st /\ version' = n /\ served' = sv
        /\ NextOffer(joined, st, inv, offer)
    BY <1>3 DEF PromoteAvailable
  <2>2. /\ joined' \in Order
        /\ offer' = NoOffer \/ offer' \in Offer
        /\ OfferIsClear(offer', st, inv)
        /\ \A p \in Players : joined'[p] \in {joined[p], 0}
        /\ FirstServed(offer)
    BY <2>1, NextOfferFacts DEF SeatsTypeOK, Order, Offer
  <2>3. SeatsTypeOK'
    BY <1>1, <2>1, <2>2 DEF SeatsTypeOK, SeatClaim, Status, Order, Offer
  <2>4. Placed(seat, invited, joined)'
    BY <2>1, <2>2 DEF Placed
  <2>5. InOrder(joined, entries)'
    BY <2>2 DEF InOrder, SeatsTypeOK
  <2>6. OfferGoesToFirst
    BY <2>2 DEF FirstServed, OfferGoesToFirst
  <2> QED BY <1>3, <2>1, <2>2, <2>3, <2>4, <2>5, <2>6
<1>4. CASE ~started /\ ~offersOn
  <2> DEFINE cands == Candidates(joined, st, inv)
             free == SeatSlots \ (SlotsOf(st) \cup SlotsOf(inv))
  <2>1. PICK f \in [cands -> free \cup {NoSlot}] :
          LET seated == {p \in cands : f[p] # NoSlot}
          IN /\ Fills(joined, cands, free, f)
             /\ seat' = [p \in Players |-> IF p \in seated THEN f[p] ELSE st[p]]
             /\ joined' = Only(joined, cands \ seated)
             /\ version' = n + Cardinality(seated)
             /\ served' = [p \in Players |-> IF p \in seated THEN sv[p] + 1 ELSE sv[p]]
             /\ UNCHANGED offer
    BY <1>4, Zenon DEF PromoteAvailable
  <2> DEFINE seated == {p \in cands : f[p] # NoSlot}
  <2>2. /\ cands \in SUBSET Players
        /\ \A p \in cands : joined[p] # 0 /\ st[p] = NoSlot /\ inv[p] = NoSlot
    BY DEF Candidates, SeatsTypeOK
  <2>3. /\ seat' = [p \in Players |-> IF p \in seated THEN f[p] ELSE st[p]]
        /\ joined' = [p \in Players |-> IF p \in cands \ seated THEN joined[p] ELSE 0]
        /\ version' = n + Cardinality(seated)
        /\ served' = [p \in Players |-> IF p \in seated THEN sv[p] + 1 ELSE sv[p]]
        /\ offer' = offer
    BY <2>1 DEF Only
  <2>4. \A p \in seated : /\ f[p] \in free /\ f[p] \in SeatSlots
                          /\ \A r \in Players : st[r] # f[p] /\ inv[r] # f[p]
    BY FreeSlot
  <2>5. \A p, r \in seated : p # r => f[p] # f[r]
    <3>1. free \in SUBSET Nat
      BY SlotsAssumption
    <3>2. joined \in Order /\ entries \in Nat
      BY DEF SeatsTypeOK, Order
    <3> HIDE DEF cands, free
    <3> QED BY <2>1, <2>2, <3>1, <3>2, FillsFacts
  <2>6. Cardinality(seated) \in Nat
    BY <2>2, CountType
  <2>7. SeatsTypeOK'
    <3>1. seat' \in [Players -> SeatSlots \cup {NoSlot}]
      BY <2>3, <2>4 DEF SeatClaim
    <3>2. version' \in Nat
      BY <2>3, <2>6
    <3>3. served' \in [Players -> Nat]
      BY <2>3
    <3>4. joined' \in [Players -> Nat]
      BY <2>3 DEF SeatsTypeOK
    <3> QED BY <1>1, <2>3, <3>1, <3>2, <3>3, <3>4 DEF SeatsTypeOK, SeatClaim, Status
  <2> HIDE DEF cands, free
  <2>8. Exclusive(seat', inv)
    <3> SUFFICES ASSUME NEW p \in Players, NEW r \in Players, p # r
                 PROVE  /\ seat'[p] # NoSlot => seat'[p] # seat'[r] /\ seat'[p] # inv[r]
                        /\ inv[p] # NoSlot => inv[p] # inv[r]
      BY Zenon DEF Exclusive
    <3>1. seat'[p] = IF p \in seated THEN f[p] ELSE st[p]
      BY <2>3
    <3>2. seat'[r] = IF r \in seated THEN f[r] ELSE st[r]
      BY <2>3
    <3> QED BY <2>4, <2>5, <3>1, <3>2 DEF Exclusive
  <2>9. Placed(seat', inv, joined')
    BY <2>2, <2>3 DEF Placed
  <2>10. InOrder(joined', entries')
    <3>1. \A p \in Players : joined'[p] \in {joined[p], 0}
      BY <2>3
    <3> QED BY <3>1 DEF InOrder, SeatsTypeOK
  <2>11. \A q \in Players : seat'[q] = st[q] \/ \A p \in Players : seat'[q] # inv[p]
    BY <2>3, <2>4
  <2>12. OfferGoesToFirst
    BY <2>3 DEF OfferGoesToFirst
  <2> QED BY <1>4, <2>3, <2>7, <2>8, <2>9, <2>10, <2>11, <2>12 DEF OfferIsClear
<1> QED BY <1>2, <1>3, <1>4

-----------------------------------------------------------------------------
(* The invariant.                                                          *)

LEMMA SeatsInitInv == SeatsInit => SeatsInv
<1> SUFFICES ASSUME SeatsInit PROVE SeatsInv
  OBVIOUS
<1>1. /\ seat = [p \in Players |-> NoSlot] /\ invited = [p \in Players |-> NoSlot]
      /\ joined = [p \in Players |-> 0] /\ offer = NoOffer /\ entries = 0
  BY Zenon DEF SeatsInit
<1>2. SeatsTypeOK
  <2>1. version \in Nat /\ entries \in Nat /\ edits \in Nat
    BY DEF SeatsInit
  <2>2. served \in [Players -> Nat] /\ joined \in [Players -> Nat]
    BY DEF SeatsInit
  <2>3. /\ status \in Status /\ started \in BOOLEAN /\ offersOn \in BOOLEAN
        /\ eligible \in SUBSET Players
    BY Zenon DEF SeatsInit, Status
  <2>4. seat \in SeatClaim /\ invited \in SeatClaim
    BY <1>1 DEF SeatClaim
  <2> QED BY <1>1, <2>1, <2>2, <2>3, <2>4, Zenon DEF SeatsTypeOK, Status, SeatClaim
<1>3. Exclusive(seat, invited)
  BY <1>1 DEF Exclusive
<1>4. OfferIsClear(offer, seat, invited)
  BY <1>1, Zenon DEF OfferIsClear
<1>5. Placed(seat, invited, joined)
  BY <1>1 DEF Placed
<1>6. InOrder(joined, entries)
  BY <1>1 DEF InOrder
<1> QED BY <1>1, <1>2, <1>3, <1>4, <1>5, <1>6, Zenon DEF SeatsInv

\* A player who takes a slot that nobody else claims, and that no offer
\* keeps, leaves the places exclusive.
LEMMA SitFacts ==
    ASSUME SeatsInv, NEW p \in Players, NEW s \in SeatSlots, NEW k \in Nat, Sit(p, s, k),
           NEW inv \in SeatClaim, invited' = inv, inv[p] = NoSlot,
           \A q \in Players : inv[q] \in {invited[q], NoSlot},
           \A q \in Players : seat[q] # s /\ inv[q] # s,
           NEW q1 \in Order, q1[p] = 0, \A q \in Players : q1[q] \in {joined[q], 0}
    PROVE  /\ seat' \in SeatClaim /\ status' \in Status
           /\ version' \in Nat /\ served' \in [Players -> Nat]
           /\ Exclusive(seat', inv) /\ Placed(seat', inv, q1) /\ InOrder(q1, entries)
           /\ \A q \in Players : seat'[q] = IF q = p THEN s ELSE seat[q]
<1> USE DEF SeatsInv
<1>1. seat' \in SeatClaim /\ \A q \in Players : seat'[q] = IF q = p THEN s ELSE seat[q]
  BY DEF Sit, SeatsTypeOK, SeatClaim
<1>2. status' \in Status
  BY StatusType DEF Sit, SeatsTypeOK, Status
<1>3. version' \in Nat /\ served' \in [Players -> Nat]
  BY DEF Sit, SeatsTypeOK
<1>4. Exclusive(seat', inv)
  BY <1>1 DEF Exclusive
<1>5. Placed(seat', inv, q1)
  BY <1>1 DEF Placed
<1>6. InOrder(q1, entries)
  BY DEF InOrder, SeatsTypeOK
<1> QED BY <1>1, <1>2, <1>3, <1>4, <1>5, <1>6

\* Closing the entry of a seated player leaves the queue well formed.
LEMMA WithoutFacts ==
    ASSUME SeatsTypeOK, NEW p \in Players
    PROVE  /\ Without(joined, p) \in Order /\ Without(joined, p)[p] = 0
           /\ \A q \in Players : Without(joined, p)[q] \in {joined[q], 0}
BY DEF Without, SeatsTypeOK, Order

\* Unbinding the entry of an offer leaves the offer as it was.
LEMMA UnbindFacts ==
    ASSUME SeatsTypeOK, NEW p \in Players
    PROVE  /\ Unbind(offer, p) = NoOffer \/ Unbind(offer, p) \in Offer
           /\ offer = NoOffer => Unbind(offer, p) = NoOffer
           /\ offer # NoOffer => /\ Unbind(offer, p).slot = offer.slot
                                 /\ Unbind(offer, p).due = offer.due
                                 /\ Unbind(offer, p).account = offer.account
BY DEF Unbind, SeatsTypeOK, Offer

\* Nobody takes a slot kept for another player if only one player moves, to
\* a slot that is kept for nobody else.
LEMMA OneSits ==
    ASSUME NEW p \in Players, NEW s,
           \A q \in Players : seat'[q] = IF q = p THEN s ELSE seat[q],
           \A q \in Players \ {p} : invited[q] # s,
           Live => offer.account = p \/ offer.slot # s
    PROVE  KeptSlotIsNotTaken
BY DEF KeptSlotIsNotTaken

\* A step that moves nobody and makes no offer to another player is fair.
LEMMA NobodyMoves ==
    ASSUME seat' = seat,
           offer' # NoOffer => offer # NoOffer /\ offer'.account = offer.account
    PROVE  OfferGoesToFirst /\ KeptSlotIsNotTaken
BY DEF OfferGoesToFirst, KeptSlotIsNotTaken

LEMMA JoinStep ==
    ASSUME SeatsInv, NEW p \in Players, NEW k \in 1..MaxVersion, Join(p, k)
    PROVE  SoundStep
<1> USE DEF SeatsInv
<1> DEFINE free == SeatSlots \ (SlotsOf(seat) \cup SlotsOf(invited) \cup OfferedSlots)
           s == Lowest(free)
<1>1. s \in free
  BY LowestIsIn, SlotsAssumption DEF Join
<1>2. s \in SeatSlots /\ \A q \in Players : seat[q] # s /\ invited[q] # s
  BY <1>1, FreeSlot DEF SeatsTypeOK, SeatClaim
<1>3. Live => offer.slot # s
  BY <1>1 DEF OfferedSlots
<1>4. Sit(p, s, k) /\ invited[p] = NoSlot /\ k \in Nat
  BY BoundsAssumption DEF Join
<1>5. joined' = Without(joined, p) /\ offer' = Unbind(offer, p) /\ invited' = invited
      /\ UNCHANGED <<started, edits, entries, eligible, offersOn>>
  BY DEF Join
<1> HIDE DEF s
<1>6. /\ seat' \in SeatClaim /\ status' \in Status
      /\ version' \in Nat /\ served' \in [Players -> Nat]
      /\ Exclusive(seat', invited) /\ Placed(seat', invited, joined') /\ InOrder(joined', entries)
      /\ \A q \in Players : seat'[q] = IF q = p THEN s ELSE seat[q]
  BY <1>2, <1>4, <1>5, WithoutFacts, SitFacts DEF SeatsTypeOK, SeatClaim
<1>7. OfferIsClear(offer', seat', invited)
  BY <1>2, <1>3, <1>5, <1>6, UnbindFacts DEF OfferIsClear, Live
<1>8. SeatsTypeOK'
  BY <1>5, <1>6, WithoutFacts, UnbindFacts DEF SeatsTypeOK, SeatClaim, Status, Order, Offer
<1>9. KeptSlotIsNotTaken
  BY <1>2, <1>3, <1>6, OneSits
<1>10. OfferGoesToFirst
  BY <1>5, UnbindFacts DEF OfferGoesToFirst
<1> QED BY <1>5, <1>6, <1>7, <1>8, <1>9, <1>10, UnbindFacts DEF SoundStep

LEMMA AcceptInvitationStep ==
    ASSUME SeatsInv, NEW p \in Players, NEW k \in 1..MaxVersion, AcceptInvitation(p, k)
    PROVE  SoundStep
<1> USE DEF SeatsInv
<1> DEFINE s == invited[p]
           inv == [invited EXCEPT ![p] = NoSlot]
<1>1. /\ s \in SeatSlots /\ Sit(p, s, k) /\ k \in Nat
      /\ Live => offer.slot # s
      /\ \A q \in Players : seat[q] # s /\ (q # p => invited[q] # s)
  BY BoundsAssumption DEF AcceptInvitation, SeatsTypeOK
<1>2. joined' = Without(joined, p) /\ offer' = Unbind(offer, p) /\ invited' = inv
      /\ UNCHANGED <<started, edits, entries, eligible, offersOn>>
  BY DEF AcceptInvitation
<1>3. /\ inv \in SeatClaim /\ inv[p] = NoSlot
      /\ \A q \in Players : inv[q] \in {invited[q], NoSlot} /\ inv[q] # s
  BY <1>1, SlotsAssumption DEF SeatsTypeOK, SeatClaim, NoSlot
<1>4. Exclusive(seat, inv) /\ OfferIsClear(offer, seat, inv)
  BY <1>3, SlotsAssumption DEF Exclusive, OfferIsClear, SeatsTypeOK, NoSlot, NoOffer
<1> HIDE DEF s, inv
<1>5. /\ seat' \in SeatClaim /\ status' \in Status
      /\ version' \in Nat /\ served' \in [Players -> Nat]
      /\ Exclusive(seat', inv) /\ Placed(seat', inv, joined') /\ InOrder(joined', entries)
      /\ \A q \in Players : seat'[q] = IF q = p THEN s ELSE seat[q]
  BY <1>1, <1>2, <1>3, WithoutFacts, SitFacts
<1>6. OfferIsClear(offer', seat', inv)
  BY <1>1, <1>2, <1>3, <1>4, <1>5, UnbindFacts DEF OfferIsClear, Live
<1>7. SeatsTypeOK'
  BY <1>2, <1>3, <1>5, WithoutFacts, UnbindFacts DEF SeatsTypeOK, SeatClaim, Status, Order, Offer
<1>8. KeptSlotIsNotTaken
  BY <1>1, <1>5, OneSits
<1>9. OfferGoesToFirst
  BY <1>2, UnbindFacts DEF OfferGoesToFirst
<1> QED BY <1>2, <1>5, <1>6, <1>7, <1>8, <1>9, UnbindFacts DEF SoundStep

LEMMA LeaveStep ==
    ASSUME SeatsInv, NEW p \in Players, NEW k \in 1..MaxVersion, Leave(p, k)
    PROVE  SoundStep
<1> USE DEF SeatsInv
<1> DEFINE st == [seat EXCEPT ![p] = NoSlot]
           sv == [served EXCEPT ![p] = k]
<1>1. /\ PromoteAvailable(st, invited, version + 1, sv)
      /\ UNCHANGED <<started, edits, invited, entries, eligible, offersOn>>
  BY DEF Leave
<1>2. /\ st \in SeatClaim /\ sv \in [Players -> Nat] /\ version + 1 \in Nat
      /\ invited \in SeatClaim
      /\ \A q \in Players : st[q] = IF q = p THEN NoSlot ELSE seat[q]
  BY BoundsAssumption DEF SeatsTypeOK, SeatClaim
<1> HIDE DEF st, sv
<1>3. Exclusive(st, invited)
  BY <1>2 DEF Exclusive
<1>4. OfferIsClear(offer, st, invited)
  <2>1. offer # NoOffer => offer.slot # NoSlot
    BY SlotsAssumption DEF SeatsTypeOK, NoSlot
  <2> QED BY <1>2, <2>1 DEF OfferIsClear
<1>5. Placed(st, invited, joined)
  BY <1>2 DEF Placed
<1>6. /\ SeatsInv' /\ OfferGoesToFirst
      /\ \A q \in Players : \/ seat'[q] = st[q]
                            \/ ~offersOn /\ \A r \in Players : seat'[q] # invited[r]
  BY <1>1, <1>2, <1>3, <1>4, <1>5, PromoteFacts
<1>7. KeptSlotIsNotTaken
  BY <1>2, <1>6 DEF KeptSlotIsNotTaken, Live
<1> QED BY <1>6, <1>7 DEF SoundStep

LEMMA CloseInvitationStep ==
    ASSUME SeatsInv, NEW p \in Players, CloseInvitation(p)
    PROVE  SoundStep
<1> USE DEF SeatsInv
<1> DEFINE inv == [invited EXCEPT ![p] = NoSlot]
<1>1. /\ PromoteAvailable(seat, inv, version, served) /\ invited' = inv
      /\ UNCHANGED <<started, edits, entries, eligible, offersOn>>
  BY DEF CloseInvitation
<1>2. /\ inv \in SeatClaim /\ seat \in SeatClaim
      /\ version \in Nat /\ served \in [Players -> Nat]
      /\ \A q \in Players : inv[q] = IF q = p THEN NoSlot ELSE invited[q]
  BY DEF SeatsTypeOK, SeatClaim
<1> HIDE DEF inv
<1>3. Exclusive(seat, inv)
  BY <1>2 DEF Exclusive
<1>4. OfferIsClear(offer, seat, inv)
  <2>1. offer # NoOffer => offer.slot # NoSlot
    BY SlotsAssumption DEF SeatsTypeOK, NoSlot
  <2> QED BY <1>2, <2>1 DEF OfferIsClear
<1>5. Placed(seat, inv, joined)
  BY <1>2 DEF Placed
<1>6. /\ SeatsInv' /\ OfferGoesToFirst
      /\ \A q \in Players : \/ seat'[q] = seat[q]
                            \/ ~offersOn /\ \A r \in Players : seat'[q] # inv[r]
  BY <1>1, <1>2, <1>3, <1>4, <1>5, PromoteFacts
<1>7. KeptSlotIsNotTaken
  BY <1>1, <1>2, <1>6 DEF KeptSlotIsNotTaken, Live
<1> QED BY <1>6, <1>7 DEF SoundStep

LEMMA InviteStep ==
    ASSUME SeatsInv, NEW p \in Players, NEW s \in SeatSlots, Invite(p, s)
    PROVE  SoundStep
<1> USE DEF SeatsInv
<1>1. /\ invited' = [invited EXCEPT ![p] = s] /\ seat[p] = NoSlot
      /\ UNCHANGED <<status, started, version, seat, served, edits, joined, entries,
                     offer, eligible, offersOn>>
      /\ Live => offer.slot # s
  BY DEF Invite
<1>2. invited' \in SeatClaim /\ \A q \in Players : invited'[q] = IF q = p THEN s ELSE invited[q]
  BY <1>1 DEF SeatsTypeOK, SeatClaim
<1>3. \A q \in Players : seat[q] # s /\ invited[q] # s
  BY FreeSlot DEF Invite, SeatsTypeOK, SeatClaim
<1>4. Exclusive(seat, invited')
  BY <1>2, <1>3 DEF Exclusive
<1>5. OfferIsClear(offer, seat, invited')
  BY <1>1, <1>2, <1>3 DEF OfferIsClear, Live
<1>6. Placed(seat, invited', joined)
  BY <1>1, <1>2 DEF Placed
<1>7. SeatsTypeOK'
  BY <1>1, <1>2 DEF SeatsTypeOK, SeatClaim
<1> QED BY <1>1, <1>4, <1>5, <1>6, <1>7, NobodyMoves DEF SoundStep

LEMMA JoinWaitlistStep ==
    ASSUME SeatsInv, NEW p \in Players, JoinWaitlist(p)
    PROVE  SoundStep
<1> USE DEF SeatsInv
<1>1. /\ joined' = [joined EXCEPT ![p] = entries + 1] /\ entries' = entries + 1
      /\ seat[p] = NoSlot
      /\ UNCHANGED <<status, started, version, seat, served, edits, invited, offer,
                     eligible, offersOn>>
  BY DEF JoinWaitlist, CanJoin
<1>2. /\ entries' \in Nat /\ joined' \in Order
      /\ \A q \in Players : joined'[q] = IF q = p THEN entries + 1 ELSE joined[q]
  BY <1>1 DEF SeatsTypeOK, Order
<1>3. InOrder(joined', entries')
  BY <1>1, <1>2 DEF InOrder, SeatsTypeOK
<1>4. Placed(seat, invited, joined')
  BY <1>1, <1>2 DEF Placed
<1>5. SeatsTypeOK'
  BY <1>1, <1>2 DEF SeatsTypeOK, Order
<1> QED BY <1>1, <1>3, <1>4, <1>5, NobodyMoves DEF SoundStep

LEMMA LeaveWaitlistStep ==
    ASSUME SeatsInv, NEW p \in Players, LeaveWaitlist(p)
    PROVE  SoundStep
<1> USE DEF SeatsInv
<1>1. /\ joined' = Without(joined, p)
      /\ UNCHANGED <<status, started, version, seat, served, edits, invited, entries,
                     offer, eligible, offersOn>>
  BY DEF LeaveWaitlist
<1>2. joined' \in Order /\ \A q \in Players : joined'[q] \in {joined[q], 0}
  BY <1>1, WithoutFacts
<1>3. InOrder(joined', entries) /\ Placed(seat, invited, joined')
  BY <1>2 DEF InOrder, Placed, SeatsTypeOK
<1>4. SeatsTypeOK'
  BY <1>1, <1>2 DEF SeatsTypeOK, Order
<1> QED BY <1>1, <1>3, <1>4, NobodyMoves DEF SoundStep

LEMMA AcceptOfferStep ==
    ASSUME SeatsInv, NEW p \in Players, AcceptOffer(p)
    PROVE  SoundStep
<1> USE DEF SeatsInv
<1> DEFINE st == [seat EXCEPT ![p] = offer.slot]
           q1 == Without(joined, p)
<1>1. /\ offer # NoOffer /\ offer.account = p
      /\ Sit(p, offer.slot, served[p] + 1) /\ NextOffer(q1, st, invited, NoOffer)
      /\ UNCHANGED <<started, edits, invited, entries, eligible, offersOn>>
      /\ invited[p] = NoSlot
  BY DEF AcceptOffer, Answerable, Live
<1>2. /\ offer.slot \in SeatSlots /\ served[p] + 1 \in Nat /\ invited \in SeatClaim
      /\ eligible \in SUBSET Players
  BY <1>1 DEF SeatsTypeOK, SeatClaim
<1>3. \A q \in Players : seat[q] # offer.slot /\ invited[q] # offer.slot
  BY <1>2, FreeSlot DEF AcceptOffer, SeatsTypeOK, SeatClaim
<1>4. q1 \in Order /\ q1[p] = 0 /\ \A q \in Players : q1[q] \in {joined[q], 0}
  BY WithoutFacts
<1>5. st \in SeatClaim /\ seat' = st
  BY <1>1, <1>2 DEF SeatsTypeOK, SeatClaim, Sit
<1> HIDE DEF st, q1
<1>6. /\ seat' \in SeatClaim /\ status' \in Status
      /\ version' \in Nat /\ served' \in [Players -> Nat]
      /\ Exclusive(seat', invited) /\ Placed(seat', invited, q1) /\ InOrder(q1, entries)
      /\ \A q \in Players : seat'[q] = IF q = p THEN offer.slot ELSE seat[q]
  BY <1>1, <1>2, <1>3, <1>4, SitFacts
<1>7. OfferIsClear(NoOffer, st, invited)
  BY DEF OfferIsClear
<1>8. /\ joined' \in Order
      /\ offer' = NoOffer \/ offer' \in Offer
      /\ OfferIsClear(offer', st, invited)
      /\ \A q \in Players : joined'[q] \in {q1[q], 0}
      /\ FirstServed(NoOffer)
  BY <1>1, <1>2, <1>4, <1>5, <1>7, NextOfferFacts
<1>9. InOrder(joined', entries) /\ Placed(seat', invited, joined')
  BY <1>4, <1>6, <1>8 DEF InOrder, Placed, SeatsTypeOK
<1>10. SeatsTypeOK'
  BY <1>1, <1>6, <1>8 DEF SeatsTypeOK, SeatClaim, Status, Order, Offer
<1>11. ~offersOn' => offer' = NoOffer
  BY <1>1
<1>12. KeptSlotIsNotTaken
  BY <1>1, <1>3, <1>6, OneSits
<1>13. OfferGoesToFirst
  BY <1>8 DEF FirstServed, OfferGoesToFirst
<1> QED BY <1>1, <1>5, <1>6, <1>8, <1>9, <1>10, <1>11, <1>12, <1>13 DEF SoundStep

\* The next offer, after an answer or a sweep that leaves the seats alone.
LEMMA PassedOnStep ==
    ASSUME SeatsInv, NEW p \in Players, offer # NoOffer,
           NextOffer(Without(joined, p), seat, invited, NoOffer),
           UNCHANGED <<status, started, version, seat, served, edits, invited, entries,
                       eligible, offersOn>>
    PROVE  SoundStep
<1> USE DEF SeatsInv
<1> DEFINE q1 == Without(joined, p)
<1>1. q1 \in Order /\ \A q \in Players : q1[q] \in {joined[q], 0}
  BY WithoutFacts
<1>2. seat \in SeatClaim /\ invited \in SeatClaim /\ eligible \in SUBSET Players
  BY DEF SeatsTypeOK, SeatClaim
<1>3. OfferIsClear(NoOffer, seat, invited)
  BY DEF OfferIsClear
<1> HIDE DEF q1
<1>4. /\ joined' \in Order
      /\ offer' = NoOffer \/ offer' \in Offer
      /\ OfferIsClear(offer', seat, invited)
      /\ \A q \in Players : joined'[q] \in {q1[q], 0}
      /\ FirstServed(NoOffer)
  BY <1>1, <1>2, <1>3, NextOfferFacts DEF q1
<1>5. InOrder(joined', entries) /\ Placed(seat, invited, joined')
  BY <1>1, <1>4 DEF InOrder, Placed, SeatsTypeOK
<1>6. SeatsTypeOK'
  BY <1>4 DEF SeatsTypeOK, Order, Offer
<1>7. KeptSlotIsNotTaken
  BY DEF KeptSlotIsNotTaken
<1>8. OfferGoesToFirst
  BY <1>4 DEF FirstServed, OfferGoesToFirst
<1> QED BY <1>4, <1>5, <1>6, <1>7, <1>8 DEF SoundStep

LEMMA SweepOfferStep ==
    ASSUME SeatsInv, SweepOffer
    PROVE  SoundStep
<1> USE DEF SeatsInv
<1>1. /\ offer # NoOffer /\ offer.account \in Players
      /\ UNCHANGED <<status, started, version, seat, served, edits, invited, entries,
                     eligible, offersOn>>
  BY DEF SweepOffer, SeatsTypeOK
<1>2. CASE started
  <2>1. joined' = Without(joined, offer.account) /\ offer' = NoOffer
    BY <1>2 DEF SweepOffer
  <2>2. joined' \in Order /\ \A q \in Players : joined'[q] \in {joined[q], 0}
    BY <1>1, <2>1, WithoutFacts
  <2>3. InOrder(joined', entries) /\ Placed(seat, invited, joined')
    BY <2>2 DEF InOrder, Placed, SeatsTypeOK
  <2>4. SeatsTypeOK' /\ OfferIsClear(offer', seat, invited)
    BY <1>1, <2>1, <2>2 DEF SeatsTypeOK, Order, OfferIsClear
  <2> QED BY <1>1, <2>1, <2>3, <2>4, NobodyMoves DEF SoundStep
<1>3. CASE ~started
  BY <1>1, <1>3, PassedOnStep DEF SweepOffer
<1> QED BY <1>2, <1>3

LEMMA PlayerStepFacts ==
    ASSUME SeatsInv, NEW p \in Players, PlayerStep(p)
    PROVE  SoundStep
<1>1. ASSUME NEW k \in 1..MaxVersion, Join(p, k) \/ Leave(p, k) \/ AcceptInvitation(p, k)
      PROVE  SoundStep
  BY <1>1, JoinStep, LeaveStep, AcceptInvitationStep
<1>2. ASSUME NEW s \in SeatSlots, Invite(p, s) PROVE SoundStep
  BY <1>2, InviteStep
<1>3. CASE CloseInvitation(p)
  BY <1>3, CloseInvitationStep
<1>4. CASE JoinWaitlist(p)
  BY <1>4, JoinWaitlistStep
<1>5. CASE LeaveWaitlist(p)
  BY <1>5, LeaveWaitlistStep
<1>6. CASE AcceptOffer(p)
  BY <1>6, AcceptOfferStep
<1>7. CASE DeclineOffer(p)
  BY <1>7, PassedOnStep DEF DeclineOffer, Answerable, Live
<1> QED BY <1>1, <1>2, <1>3, <1>4, <1>5, <1>6, <1>7 DEF PlayerStep

LEMMA SeatsStep ==
    ASSUME SeatsInv, [SeatsNext]_seatsVars
    PROVE  SoundStep
<1> USE DEF SeatsInv
<1>1. ASSUME NEW p \in Players, PlayerStep(p) PROVE SoundStep
  BY <1>1, PlayerStepFacts
<1>2. ASSUME NEW k \in 1..MaxVersion, Describe(k) PROVE SoundStep
  <2>1. /\ edits' \in Nat /\ version' \in Nat
        /\ UNCHANGED <<status, started, seat, served, invited, joined, entries, offer,
                       eligible, offersOn>>
    BY <1>2, BoundsAssumption DEF Describe, SeatsTypeOK
  <2>2. SeatsTypeOK'
    BY <2>1 DEF SeatsTypeOK
  <2> QED BY <2>1, <2>2, NobodyMoves DEF SoundStep
<1>3. CASE SweepOffer
  BY <1>3, SweepOfferStep
<1>4. CASE OfferLapses
  <2>1. /\ offer # NoOffer /\ offer' = [offer EXCEPT !.due = TRUE]
        /\ UNCHANGED <<status, started, version, seat, served, edits, invited, joined,
                       entries, eligible, offersOn>>
    BY <1>4 DEF OfferLapses, Live
  <2>2. offer' \in Offer /\ offer'.due /\ offer'.account = offer.account
    BY <2>1 DEF SeatsTypeOK, Offer
  <2>3. SeatsTypeOK' /\ OfferIsClear(offer', seat, invited)
    BY <2>1, <2>2 DEF SeatsTypeOK, OfferIsClear, Offer
  <2> QED BY <2>1, <2>2, <2>3, NobodyMoves DEF SoundStep
<1>5. CASE MatchStarts
  <2>1. /\ started' = TRUE
        /\ UNCHANGED <<status, version, seat, served, edits, invited, joined, entries,
                       offer, eligible, offersOn>>
    BY <1>5 DEF MatchStarts
  <2>2. SeatsTypeOK'
    BY <2>1 DEF SeatsTypeOK
  <2> QED BY <2>1, <2>2, NobodyMoves DEF SoundStep
<1>6. ASSUME NEW p \in Changing, RatingChanges(p) PROVE SoundStep
  <2>1. /\ eligible' \in SUBSET Players
        /\ UNCHANGED <<status, started, version, seat, served, edits, invited, joined,
                       entries, offer, offersOn>>
    BY <1>6, PlayersAssumption DEF RatingChanges, SeatsTypeOK
  <2>2. SeatsTypeOK'
    BY <2>1 DEF SeatsTypeOK
  <2> QED BY <2>1, <2>2, NobodyMoves DEF SoundStep
<1>7. CASE UNCHANGED seatsVars
  <2>1. UNCHANGED <<status, started, version, seat, served, edits, invited, joined,
                    entries, offer, eligible, offersOn>>
    BY <1>7 DEF seatsVars
  <2>2. SeatsTypeOK'
    BY <2>1 DEF SeatsTypeOK
  <2> QED BY <2>1, <2>2, NobodyMoves DEF SoundStep
<1> QED BY <1>1, <1>2, <1>3, <1>4, <1>5, <1>6, <1>7 DEF SeatsNext

-----------------------------------------------------------------------------
(* The row of the match: its version, its status, and the slots that are   *)
(* passed on.                                                              *)

\* The version n of a match after edits and the recorded commands sv.
VersionCounts(n, sv) ==
  IsFiniteSet(CommandsOf(sv)) /\ n = 1 + edits + Cardinality(CommandsOf(sv))

Full(st) == Cardinality(SeatedIn(st)) = Cardinality(SeatSlots)

RowInv == VersionCounts(version, served) /\ StatusTellsFullness /\ FreeSlotIsPassedOn

LEMMA CommandFacts ==
    ASSUME NEW sv, NEW c
    PROVE  c \in CommandsOf(sv) <=> \E p \in Players : \E i \in 1..sv[p] : c = <<p, i>>
BY DEF CommandsOf

\* If each player of S has one more command served, there are as many more.
LEMMA ServedMore ==
    ASSUME NEW sv \in [Players -> Nat], NEW sw \in [Players -> Nat], NEW S \in SUBSET Players,
           \A p \in Players : sw[p] = IF p \in S THEN sv[p] + 1 ELSE sv[p],
           IsFiniteSet(CommandsOf(sv))
    PROVE  /\ IsFiniteSet(CommandsOf(sw))
           /\ Cardinality(CommandsOf(sw)) = Cardinality(CommandsOf(sv)) + Cardinality(S)
<1> DEFINE next == {<<p, sv[p] + 1>> : p \in S}
           f == [p \in S |-> <<p, sv[p] + 1>>]
<1>1. IsFiniteSet(S)
  BY PlayersAssumption, FS_Subset
<1>2. ExistsBijection(S, next)
  <2>1. f \in [S -> next] /\ \A p \in S : f[p] = <<p, sv[p] + 1>>
    OBVIOUS
  <2>2. \A p, r \in S : f[p] = f[r] => p = r
    BY <2>1
  <2>3. \A c \in next : \E p \in S : f[p] = c
    BY <2>1
  <2> HIDE DEF f, next
  <2>4. f \in Injection(S, next) /\ f \in Surjection(S, next)
    BY <2>1, <2>2, <2>3 DEF Injection, IsInjective, Surjection
  <2>5. f \in Bijection(S, next)
    BY <2>4 DEF Bijection
  <2> QED BY <2>5 DEF ExistsBijection
<1>3. IsFiniteSet(next) /\ Cardinality(next) = Cardinality(S)
  BY <1>1, <1>2, FS_Bijection
<1>4. CommandsOf(sw) = CommandsOf(sv) \cup next
  <2>1. ASSUME NEW c \in CommandsOf(sw) PROVE c \in CommandsOf(sv) \cup next
    <3>1. PICK p \in Players : \E i \in 1..sw[p] : c = <<p, i>>
      BY <2>1, CommandFacts
    <3>2. PICK i \in 1..sw[p] : c = <<p, i>>
      BY <3>1
    <3>3. CASE i \in 1..sv[p]
      BY <3>2, <3>3, CommandFacts
    <3>4. CASE i \notin 1..sv[p]
      <4>1. sv[p] \in Nat /\ sw[p] \in Nat
        OBVIOUS
      <4>2. p \in S /\ i = sv[p] + 1
        BY <3>4, <4>1
      <4> QED BY <3>2, <4>2
    <3> QED BY <3>3, <3>4
  <2>2. ASSUME NEW c \in CommandsOf(sv) PROVE c \in CommandsOf(sw)
    <3>1. PICK p \in Players : \E i \in 1..sv[p] : c = <<p, i>>
      BY <2>2, CommandFacts
    <3>2. sv[p] \in Nat /\ sw[p] \in Nat /\ sw[p] >= sv[p]
      OBVIOUS
    <3>3. PICK i \in 1..sw[p] : c = <<p, i>>
      BY <3>1, <3>2
    <3> QED BY <3>3, CommandFacts
  <2>3. ASSUME NEW p \in S PROVE <<p, sv[p] + 1>> \in CommandsOf(sw)
    <3>1. sv[p] \in Nat /\ sw[p] = sv[p] + 1
      OBVIOUS
    <3>2. PICK i \in 1..sw[p] : i = sv[p] + 1
      BY <3>1
    <3> QED BY <3>2, CommandFacts
  <2> QED BY <2>1, <2>2, <2>3
<1>5. CommandsOf(sv) \cap next = {}
  <2> SUFFICES ASSUME NEW p \in S, <<p, sv[p] + 1>> \in CommandsOf(sv) PROVE FALSE
    OBVIOUS
  <2>1. PICK r \in Players : \E i \in 1..sv[r] : <<p, sv[p] + 1>> = <<r, i>>
    BY CommandFacts
  <2>2. sv[p] \in Nat
    OBVIOUS
  <2> QED BY <2>1, <2>2
<1> HIDE DEF next
<1>6. Cardinality({}) = 0
  BY FS_EmptySet
<1>7. Cardinality(CommandsOf(sv)) \in Nat /\ Cardinality(S) \in Nat
  BY <1>1, FS_CardinalityType
<1> QED BY <1>3, <1>4, <1>5, <1>6, <1>7, FS_Union

\* No more players sit than there are slots.
LEMMA SeatsSuffice ==
    ASSUME NEW st \in SeatClaim, NEW inv, Exclusive(st, inv)
    PROVE  /\ Cardinality(SeatedIn(st)) \in Nat /\ Cardinality(SeatSlots) \in Nat
           /\ Cardinality(SeatedIn(st)) <= Cardinality(SeatSlots)
<1> DEFINE f == [p \in SeatedIn(st) |-> st[p]]
<1>1. f \in Injection(SeatedIn(st), SeatSlots)
  <2>1. f \in [SeatedIn(st) -> SeatSlots] /\ \A p \in SeatedIn(st) : f[p] = st[p]
    BY DEF SeatedIn, SeatClaim
  <2>2. \A p, r \in SeatedIn(st) : f[p] = f[r] => p = r
    BY <2>1 DEF SeatedIn, Exclusive
  <2> HIDE DEF f
  <2> QED BY <2>1, <2>2 DEF Injection, IsInjective
<1>2. Cardinality(SeatSlots) \in Nat /\ IsFiniteSet(SeatSlots)
  BY SlotsAssumption, FS_CardinalityType
<1>3. SeatedIn(st) \in SUBSET Players
  BY DEF SeatedIn
<1> QED BY <1>1, <1>2, <1>3, CountType, FS_Injection

\* The status that is written with the seats says whether one is free.
LEMMA StatusFits ==
    ASSUME NEW st \in SeatClaim, NEW inv, Exclusive(st, inv),
           NEW s, s = StatusFor(Cardinality(SeatedIn(st)))
    PROVE  (s = "open" => ~Full(st)) /\ (s = "upcoming" => Full(st))
BY SeatsSuffice DEF StatusFor, Full

\* After the next offer, no slot is free for one who waits without one.
LEMMA OfferPassesOn ==
    ASSUME NEW q \in Order, NEW st \in SeatClaim, NEW inv \in SeatClaim,
           NEW o, o = NoOffer \/ o \in Offer, NextOffer(q, st, inv, o),
           NEW p \in Players, joined'[p] # 0, ~(SeatSlots \subseteq SlotsOf(st) \cup SlotsOf(inv))
    PROVE  offer' # NoOffer
<1>1. Candidates(q, st, inv) # {}
  BY DEF NextOffer, Only
<1>2. SeatSlots \ (SlotsOf(st) \cup SlotsOf(inv)) # {}
  OBVIOUS
<1>3. CASE o # NoOffer
  <2>1. offer' = Keep(o, Candidates(q, st, inv)) /\ o \in Offer
    BY <1>3 DEF NextOffer
  <2> QED BY <1>3, <2>1, PlayersAssumption DEF Keep, Offer, NoOffer
<1>4. CASE o = NoOffer
  <2>1. offer'.bound
    BY <1>1, <1>2, <1>4 DEF NextOffer
  <2> QED BY <2>1 DEF NoOffer
<1> QED BY <1>3, <1>4

\* The version, the status and the passing on, after a promotion.
LEMMA PromoteRow ==
    ASSUME SeatsInv, SeatsInv', RowInv, NEW st \in SeatClaim, NEW inv \in SeatClaim, NEW n \in Nat,
           NEW sv \in [Players -> Nat], PromoteAvailable(st, inv, n, sv),
           invited' = inv, UNCHANGED <<started, edits, offersOn>>,
           VersionCounts(n, sv)
    PROVE  RowInv'
<1> USE DEF SeatsInv
<1>1. StatusTellsFullness'
  <2>1. CASE seat' = seat
    BY <2>1 DEF PromoteAvailable, RowInv, StatusTellsFullness, SeatedIn
  <2>2. CASE seat' # seat
    <3>1. status' = StatusFor(Cardinality(SeatedIn(seat')))
      BY <2>2 DEF PromoteAvailable
    <3>2. seat' \in SeatClaim /\ Exclusive(seat', inv)
      BY DEF SeatsTypeOK, SeatClaim
    <3>3. (status' = "open" => ~Full(seat')) /\ (status' = "upcoming" => Full(seat'))
      BY <3>1, <3>2, StatusFits
    <3> QED BY <3>3 DEF StatusTellsFullness, Full, SeatedIn
  <2> QED BY <2>1, <2>2
<1>2. CASE started
  <2>1. version' = n /\ served' = sv /\ started'
    BY <1>2 DEF PromoteAvailable
  <2>2. VersionCounts(version, served)'
    BY <2>1 DEF VersionCounts, CommandsOf
  <2> QED BY <1>1, <2>1, <2>2 DEF RowInv, FreeSlotIsPassedOn
<1>3. CASE ~started /\ offersOn
  <2>1. version' = n /\ served' = sv /\ seat' = st /\ NextOffer(joined, st, inv, offer)
    BY <1>3 DEF PromoteAvailable
  <2>2. VersionCounts(version, served)'
    BY <2>1 DEF VersionCounts, CommandsOf
  <2>3. \A p \in Players : joined'[p] # 0 /\ ~(SeatSlots \subseteq SlotsOf(st) \cup SlotsOf(inv))
           => offer' # NoOffer
    BY <2>1, OfferPassesOn DEF SeatsTypeOK, Order, Offer
  <2>4. FreeSlotIsPassedOn'
    BY <2>1, <2>3 DEF FreeSlotIsPassedOn, Queues, SlotsOf
  <2> QED BY <1>1, <2>2, <2>4 DEF RowInv
<1>4. CASE ~started /\ ~offersOn
  <2> DEFINE cands == Candidates(joined, st, inv)
             free == SeatSlots \ (SlotsOf(st) \cup SlotsOf(inv))
  <2>1. PICK f \in [cands -> free \cup {NoSlot}] :
          LET seated == {p \in cands : f[p] # NoSlot}
          IN /\ Fills(joined, cands, free, f)
             /\ seat' = [p \in Players |-> IF p \in seated THEN f[p] ELSE st[p]]
             /\ joined' = Only(joined, cands \ seated)
             /\ version' = n + Cardinality(seated)
             /\ served' = [p \in Players |-> IF p \in seated THEN sv[p] + 1 ELSE sv[p]]
             /\ UNCHANGED offer
    BY <1>4, Zenon DEF PromoteAvailable
  <2> DEFINE seated == {p \in cands : f[p] # NoSlot}
  <2>2. seated \in SUBSET Players /\ \A p \in cands : p \in Players /\ st[p] = NoSlot
    BY DEF Candidates, SeatsTypeOK
  <2>3. /\ \A p \in Players : seat'[p] = IF p \in seated THEN f[p] ELSE st[p]
        /\ \A p \in Players : joined'[p] # 0 => p \in cands /\ f[p] = NoSlot
        /\ version' = n + Cardinality(seated)
        /\ served' \in [Players -> Nat]
        /\ \A p \in Players : served'[p] = IF p \in seated THEN sv[p] + 1 ELSE sv[p]
    BY <2>1 DEF Only
  <2>4. VersionCounts(version, served)'
    <3> HIDE DEF seated
    <3>1. /\ IsFiniteSet(CommandsOf(served'))
          /\ Cardinality(CommandsOf(served')) = Cardinality(CommandsOf(sv)) + Cardinality(seated)
      BY <2>2, <2>3, ServedMore DEF VersionCounts
    <3>2. Cardinality(seated) \in Nat /\ Cardinality(CommandsOf(sv)) \in Nat /\ edits \in Nat
      BY <2>2, CountType, FS_CardinalityType DEF VersionCounts, SeatsTypeOK
    <3>3. version' = 1 + edits + Cardinality(CommandsOf(served'))
      BY <2>3, <3>1, <3>2 DEF VersionCounts
    <3> QED BY <3>1, <3>3 DEF VersionCounts, CommandsOf
  <2>5. ASSUME NEW p \in Players, joined'[p] # 0, NEW s \in SeatSlots
        PROVE  s \in SlotsOf(seat') \cup SlotsOf(inv)
    <3>1. s # NoSlot
      BY SlotsAssumption DEF NoSlot
    <3>2. CASE s \in free
      <4>1. PICK r \in cands : f[r] = s
        BY <2>1, <2>3, <2>5, <3>2 DEF Fills
      <4>2. r \in Players /\ seat'[r] = s
        BY <2>2, <2>3, <3>1, <4>1
      <4> QED BY <3>1, <4>2 DEF SlotsOf
    <3>3. CASE s \in SlotsOf(st)
      <4>1. PICK r \in Players : st[r] = s
        BY <3>3 DEF SlotsOf
      <4>2. r \notin cands
        BY <2>2, <3>1, <4>1
      <4>3. seat'[r] = s
        BY <2>3, <4>1, <4>2
      <4> QED BY <3>1, <4>3 DEF SlotsOf
    <3> QED BY <3>2, <3>3
  <2>6. FreeSlotIsPassedOn'
    BY <2>5 DEF FreeSlotIsPassedOn, Queues, SlotsOf
  <2> QED BY <1>1, <2>4, <2>6 DEF RowInv
<1> QED BY <1>2, <1>3, <1>4

\* A step that gives no slot back, closes no offer and adds nobody to the queue.
LEMMA StillPassedOn ==
    ASSUME RowInv, started => started', offer # NoOffer => offer' # NoOffer,
           \A p \in Players : joined'[p] # 0 => joined[p] # 0,
           SlotsOf(seat) \cup SlotsOf(invited) \subseteq SlotsOf(seat') \cup SlotsOf(invited')
    PROVE  FreeSlotIsPassedOn'
<1>1. (\E p \in Players : joined'[p] # 0) => \E p \in Players : joined[p] # 0
  OBVIOUS
<1>2. SeatSlots \subseteq SlotsOf(seat) \cup SlotsOf(invited)
        => SeatSlots \subseteq SlotsOf(seat') \cup SlotsOf(invited')
  OBVIOUS
<1> QED BY <1>1, <1>2 DEF RowInv, FreeSlotIsPassedOn, Queues, SlotsOf

\* A step that leaves the seats and the commands alone.
LEMMA RestRow ==
    ASSUME RowInv, UNCHANGED <<status, version, seat, served, edits>>, FreeSlotIsPassedOn'
    PROVE  RowInv'
BY DEF RowInv, VersionCounts, CommandsOf, StatusTellsFullness, SeatedIn

\* A player who sits down is counted, as a command and as a seat.
LEMMA SitRow ==
    ASSUME SeatsInv, SeatsInv', RowInv, NEW p \in Players, NEW s \in SeatSlots, seat[p] = NoSlot,
           Sit(p, s, served[p] + 1), edits' = edits, FreeSlotIsPassedOn'
    PROVE  RowInv'
<1> USE DEF SeatsInv
<1>1. /\ \A q \in Players : seat'[q] = IF q = p THEN s ELSE seat[q]
      /\ \A q \in Players : served'[q] = IF q \in {p} THEN served[q] + 1 ELSE served[q]
      /\ version' = version + 1
      /\ status' = StatusFor(Cardinality(SeatedIn(seat)) + 1)
      /\ served \in [Players -> Nat] /\ served' \in [Players -> Nat]
      /\ seat' \in SeatClaim /\ Exclusive(seat', invited')
  BY DEF Sit, SeatsTypeOK, SeatClaim
<1>2. SeatedIn(seat') = SeatedIn(seat) \cup {p} /\ p \notin SeatedIn(seat)
  BY <1>1, SlotsAssumption DEF SeatedIn, NoSlot
<1>3. IsFiniteSet(SeatedIn(seat))
  BY PlayersAssumption, FS_Subset DEF SeatedIn
<1>4. Cardinality(SeatedIn(seat')) = Cardinality(SeatedIn(seat)) + 1
  BY <1>2, <1>3, FS_AddElement
<1>5. (status' = "open" => ~Full(seat')) /\ (status' = "upcoming" => Full(seat'))
  BY <1>1, <1>4, StatusFits
<1>6. StatusTellsFullness'
  BY <1>5 DEF StatusTellsFullness, Full, SeatedIn
<1>7. /\ IsFiniteSet(CommandsOf(served'))
      /\ Cardinality(CommandsOf(served')) = Cardinality(CommandsOf(served)) + Cardinality({p})
  <2>1. IsFiniteSet(CommandsOf(served)) /\ {p} \in SUBSET Players
    BY DEF RowInv, VersionCounts
  <2>2. /\ served \in [Players -> Nat] /\ served' \in [Players -> Nat]
        /\ \A q \in Players : served'[q] = IF q \in {p} THEN served[q] + 1 ELSE served[q]
    BY <1>1
  <2> QED BY ONLY <2>1, <2>2, ServedMore
<1>8. Cardinality({p}) = 1
  BY FS_Singleton
<1>9. Cardinality(CommandsOf(served)) \in Nat /\ edits \in Nat /\ version \in Nat
  BY FS_CardinalityType DEF RowInv, VersionCounts, SeatsTypeOK
<1>10. VersionCounts(version, served)'
  BY <1>1, <1>7, <1>8, <1>9 DEF RowInv, VersionCounts, CommandsOf
<1> QED BY <1>6, <1>10 DEF RowInv, VersionCounts, CommandsOf

LEMMA JoinRow ==
    ASSUME SeatsInv, SeatsInv', RowInv, NEW p \in Players, NEW k \in 1..MaxVersion, Join(p, k)
    PROVE  RowInv'
<1> USE DEF SeatsInv
<1> DEFINE s == Lowest(SeatSlots \ (SlotsOf(seat) \cup SlotsOf(invited) \cup OfferedSlots))
<1>1. s \in SeatSlots
  BY LowestIsIn, SlotsAssumption DEF Join
<1>2. /\ Sit(p, s, served[p] + 1) /\ seat[p] = NoSlot
      /\ joined' = Without(joined, p) /\ offer' = Unbind(offer, p)
      /\ UNCHANGED <<started, edits, invited, entries, eligible, offersOn>>
  BY DEF Join, Fresh, CanJoin
<1> HIDE DEF s
<1>3. \A q \in Players : seat'[q] = IF q = p THEN s ELSE seat[q]
  BY <1>1, <1>2 DEF Sit, SeatsTypeOK
<1>4. SlotsOf(seat) \subseteq SlotsOf(seat') /\ SlotsOf(invited) = SlotsOf(invited')
  BY <1>2, <1>3 DEF SlotsOf
<1>5. offer # NoOffer => offer' # NoOffer
  BY <1>2, UnbindFacts, PlayersAssumption DEF SeatsTypeOK, NoOffer
<1>6. \A q \in Players : joined'[q] # 0 => joined[q] # 0
  BY <1>2, WithoutFacts
<1>7. FreeSlotIsPassedOn'
  BY <1>2, <1>4, <1>5, <1>6, StillPassedOn
<1> QED BY <1>1, <1>2, <1>7, SitRow

LEMMA AcceptInvitationRow ==
    ASSUME SeatsInv, SeatsInv', RowInv, NEW p \in Players, NEW k \in 1..MaxVersion,
           AcceptInvitation(p, k)
    PROVE  RowInv'
<1> USE DEF SeatsInv
<1> DEFINE s == invited[p]
<1>1. /\ s \in SeatSlots /\ Sit(p, s, served[p] + 1) /\ seat[p] = NoSlot
      /\ joined' = Without(joined, p) /\ offer' = Unbind(offer, p)
      /\ invited' = [invited EXCEPT ![p] = NoSlot]
      /\ UNCHANGED <<started, edits, entries, eligible, offersOn>>
  BY DEF AcceptInvitation, Fresh, CanJoin, SeatsTypeOK
<1>2. /\ \A q \in Players : seat'[q] = IF q = p THEN s ELSE seat[q]
      /\ \A q \in Players : invited'[q] = IF q = p THEN NoSlot ELSE invited[q]
  BY <1>1 DEF Sit, SeatsTypeOK
<1>3. ASSUME NEW t \in SlotsOf(seat) \cup SlotsOf(invited)
      PROVE  t \in SlotsOf(seat') \cup SlotsOf(invited')
  <2>1. PICK q \in Players : t # NoSlot /\ (seat[q] = t \/ invited[q] = t)
    BY <1>3 DEF SlotsOf
  <2>2. seat'[q] = t \/ invited'[q] = t
    BY <1>1, <1>2, <2>1
  <2> QED BY <2>1, <2>2 DEF SlotsOf
<1>4. offer # NoOffer => offer' # NoOffer
  BY <1>1, UnbindFacts, PlayersAssumption DEF SeatsTypeOK, NoOffer
<1>5. \A q \in Players : joined'[q] # 0 => joined[q] # 0
  BY <1>1, WithoutFacts
<1>6. FreeSlotIsPassedOn'
  BY <1>1, <1>3, <1>4, <1>5, StillPassedOn
<1> HIDE DEF s
<1> QED BY <1>1, <1>6, SitRow

LEMMA LeaveRow ==
    ASSUME SeatsInv, SeatsInv', RowInv, NEW p \in Players, NEW k \in 1..MaxVersion, Leave(p, k)
    PROVE  RowInv'
<1> USE DEF SeatsInv
<1> DEFINE st == [seat EXCEPT ![p] = NoSlot]
           sv == [served EXCEPT ![p] = k]
<1>1. /\ PromoteAvailable(st, invited, version + 1, sv)
      /\ UNCHANGED <<started, edits, invited, entries, eligible, offersOn>>
      /\ k = served[p] + 1
  BY DEF Leave, Fresh
<1>2. /\ st \in SeatClaim /\ sv \in [Players -> Nat] /\ served \in [Players -> Nat]
      /\ version + 1 \in Nat /\ invited \in SeatClaim
      /\ \A q \in Players : sv[q] = IF q \in {p} THEN served[q] + 1 ELSE served[q]
  BY <1>1 DEF SeatsTypeOK, SeatClaim
<1> HIDE DEF st, sv
<1>3. /\ IsFiniteSet(CommandsOf(sv))
      /\ Cardinality(CommandsOf(sv)) = Cardinality(CommandsOf(served)) + Cardinality({p})
  BY <1>2, ServedMore DEF RowInv, VersionCounts
<1>4. Cardinality({p}) = 1
  BY FS_Singleton
<1>5. Cardinality(CommandsOf(served)) \in Nat /\ edits \in Nat /\ version \in Nat
  BY FS_CardinalityType DEF RowInv, VersionCounts, SeatsTypeOK
<1>6. VersionCounts(version + 1, sv)
  BY <1>3, <1>4, <1>5 DEF RowInv, VersionCounts
<1> QED BY <1>1, <1>2, <1>6, PromoteRow

LEMMA CloseInvitationRow ==
    ASSUME SeatsInv, SeatsInv', RowInv, NEW p \in Players, CloseInvitation(p)
    PROVE  RowInv'
<1> DEFINE inv == [invited EXCEPT ![p] = NoSlot]
<1>1. /\ PromoteAvailable(seat, inv, version, served) /\ invited' = inv
      /\ UNCHANGED <<started, edits, entries, eligible, offersOn>>
  BY DEF CloseInvitation
<1>2. /\ inv \in SeatClaim /\ seat \in SeatClaim /\ version \in Nat /\ served \in [Players -> Nat]
  BY DEF SeatsInv, SeatsTypeOK, SeatClaim
<1>3. VersionCounts(version, served)
  BY DEF RowInv
<1> HIDE DEF inv
<1> QED BY <1>1, <1>2, <1>3, PromoteRow

LEMMA InviteRow ==
    ASSUME SeatsInv, RowInv, NEW p \in Players, NEW s \in SeatSlots, Invite(p, s)
    PROVE  RowInv'
<1>1. /\ invited' = [invited EXCEPT ![p] = s] /\ invited[p] = NoSlot
      /\ UNCHANGED <<status, started, version, seat, served, edits, joined, entries,
                     offer, eligible, offersOn>>
  BY DEF Invite
<1>2. \A q \in Players : invited'[q] = IF q = p THEN s ELSE invited[q]
  BY <1>1 DEF SeatsInv, SeatsTypeOK
<1>3. SlotsOf(seat') = SlotsOf(seat) /\ SlotsOf(invited) \subseteq SlotsOf(invited')
  BY <1>1, <1>2 DEF SlotsOf
<1> QED BY <1>1, <1>3, StillPassedOn, RestRow

LEMMA JoinWaitlistRow ==
    ASSUME RowInv, NEW p \in Players, JoinWaitlist(p)
    PROVE  RowInv'
<1>1. /\ SeatSlots \subseteq SlotsOf(seat) \cup SlotsOf(invited)
      /\ UNCHANGED <<status, version, seat, served, edits, invited>>
  BY DEF JoinWaitlist
<1>2. FreeSlotIsPassedOn'
  BY <1>1 DEF FreeSlotIsPassedOn, SlotsOf
<1> QED BY <1>1, <1>2, RestRow

\* The next offer after an answer or a sweep, and after the seat it may fill.
LEMMA NextOfferRow ==
    ASSUME SeatsInv, NEW p \in Players, seat' \in SeatClaim, invited' = invited,
           NextOffer(Without(joined, p), seat', invited, NoOffer)
    PROVE  FreeSlotIsPassedOn'
<1>1. Without(joined, p) \in Order
  BY WithoutFacts DEF SeatsInv
<1>2. invited \in SeatClaim
  BY DEF SeatsInv, SeatsTypeOK, SeatClaim
<1>3. \A r \in Players : joined'[r] # 0 /\ ~(SeatSlots \subseteq SlotsOf(seat') \cup SlotsOf(invited))
         => offer' # NoOffer
  BY <1>1, <1>2, OfferPassesOn
<1> QED BY <1>3 DEF FreeSlotIsPassedOn, Queues, SlotsOf

LEMMA AcceptOfferRow ==
    ASSUME SeatsInv, SeatsInv', RowInv, NEW p \in Players, AcceptOffer(p)
    PROVE  RowInv'
<1> USE DEF SeatsInv
<1>1. /\ offer # NoOffer /\ seat[p] = NoSlot
      /\ Sit(p, offer.slot, served[p] + 1)
      /\ NextOffer(Without(joined, p), seat', invited, NoOffer)
      /\ UNCHANGED <<edits, invited>>
  BY DEF AcceptOffer, Answerable, Live, CanJoin, Sit
<1>2. offer.slot \in SeatSlots /\ seat' \in SeatClaim
  BY <1>1 DEF SeatsTypeOK, SeatClaim
<1>3. FreeSlotIsPassedOn'
  BY <1>1, <1>2, NextOfferRow
<1> QED BY <1>1, <1>2, <1>3, SitRow

LEMMA SweepOfferRow ==
    ASSUME SeatsInv, RowInv, SweepOffer
    PROVE  RowInv'
<1>1. /\ offer.account \in Players /\ seat' \in SeatClaim
      /\ UNCHANGED <<status, started, version, seat, served, edits, invited>>
  BY DEF SweepOffer, SeatsInv, SeatsTypeOK, SeatClaim
<1>2. CASE started
  BY <1>1, <1>2, RestRow DEF FreeSlotIsPassedOn
<1>3. CASE ~started
  <2>1. NextOffer(Without(joined, offer.account), seat', invited, NoOffer)
    BY <1>1, <1>3 DEF SweepOffer
  <2> QED BY <1>1, <2>1, NextOfferRow, RestRow
<1> QED BY <1>2, <1>3

LEMMA DeclineOfferRow ==
    ASSUME SeatsInv, RowInv, NEW p \in Players, DeclineOffer(p)
    PROVE  RowInv'
<1>1. /\ NextOffer(Without(joined, p), seat', invited, NoOffer) /\ seat' \in SeatClaim
      /\ UNCHANGED <<status, version, seat, served, edits, invited>>
  BY DEF DeclineOffer, SeatsInv, SeatsTypeOK, SeatClaim
<1> QED BY <1>1, NextOfferRow, RestRow

\* The steps that give nothing back and count nothing.
LEMMA QuietRow ==
    ASSUME SeatsInv, RowInv,
           \/ \E p \in Players : LeaveWaitlist(p)
           \/ OfferLapses \/ MatchStarts \/ UNCHANGED seatsVars
           \/ \E p \in Changing : RatingChanges(p)
    PROVE  RowInv'
<1>1. /\ UNCHANGED <<status, version, seat, served, edits, invited>>
      /\ started => started'
  BY DEF LeaveWaitlist, OfferLapses, MatchStarts, RatingChanges, seatsVars
<1>2. offer # NoOffer => offer' # NoOffer
  BY PlayersAssumption
     DEF LeaveWaitlist, OfferLapses, MatchStarts, RatingChanges, seatsVars, SeatsInv, SeatsTypeOK, NoOffer
<1>3. \A p \in Players : joined'[p] # 0 => joined[p] # 0
  BY WithoutFacts DEF LeaveWaitlist, OfferLapses, MatchStarts, RatingChanges, seatsVars, SeatsInv
<1>4. SlotsOf(seat') = SlotsOf(seat) /\ SlotsOf(invited') = SlotsOf(invited)
  BY <1>1 DEF SlotsOf
<1> QED BY <1>1, <1>2, <1>3, <1>4, StillPassedOn, RestRow

LEMMA DescribeRow ==
    ASSUME SeatsInv, RowInv, NEW k \in 1..MaxVersion, Describe(k)
    PROVE  RowInv'
<1>1. /\ edits' = edits + 1 /\ version' = version + 1
      /\ UNCHANGED <<status, started, seat, served, invited, joined, offer>>
  BY DEF Describe
<1>2. Cardinality(CommandsOf(served)) \in Nat /\ edits \in Nat
  BY FS_CardinalityType DEF RowInv, VersionCounts, SeatsInv, SeatsTypeOK
<1>3. VersionCounts(version, served)'
  BY <1>1, <1>2 DEF RowInv, VersionCounts, CommandsOf
<1> QED BY <1>1, <1>3 DEF RowInv, StatusTellsFullness, SeatedIn, FreeSlotIsPassedOn, SlotsOf, Queues

LEMMA RowInit == SeatsInit => RowInv
<1> SUFFICES ASSUME SeatsInit PROVE RowInv
  OBVIOUS
<1>1. CommandsOf(served) = {}
  <2> SUFFICES ASSUME NEW c \in CommandsOf(served) PROVE FALSE
    OBVIOUS
  <2>1. PICK p \in Players : \E i \in 1..served[p] : c = <<p, i>>
    BY CommandFacts
  <2> QED BY <2>1 DEF SeatsInit
<1>2. VersionCounts(version, served)
  BY <1>1, FS_EmptySet DEF SeatsInit, VersionCounts
<1>3. StatusTellsFullness /\ FreeSlotIsPassedOn
  BY DEF SeatsInit, StatusTellsFullness, FreeSlotIsPassedOn, Queues
<1> QED BY <1>2, <1>3 DEF RowInv

LEMMA RowStep == SeatsInv /\ SeatsInv' /\ RowInv /\ [SeatsNext]_seatsVars => RowInv'
<1> SUFFICES ASSUME SeatsInv, SeatsInv', RowInv, [SeatsNext]_seatsVars PROVE RowInv'
  OBVIOUS
<1>1. ASSUME NEW p \in Players, PlayerStep(p) PROVE RowInv'
  BY <1>1, JoinRow, LeaveRow, AcceptInvitationRow, InviteRow, CloseInvitationRow, JoinWaitlistRow,
     QuietRow, AcceptOfferRow, DeclineOfferRow DEF PlayerStep
<1> QED BY <1>1, DescribeRow, SweepOfferRow, QuietRow DEF SeatsNext

-----------------------------------------------------------------------------
(* The theorems.                                                           *)

LEMMA SeatsInvariant == SeatsSpec => []SeatsInv
<1>1. SeatsInv /\ [SeatsNext]_seatsVars => SeatsInv'
  BY SeatsStep DEF SoundStep
<1> QED BY <1>1, SeatsInitInv, PTL DEF SeatsSpec

\* Every variable keeps its type, whatever players, owner and sweep do.
THEOREM SeatsAreTyped == SeatsSpec => []SeatsTypeOK
<1>1. SeatsInv => SeatsTypeOK
  BY DEF SeatsInv
<1> QED BY <1>1, SeatsInvariant, PTL

\* No slot is given to two players and no player has two places, for any number
\* of players and slots, with direct joins, invitations, promotions and offers
\* in any order.
THEOREM PlacesStayExclusive == SeatsSpec => []PlacesAreExclusive
<1>1. ASSUME SeatsInv PROVE SlotHasOneClaim
  BY <1>1, Zenon DEF SeatsInv, Exclusive, OfferIsClear, SlotHasOneClaim, Live
<1>2. ASSUME SeatsInv PROVE OnePlaceEach
  BY <1>2 DEF SeatsInv, Placed, OnePlaceEach, Queues
<1>3. SeatsInv => PlacesAreExclusive
  BY <1>1, <1>2 DEF PlacesAreExclusive
<1> QED BY <1>3, SeatsInvariant, PTL

\* Who waits longest is offered the place, and a slot kept for a player by an
\* invitation or a live offer is taken by nobody else.
THEOREM QueueStaysFair == SeatsSpec => QueueIsFair
<1>1. SeatsInv /\ [SeatsNext]_seatsVars => OfferGoesToFirst /\ KeptSlotIsNotTaken
  BY SeatsStep DEF SoundStep
<1> QED BY <1>1, SeatsInvariant, PTL DEF SeatsSpec, QueueIsFair

\* No slot stays free while somebody waits for it: whoever frees one, by leaving,
\* by closing an invitation, by answering an offer or by the sweep, passes it on.
THEOREM FreeSlotsArePassedOn == SeatsSpec => []FreeSlotIsPassedOn
<1>1. RowInv => FreeSlotIsPassedOn
  BY DEF RowInv
<1> QED BY <1>1, SeatsInvariant, RowInit, RowStep, PTL DEF SeatsSpec

\* The version of the match counts the commands served, and its status says
\* whether a seat is free, for any number of players and slots.
THEOREM MatchRowIsAlwaysTrue == SeatsSpec => []MatchRowIsTrue
<1>1. RowInv => MatchRowIsTrue
  BY DEF RowInv, VersionCounts, MatchRowIsTrue, VersionCountsCommands
<1> QED BY <1>1, SeatsInvariant, RowInit, RowStep, PTL DEF SeatsSpec

-----------------------------------------------------------------------------
(* MatchLineup.                                                            *)

LineupHolder == [pc : {"choose", "place"}, type : {"assign", "release", "read"}, player : Members,
                 place : Places \cup {NoPlace}, late : BOOLEAN, inserted : BOOLEAN,
                 sees : SUBSET Members]

LineupRequest ==
  [pc : Outcomes \ {"invalid_state"}]
    \cup [pc : {"join", "leave", "assign", "release", "read", "result", "left", "submit"},
          player : Members, place : Places \cup {NoPlace}, late : BOOLEAN]
    \cup LineupHolder

LineupTyped ==
  /\ players \subseteq Members /\ IsFiniteSet(players)
  /\ lineup \in {"none", "draft", "locked"} /\ named \subseteq Members
  /\ place \in [Members -> Places \cup {NoPlace}]
  /\ request \in [Requests -> LineupRequest]

\* The request that holds the line-up has made it, or found it; what it checked
\* or read of the players still holds.
Lawful(q) ==
  q.pc \in {"choose", "place"} =>
    /\ lineup # "none"
    /\ q.inserted => lineup = "draft" /\ Assigned = {}
    /\ q.pc = "place" /\ q.type # "read" => lineup = "draft" /\ q.player \in players
    /\ q.pc = "place" => Assigned \subseteq q.sees

OneHolder ==
  \A r, s \in Requests : HoldsTheLineup(r) /\ HoldsTheLineup(s) => r = s

LineupInv ==
  /\ LineupTyped
  /\ lineup = "none" => Assigned = {}
  /\ OneHolder
  /\ \A r \in Requests : Lawful(request[r])
  /\ AssignedArePlayers /\ ResultNamesThePlayers

LEMMA LineupInitially == LineupInit => LineupInv
<1> SUFFICES ASSUME LineupInit PROVE LineupInv
  OBVIOUS
<1>1. Assigned = {}
  BY DEF LineupInit, Assigned
<1>2. IsFiniteSet(players) /\ players \subseteq Members
  BY FS_Singleton, LineupAssumption DEF LineupInit
<1>3. [pc |-> "done"] \in LineupRequest
  BY DEF LineupRequest, Outcomes
<1> QED BY <1>1, <1>2, <1>3
    DEF LineupInit, LineupInv, LineupTyped, OneHolder, HoldsTheLineup, Lawful, AssignedArePlayers,
        ResultNamesThePlayers

LEMMA LineupInvIsEnough == LineupInv => LineupIsTrue
<1> SUFFICES ASSUME LineupInv PROVE LineupIsTrue
  OBVIOUS
<1>1. ASSUME NEW r \in Requests PROVE request[r].pc # "invalid_state"
  <2>1. request[r] \in LineupRequest
    BY DEF LineupInv, LineupTyped
  <2> QED BY <2>1 DEF LineupRequest, LineupHolder, Outcomes
<1> QED BY <1>1 DEF LineupInv, LineupIsTrue, LineupReads

-----------------------------------------------------------------------------
\* A request r that does not hold the line-up afterwards, and rows that change
\* so that what the holder relies on stays.
LEMMA Passes ==
  ASSUME LineupInv, NEW r \in Requests, NEW q \in LineupRequest, RequestAt(r, q),
         q.pc \notin {"choose", "place"},
         players' \subseteq Members, IsFiniteSet(players'), named' \subseteq Members,
         lineup' \in {"none", "draft", "locked"}, place' \in [Members -> Places \cup {NoPlace}],
         lineup' = "none" => Assigned' = {}, AssignedArePlayers', ResultNamesThePlayers',
         \A s \in Requests \ {r} : Lawful(request[s]) => Lawful(request[s])'
  PROVE  LineupInv'
<1>1. \A s \in Requests : request'[s] = IF s = r THEN q ELSE request[s]
  BY DEF RequestAt, LineupInv, LineupTyped
<1>2. LineupTyped'
  BY DEF RequestAt, LineupInv, LineupTyped
<1>3. OneHolder'
  BY <1>1 DEF LineupInv, OneHolder, HoldsTheLineup
<1>4. ASSUME NEW s \in Requests PROVE Lawful(request[s])'
  <2>1. CASE s = r
    BY <1>1, <2>1 DEF Lawful
  <2>2. CASE s # r
    BY <2>2 DEF LineupInv
  <2> QED BY <2>1, <2>2
<1> QED BY <1>2, <1>3, <1>4 DEF LineupInv

\* The rows stay as they are.
LEMMA OnlyMoves ==
  ASSUME LineupInv, NEW r \in Requests, NEW q \in LineupRequest, RequestAt(r, q),
         q.pc \notin {"choose", "place"},
         UNCHANGED <<players, lineup, place, named>>
  PROVE  LineupInv'
<1>1. Assigned' = Assigned
  BY DEF Assigned
<1>2. ASSUME NEW s \in Requests \ {r}, Lawful(request[s]) PROVE Lawful(request[s])'
  <2>1. request'[s] = request[s]
    BY DEF RequestAt, LineupInv, LineupTyped
  <2> QED BY <1>1, <1>2, <2>1 DEF Lawful
<1> QED BY <1>1, <1>2, Passes
    DEF LineupInv, LineupTyped, AssignedArePlayers, ResultNamesThePlayers

\* Nobody else holds the line-up.
LEMMA NoHolder ==
  ASSUME LineupInv, NEW r \in Requests, NEW q, RequestAt(r, q),
         \/ LineupRowFree
         \/ HoldsTheLineup(r)
         \/ lineup = "none"
  PROVE  \A s \in Requests \ {r} : request'[s] = request[s] /\ request[s].pc \notin {"choose", "place"}
BY DEF LineupInv, LineupTyped, RequestAt, LineupRowFree, HoldsTheLineup, OneHolder, Lawful

LEMMA EndsIn ==
  ASSUME NEW outcome \in Outcomes \ {"invalid_state"}
  PROVE  [pc |-> outcome] \in LineupRequest /\ [pc |-> outcome].pc \notin {"choose", "place"}
BY DEF LineupRequest, Outcomes

-----------------------------------------------------------------------------
(* The steps.                                                              *)

LEMMA SendLineupInv ==
  ASSUME LineupInv, NEW r \in Requests, NEW p \in Members, NEW at \in Places \cup {NoPlace},
         NEW type \in {"join", "leave", "assign", "release", "read", "result"},
         SendRequest(r, type, p, at), finished \in BOOLEAN
  PROVE  LineupInv'
<1>1. PICK q : q = [pc |-> type, player |-> p, place |-> at, late |-> finished]
  OBVIOUS
<1>2. q \in LineupRequest /\ q.pc \notin {"choose", "place"}
  BY <1>1 DEF LineupRequest
<1> QED BY <1>1, <1>2, OnlyMoves DEF SendRequest

LEMMA JoinMatchInv ==
  ASSUME LineupInv, NEW r \in Requests, JoinMatch(r)
  PROVE  LineupInv'
<1> DEFINE p == request[r].player
<1>1. request[r] \in LineupRequest /\ request[r].pc = "join" /\ p \in Members
  BY DEF JoinMatch, LineupInv, LineupTyped, LineupRequest, LineupHolder, Outcomes
<1>2. CASE UNCHANGED players /\ RequestEnds(r, "rejected")
  BY <1>2, OnlyMoves, EndsIn DEF JoinMatch, RequestEnds, Outcomes
<1>3. ASSUME p \notin players, Cardinality(players) < Cardinality(Places),
             players' = players \cup {p}, RequestEnds(r, "done")
      PROVE  LineupInv'
  <2>1. UNCHANGED <<lineup, place, named>>
    BY DEF JoinMatch
  <2>2. IsFiniteSet(players') /\ players' \subseteq Members
    BY <1>1, <1>3, FS_AddElement DEF LineupInv, LineupTyped
  <2>3. named = {}
    <3>1. Cardinality(players) \in Nat /\ Cardinality(Places) \in Nat
      BY FS_CardinalityType, LineupAssumption DEF LineupInv, LineupTyped
    <3> QED BY <1>3, <3>1 DEF LineupInv, ResultNamesThePlayers
  <2>4. Assigned' = Assigned
    BY <2>1 DEF Assigned
  <2>5. ASSUME NEW s \in Requests \ {r}, Lawful(request[s]) PROVE Lawful(request[s])'
    <3>1. request'[s] = request[s]
      BY <1>3 DEF RequestEnds, RequestAt, LineupInv, LineupTyped
    <3> QED BY <1>3, <2>1, <2>4, <2>5, <3>1 DEF Lawful
  <2>6. [pc |-> "done"] \in LineupRequest /\ [pc |-> "done"].pc \notin {"choose", "place"}
    BY EndsIn DEF Outcomes
  <2>7. AssignedArePlayers' /\ ResultNamesThePlayers'
    BY <1>3, <2>1, <2>3, <2>4 DEF LineupInv, AssignedArePlayers, ResultNamesThePlayers
  <2> QED BY <1>3, <2>1, <2>2, <2>4, <2>5, <2>6, <2>7, Passes
      DEF LineupInv, LineupTyped, RequestEnds
<1> QED BY <1>2, <1>3 DEF JoinMatch

LEMMA EnterInv ==
  ASSUME LineupInv, NEW r \in Requests, EnterLineup(r)
  PROVE  LineupInv'
<1>1. PICK q : q = [pc |-> "choose", type |-> request[r].pc, player |-> request[r].player,
                    place |-> request[r].place, late |-> request[r].late,
                    inserted |-> lineup = "none", sees |-> {}]
  OBVIOUS
<1>2. request[r] \in LineupRequest /\ request[r].pc \in {"assign", "release", "read"}
  BY DEF EnterLineup, LineupInv, LineupTyped
<1>3. q \in LineupRequest
  <2>1. /\ request[r].player \in Members /\ request[r].place \in Places \cup {NoPlace}
        /\ request[r].late \in BOOLEAN
    BY <1>2 DEF LineupRequest, LineupHolder, Outcomes
  <2>2. q \in LineupHolder
    BY <1>1, <1>2, <2>1 DEF LineupHolder
  <2> QED BY <2>2 DEF LineupRequest
<1>4. RequestAt(r, q) /\ LineupRowFree /\ UNCHANGED <<players, place, named>>
      /\ lineup' = IF lineup = "none" THEN "draft" ELSE lineup
  BY <1>1 DEF EnterLineup
<1>5. q.pc = "choose" /\ (q.inserted <=> lineup = "none")
  BY <1>1
<1>6. \A s \in Requests : request'[s] = IF s = r THEN q ELSE request[s]
  BY <1>4 DEF RequestAt, LineupInv, LineupTyped
<1>7. \A s \in Requests \ {r} : request'[s] = request[s] /\ request[s].pc \notin {"choose", "place"}
  BY <1>4, NoHolder
<1>8. LineupTyped'
  BY <1>3, <1>4 DEF LineupInv, LineupTyped, RequestAt
<1>9. OneHolder'
  BY <1>7 DEF OneHolder, HoldsTheLineup
<1>10. Assigned' = Assigned
  BY <1>4 DEF Assigned
<1>11. ASSUME NEW s \in Requests PROVE Lawful(request[s])'
  <2>1. CASE s = r
    BY <1>4, <1>5, <1>6, <1>10, <2>1 DEF Lawful, LineupInv, LineupTyped
  <2>2. CASE s # r
    BY <1>7, <2>2 DEF Lawful
  <2> QED BY <2>1, <2>2
<1>12. lineup' # "none" /\ (lineup = "locked" => lineup' = "locked")
  BY <1>4
<1>13. AssignedArePlayers' /\ ResultNamesThePlayers'
  BY <1>4, <1>10, <1>12 DEF LineupInv, AssignedArePlayers, ResultNamesThePlayers
<1> QED BY <1>8, <1>9, <1>11, <1>12, <1>13 DEF LineupInv

LEMMA EligibleInv ==
  ASSUME LineupInv, NEW r \in Requests, ReadEligible(r)
  PROVE  LineupInv'
<1>1. /\ request[r] \in LineupHolder /\ request[r].pc = "choose" /\ HoldsTheLineup(r)
      /\ UNCHANGED <<players, lineup, place, named>> /\ Lawful(request[r])
  BY DEF ReadEligible, LineupInv, LineupTyped, LineupRequest, LineupHolder, Outcomes, HoldsTheLineup
<1>2. CASE RequestEnds(r, "rejected")
  BY <1>1, <1>2, OnlyMoves, EndsIn DEF RequestEnds, Outcomes
<1>3. ASSUME \/ request[r].type = "read"
             \/ lineup # "locked" /\ request[r].player \in players,
             RequestAt(r, [request[r] EXCEPT !.pc = "place", !.sees = players])
      PROVE  LineupInv'
  <2>1. PICK q : q = [request[r] EXCEPT !.pc = "place", !.sees = players]
    OBVIOUS
  <2>2. /\ q \in LineupRequest /\ q.pc = "place" /\ q.sees = players /\ q.type = request[r].type
        /\ q.player = request[r].player /\ q.inserted = request[r].inserted
    BY <1>1, <2>1 DEF LineupRequest, LineupHolder, LineupInv, LineupTyped
  <2>3. \A s \in Requests : request'[s] = IF s = r THEN q ELSE request[s]
    BY <1>3, <2>1 DEF RequestAt, LineupInv, LineupTyped
  <2>4. \A s \in Requests \ {r} : request'[s] = request[s] /\ request[s].pc \notin {"choose", "place"}
    BY <1>1, <1>3, NoHolder
  <2>5. LineupTyped'
    BY <1>1, <1>3, <2>1, <2>2 DEF LineupInv, LineupTyped, RequestAt
  <2>6. OneHolder'
    BY <2>4 DEF OneHolder, HoldsTheLineup
  <2>7. Assigned' = Assigned /\ lineup \in {"draft", "locked"}
    BY <1>1 DEF Assigned, Lawful, LineupInv, LineupTyped
  <2>8. ASSUME NEW s \in Requests PROVE Lawful(request[s])'
    <3>1. CASE s = r
      <4>1. Lawful(q)'
        BY <1>1, <1>3, <2>2, <2>7 DEF Lawful, LineupInv, AssignedArePlayers
      <4> QED BY <2>3, <3>1, <4>1 DEF Lawful
    <3>2. CASE s # r
      BY <2>4, <3>2 DEF Lawful
    <3> QED BY <3>1, <3>2
  <2>9. AssignedArePlayers' /\ ResultNamesThePlayers' /\ lineup' # "none"
    BY <1>1, <2>7 DEF LineupInv, AssignedArePlayers, ResultNamesThePlayers
  <2> QED BY <2>5, <2>6, <2>8, <2>9 DEF LineupInv
<1> QED BY <1>2, <1>3 DEF ReadEligible, Eligible

\* A place is taken by a player, or given back, while the line-up is a draft.
LEMMA PlaceInv ==
  ASSUME LineupInv, NEW r \in Requests, ChoosePlace(r)
  PROVE  LineupInv'
<1> DEFINE p == request[r].player
<1>1. /\ request[r] \in LineupHolder /\ request[r].pc = "place" /\ HoldsTheLineup(r)
      /\ UNCHANGED <<players, lineup, named>> /\ Lawful(request[r]) /\ p \in Members
  BY DEF ChoosePlace, LineupInv, LineupTyped, LineupRequest, LineupHolder, Outcomes, HoldsTheLineup
<1>2. ASSUME NEW outcome \in {"done", "rejected", "found"}, UNCHANGED place, RequestEnds(r, outcome)
      PROVE  LineupInv'
  BY <1>1, <1>2, OnlyMoves, EndsIn DEF RequestEnds, Outcomes
<1>3. ASSUME request[r].type # "read", NEW at \in Places \cup {NoPlace},
             place' = [place EXCEPT ![p] = at], RequestEnds(r, "done")
      PROVE  LineupInv'
  <2>1. lineup = "draft" /\ p \in players
    BY <1>1, <1>3 DEF Lawful
  <2>2. /\ place' \in [Members -> Places \cup {NoPlace}]
        /\ \A m \in Members : place'[m] = IF m = p THEN at ELSE place[m]
    BY <1>1, <1>3 DEF LineupInv, LineupTyped
  <2>3. Assigned' \subseteq Assigned \cup {p}
    BY <2>2 DEF Assigned
  <2>4. AssignedArePlayers' /\ ResultNamesThePlayers'
    BY <1>1, <2>1, <2>3 DEF LineupInv, AssignedArePlayers, ResultNamesThePlayers
  <2>5. \A s \in Requests \ {r} : request'[s] = request[s] /\ request[s].pc \notin {"choose", "place"}
    BY <1>1, <1>3, NoHolder DEF RequestEnds
  <2>6. \A s \in Requests \ {r} : Lawful(request[s])'
    BY <2>5 DEF Lawful
  <2>7. [pc |-> "done"] \in LineupRequest /\ [pc |-> "done"].pc \notin {"choose", "place"}
    BY EndsIn DEF Outcomes
  <2> QED BY <1>1, <1>3, <2>1, <2>2, <2>4, <2>6, <2>7, Passes DEF LineupInv, LineupTyped, RequestEnds
<1>4. /\ request[r].place \in Places \cup {NoPlace} /\ NoPlace \in Places \cup {NoPlace}
      /\ Assigned \subseteq request[r].sees
  BY <1>1 DEF LineupHolder, Lawful
<1> QED BY <1>2, <1>3, <1>4 DEF ChoosePlace

LEMMA LeavesInv ==
  ASSUME LineupInv, NEW r \in Requests, LeaveMatch(r)
  PROVE  LineupInv'
<1>1. UNCHANGED <<players, lineup, place, named>> /\ request[r].pc = "leave"
  BY DEF LeaveMatch
<1>2. CASE RequestEnds(r, "rejected")
  BY <1>1, <1>2, OnlyMoves, EndsIn DEF RequestEnds, Outcomes
<1>3. CASE RequestAt(r, [request[r] EXCEPT !.pc = "left"])
  <2>1. PICK q : q = [request[r] EXCEPT !.pc = "left"]
    OBVIOUS
  <2>2. q \in LineupRequest /\ q.pc = "left"
    <3>1. request[r] \in LineupRequest
      BY DEF LineupInv, LineupTyped
    <3> QED BY <1>1, <2>1, <3>1 DEF LineupRequest, LineupHolder, Outcomes
  <2> QED BY <1>1, <1>3, <2>1, <2>2, OnlyMoves
<1> QED BY <1>2, <1>3 DEF LeaveMatch

\* Who leaves a match whose result names him is refused; anybody else frees his
\* place with his seat.
LEMMA ReleaseInv ==
  ASSUME LineupInv, NEW r \in Requests, ReleaseForLeave(r)
  PROVE  LineupInv'
<1> DEFINE p == request[r].player
<1>1. UNCHANGED <<lineup, named>> /\ (lineup # "none" => LineupRowFree)
  BY DEF ReleaseForLeave
<1>2. CASE RequestEnds(r, "failed") /\ UNCHANGED <<players, place>>
  BY <1>1, <1>2, OnlyMoves, EndsIn DEF RequestEnds, Outcomes
<1>3. ASSUME ~Refused(p), players' = players \ {p}, place' = ReleasedPlace(p), RequestEnds(r, "done")
      PROVE  LineupInv'
  <2>1. IsFiniteSet(players') /\ players' \subseteq Members
    BY <1>3, FS_Subset DEF LineupInv, LineupTyped
  <2>2. /\ place' \in [Members -> Places \cup {NoPlace}]
        /\ \A m \in Members : place'[m] = IF m = p THEN NoPlace ELSE place[m]
    BY <1>3 DEF ReleasedPlace, LineupInv, LineupTyped
  <2>3. Assigned' = Assigned \ {p}
    BY <2>2 DEF Assigned
  <2>4. \A s \in Requests \ {r} : request'[s] = request[s] /\ request[s].pc \notin {"choose", "place"}
    BY <1>1, <1>3, NoHolder DEF RequestEnds
  <2>5. \A s \in Requests \ {r} : Lawful(request[s])'
    BY <2>4 DEF Lawful
  <2>6. AssignedArePlayers'
    BY <1>3, <2>3 DEF LineupInv, AssignedArePlayers
  <2>7. ResultNamesThePlayers'
    <3>1. CASE named = {}
      BY <1>1, <3>1 DEF ResultNamesThePlayers
    <3>2. CASE named # {}
      <4>1. named = Assigned /\ named = players /\ lineup = "locked"
        BY <3>2 DEF LineupInv, ResultNamesThePlayers
      <4>2. p \notin Assigned
        BY <1>3, <4>1 DEF Refused, Assigned
      <4>3. Assigned' = Assigned /\ players' = players
        BY <1>3, <2>3, <4>1, <4>2
      <4> QED BY <1>1, <4>3 DEF LineupInv, ResultNamesThePlayers
    <3> QED BY <3>1, <3>2
  <2>8. [pc |-> "done"] \in LineupRequest /\ [pc |-> "done"].pc \notin {"choose", "place"}
    BY EndsIn DEF Outcomes
  <2>9. lineup' = "none" => Assigned' = {}
    BY <1>1, <2>3 DEF LineupInv
  <2> QED BY <1>1, <1>3, <2>1, <2>2, <2>5, <2>6, <2>7, <2>8, <2>9, Passes
      DEF LineupInv, LineupTyped, RequestEnds
<1> QED BY <1>2, <1>3 DEF ReleaseForLeave

LEMMA SubmitInv ==
  ASSUME LineupInv, NEW r \in Requests, SubmitResult(r)
  PROVE  LineupInv'
<1>1. UNCHANGED <<players, lineup, place, named>> /\ request[r].pc = "result"
  BY DEF SubmitResult
<1>2. CASE RequestEnds(r, "rejected")
  BY <1>1, <1>2, OnlyMoves, EndsIn DEF RequestEnds, Outcomes
<1>3. CASE RequestAt(r, [request[r] EXCEPT !.pc = "submit"])
  <2>1. PICK q : q = [request[r] EXCEPT !.pc = "submit"]
    OBVIOUS
  <2>2. q \in LineupRequest /\ q.pc = "submit"
    <3>1. request[r] \in LineupRequest
      BY DEF LineupInv, LineupTyped
    <3> QED BY <1>1, <2>1, <3>1 DEF LineupRequest, LineupHolder, Outcomes
  <2> QED BY <1>1, <1>3, <2>1, <2>2, OnlyMoves
<1> QED BY <1>2, <1>3 DEF SubmitResult

\* A complete line-up has as many places as the match has players, all of them
\* players: it is the players.
LEMMA CompareInv ==
  ASSUME LineupInv, NEW r \in Requests, CompareLineup(r)
  PROVE  LineupInv'
<1>1. UNCHANGED <<players, place>> /\ LineupRowFree
  BY DEF CompareLineup
<1>2. CASE UNCHANGED <<lineup, named>> /\ RequestEnds(r, "rejected")
  BY <1>1, <1>2, OnlyMoves, EndsIn DEF RequestEnds, Outcomes
<1>3. ASSUME Complete, LockedLineup, named' = Assigned, RequestEnds(r, "done") PROVE LineupInv'
  <2>1. Assigned = players /\ Assigned' = Assigned
    BY <1>1, <1>3, FS_Subset DEF Complete, LineupInv, LineupTyped, Assigned
  <2>2. AssignedArePlayers' /\ ResultNamesThePlayers' /\ lineup' = "locked"
    BY <1>1, <1>3, <2>1 DEF AssignedArePlayers, ResultNamesThePlayers, LockedLineup, Complete
  <2>3. \A s \in Requests \ {r} : request'[s] = request[s] /\ request[s].pc \notin {"choose", "place"}
    BY <1>1, <1>3, NoHolder DEF RequestEnds
  <2>4. \A s \in Requests \ {r} : Lawful(request[s])'
    BY <2>3 DEF Lawful
  <2>5. [pc |-> "done"] \in LineupRequest /\ [pc |-> "done"].pc \notin {"choose", "place"}
    BY EndsIn DEF Outcomes
  <2>6. named' \subseteq Members
    BY <1>3 DEF Assigned
  <2> QED BY <1>1, <1>3, <2>2, <2>4, <2>5, <2>6, Passes DEF LineupInv, LineupTyped, RequestEnds
<1> QED BY <1>2, <1>3 DEF CompareLineup

LEMMA FailInv ==
  ASSUME LineupInv, NEW r \in Requests, FailRequest(r)
  PROVE  LineupInv'
<1>1. UNCHANGED <<players, place, named>> /\ RequestAt(r, [pc |-> "failed"])
  BY DEF FailRequest, RequestEnds
<1>2. [pc |-> "failed"] \in LineupRequest /\ [pc |-> "failed"].pc \notin {"choose", "place"}
  BY EndsIn DEF Outcomes
<1>3. CASE lineup' = lineup
  BY <1>1, <1>2, <1>3, OnlyMoves
<1>4. ASSUME request[r].pc \in {"choose", "place"}, request[r].inserted, lineup' = "none"
      PROVE  LineupInv'
  <2>1. lineup = "draft" /\ Assigned = {} /\ HoldsTheLineup(r)
    BY <1>4 DEF LineupInv, Lawful, HoldsTheLineup
  <2>2. \A s \in Requests \ {r} : request'[s] = request[s] /\ request[s].pc \notin {"choose", "place"}
    BY <1>1, <2>1, NoHolder
  <2>3. \A s \in Requests \ {r} : Lawful(request[s])'
    BY <2>2 DEF Lawful
  <2>4. Assigned' = Assigned
    BY <1>1 DEF Assigned
  <2>5. AssignedArePlayers' /\ ResultNamesThePlayers'
    BY <1>1, <2>1, <2>4 DEF LineupInv, AssignedArePlayers, ResultNamesThePlayers
  <2> QED BY <1>1, <1>2, <1>4, <2>1, <2>3, <2>4, <2>5, Passes DEF LineupInv, LineupTyped
<1> QED BY <1>3, <1>4 DEF FailRequest

LineupAll == LineupInv /\ finished \in BOOLEAN

LEMMA LineupStep ==
  LineupInv /\ finished \in BOOLEAN /\ [LineupNext]_lineupVars
    => LineupInv' /\ finished' \in BOOLEAN
<1> SUFFICES ASSUME LineupInv, finished \in BOOLEAN, [LineupNext]_lineupVars
             PROVE  LineupInv' /\ finished' \in BOOLEAN
  OBVIOUS
<1>1. ASSUME NEW r \in Requests, NEW p \in Members, NEW type \in {"join", "leave", "release", "read", "result"},
             SendRequest(r, type, p, NoPlace)
      PROVE  LineupInv'
  BY <1>1, SendLineupInv
<1>2. ASSUME NEW r \in Requests, NEW p \in Members, NEW at \in Places, SendRequest(r, "assign", p, at)
      PROVE  LineupInv'
  BY <1>2, SendLineupInv
<1>3. ASSUME UNCHANGED <<players, lineup, place, named, request>> PROVE LineupInv'
  BY <1>3 DEF LineupInv, LineupTyped, Assigned, OneHolder, HoldsTheLineup, Lawful,
              AssignedArePlayers, ResultNamesThePlayers
<1>4. LineupInv'
  BY <1>1, <1>2, <1>3, JoinMatchInv, EnterInv, EligibleInv, PlaceInv, LeavesInv, ReleaseInv, SubmitInv,
     CompareInv, FailInv DEF LineupNext, MatchEnds, lineupVars
<1>5. finished' \in BOOLEAN
  BY DEF LineupNext, SendRequest, JoinMatch, EnterLineup, ReadEligible, ChoosePlace, LeaveMatch,
         ReleaseForLeave, SubmitResult, CompareLineup, FailRequest, MatchEnds, lineupVars
<1> QED BY <1>4, <1>5

\* The line-up names players of the match only, can always be read, and is the
\* one the result names, whatever places, departures and results cross.
THEOREM LineupIsAlwaysTrue == LineupSpec => []LineupIsTrue
<1>1. LineupInit => LineupAll
  BY LineupInitially DEF LineupInit, LineupAll
<1>2. LineupAll /\ [LineupNext]_lineupVars => LineupAll'
  BY LineupStep DEF LineupAll
<1>3. LineupAll => LineupIsTrue
  BY LineupInvIsEnough DEF LineupAll
<1> QED BY <1>1, <1>2, <1>3, PTL DEF LineupSpec

\* A place is of one player, and the owner never leaves.
PlacesTyped ==
  /\ LineupOwner \in players
  /\ \A p, q \in Members : place[p] # NoPlace /\ place[p] = place[q] => p = q
  /\ \A r \in Requests : request[r].pc = "left" => request[r].player # LineupOwner

LEMMA PlacesStay ==
  ASSUME LineupInv, PlacesTyped, [LineupNext]_lineupVars PROVE PlacesTyped'
<1> DEFINE Moves(r) == \E row : /\ RequestAt(r, row)
                                /\ row.pc = "left" => row.player # LineupOwner
<1>0. ASSUME NEW r \in Requests, Moves(r)
      PROVE  \A q \in Requests : request'[q].pc = "left" => request'[q].player # LineupOwner
  <2>1. PICK row : RequestAt(r, row) /\ (row.pc = "left" => row.player # LineupOwner)
    BY <1>0
  <2>2. request' = [request EXCEPT ![r] = row] /\ DOMAIN request = Requests
    BY <2>1 DEF RequestAt, LineupInv, LineupTyped
  <2> QED BY <2>1, <2>2 DEF PlacesTyped
<1>e. ASSUME NEW r \in Requests, NEW outcome \in Outcomes, RequestEnds(r, outcome) PROVE Moves(r)
  <2>1. PICK row : row = [pc |-> outcome]
    OBVIOUS
  <2>2. row.pc = outcome /\ outcome # "left"
    BY <2>1 DEF Outcomes
  <2>3. RequestAt(r, row)
    BY <1>e, <2>1 DEF RequestEnds
  <2> QED BY <2>2, <2>3
<1>h. ASSUME UNCHANGED <<players, place>>,
             \A q \in Requests : request'[q].pc = "left" => request'[q].player # LineupOwner
      PROVE  PlacesTyped'
  BY <1>h DEF PlacesTyped
<1>d. {"done", "found", "rejected", "failed", "invalid_state"} \subseteq Outcomes
  BY DEF Outcomes
<1>1. CASE UNCHANGED lineupVars
  BY <1>1 DEF lineupVars, PlacesTyped
<1>2. ASSUME NEW r \in Requests, NEW type \in {"join", "leave", "release", "read", "result", "assign"},
             NEW p, NEW at, SendRequest(r, type, p, at)
      PROVE  PlacesTyped'
  <2>1. PICK row : row = [pc |-> type, player |-> p, place |-> at, late |-> finished]
    OBVIOUS
  <2>2. RequestAt(r, row) /\ row.pc # "left"
    BY <1>2, <2>1 DEF SendRequest
  <2>3. Moves(r)
    BY <2>2
  <2> QED BY <1>0, <1>2, <1>h, <2>3 DEF SendRequest
<1>3. ASSUME NEW r \in Requests, JoinMatch(r) PROVE PlacesTyped'
  <2>1. Moves(r)
    BY <1>3, <1>d, <1>e DEF JoinMatch
  <2>2. \A q \in Requests : request'[q].pc = "left" => request'[q].player # LineupOwner
    BY <1>0, <2>1
  <2>3. LineupOwner \in players' /\ place' = place
    BY <1>3 DEF JoinMatch, PlacesTyped
  <2> QED BY <2>2, <2>3 DEF PlacesTyped
<1>4. ASSUME NEW r \in Requests, EnterLineup(r) PROVE PlacesTyped'
  <2>1. PICK row : row = [pc |-> "choose", type |-> request[r].pc, player |-> request[r].player,
                   place |-> request[r].place, late |-> request[r].late,
                   inserted |-> lineup = "none", sees |-> {}]
    OBVIOUS
  <2>2. RequestAt(r, row) /\ row.pc # "left"
    BY <1>4, <2>1 DEF EnterLineup
  <2>3. Moves(r)
    BY <2>2
  <2> QED BY <1>0, <1>4, <1>h, <2>3 DEF EnterLineup
<1>5. ASSUME NEW r \in Requests, ReadEligible(r) PROVE PlacesTyped'
  <2>1. PICK row : row = [request[r] EXCEPT !.pc = "place", !.sees = players]
    OBVIOUS
  <2>2. RequestAt(r, row) \/ RequestEnds(r, "rejected")
    BY <1>5, <2>1 DEF ReadEligible
  <2>3. row.pc # "left"
    <3>1. request[r].pc = "choose" /\ request[r] \in LineupRequest
      BY <1>5 DEF ReadEligible, LineupInv, LineupTyped
    <3>2. request[r] \in LineupHolder
      BY <3>1 DEF LineupRequest, Outcomes, LineupHolder
    <3> QED BY <2>1, <3>2 DEF LineupHolder
  <2>4. Moves(r)
    BY <1>d, <1>e, <2>2, <2>3
  <2> QED BY <1>0, <1>5, <1>h, <2>4 DEF ReadEligible
<1>6. ASSUME NEW r \in Requests, ChoosePlace(r) PROVE PlacesTyped'
  <2>1. Moves(r)
    BY <1>6, <1>d, <1>e DEF ChoosePlace
  <2>2. \A q \in Requests : request'[q].pc = "left" => request'[q].player # LineupOwner
    BY <1>0, <2>1
  <2>3. request[r].player \in Members
    <3>1. request[r].pc = "place" /\ request[r] \in LineupRequest
      BY <1>6 DEF ChoosePlace, LineupInv, LineupTyped
    <3> QED BY <3>1 DEF LineupRequest, Outcomes, LineupHolder
  <2>4. \A p, q \in Members : place'[p] # NoPlace /\ place'[p] = place'[q] => p = q
    <3>1. CASE UNCHANGED place
      BY <3>1 DEF PlacesTyped
    <3>2. CASE place' = [place EXCEPT ![request[r].player] = NoPlace]
      BY <3>2 DEF PlacesTyped, LineupInv, LineupTyped
    <3>3. CASE ~Taken(r) /\ place' = [place EXCEPT ![request[r].player] = request[r].place]
      BY <2>3, <3>3 DEF PlacesTyped, LineupInv, LineupTyped, Taken
    <3> QED BY <1>6, <3>1, <3>2, <3>3 DEF ChoosePlace
  <2> QED BY <1>6, <2>2, <2>4 DEF ChoosePlace, PlacesTyped
<1>7. ASSUME NEW r \in Requests, LeaveMatch(r) PROVE PlacesTyped'
  <2>1. CASE RequestEnds(r, "rejected")
    BY <1>0, <1>7, <1>d, <1>e, <1>h, <2>1 DEF LeaveMatch
  <2>2. CASE request[r].player # LineupOwner /\ RequestAt(r, [request[r] EXCEPT !.pc = "left"])
    <3>1. PICK row : row = [request[r] EXCEPT !.pc = "left"]
      OBVIOUS
    <3>2. RequestAt(r, row) /\ row.player # LineupOwner
      BY <2>2, <3>1
    <3>3. Moves(r)
      BY <3>2
    <3> QED BY <1>0, <1>7, <1>h, <3>3 DEF LeaveMatch
  <2> QED BY <1>7, <2>1, <2>2 DEF LeaveMatch
<1>8. ASSUME NEW r \in Requests, ReleaseForLeave(r) PROVE PlacesTyped'
  <2>1. Moves(r)
    BY <1>8, <1>d, <1>e DEF ReleaseForLeave
  <2>2. \A q \in Requests : request'[q].pc = "left" => request'[q].player # LineupOwner
    BY <1>0, <2>1
  <2>3. LineupOwner \in players'
    BY <1>8 DEF ReleaseForLeave, PlacesTyped
  <2>4. \A p, q \in Members : place'[p] # NoPlace /\ place'[p] = place'[q] => p = q
    BY <1>8 DEF ReleaseForLeave, ReleasedPlace, PlacesTyped, LineupInv, LineupTyped
  <2> QED BY <2>2, <2>3, <2>4 DEF PlacesTyped
<1>9. ASSUME NEW r \in Requests, SubmitResult(r) PROVE PlacesTyped'
  <2>1. CASE RequestEnds(r, "rejected")
    BY <1>0, <1>9, <1>d, <1>e, <1>h, <2>1 DEF SubmitResult
  <2>2. CASE RequestAt(r, [request[r] EXCEPT !.pc = "submit"])
    <3>1. PICK row : row = [request[r] EXCEPT !.pc = "submit"]
      OBVIOUS
    <3>2. row.pc # "left"
      <4>1. request[r].pc = "result" /\ request[r] \in LineupRequest
        BY <1>9 DEF SubmitResult, LineupInv, LineupTyped
      <4> QED BY <3>1, <4>1 DEF LineupRequest, Outcomes, LineupHolder
    <3>3. Moves(r)
      BY <2>2, <3>1, <3>2
    <3> QED BY <1>0, <1>9, <1>h, <3>3 DEF SubmitResult
  <2> QED BY <1>9, <2>1, <2>2 DEF SubmitResult
<1>10. ASSUME NEW r \in Requests, CompareLineup(r) \/ FailRequest(r) PROVE PlacesTyped'
  <2>1. Moves(r)
    BY <1>10, <1>d, <1>e DEF CompareLineup, FailRequest
  <2> QED BY <1>0, <1>10, <1>h, <2>1 DEF CompareLineup, FailRequest
<1>11. CASE MatchEnds
  BY <1>11 DEF MatchEnds, PlacesTyped
<1> QED BY <1>1, <1>2, <1>3, <1>4, <1>5, <1>6, <1>7, <1>8, <1>9, <1>10, <1>11 DEF LineupNext

\* LineupTypeOK, of every set of requests, members and places: nobody shares a
\* place, and the owner of a match is always one of its players.
THEOREM LineupIsTyped == LineupSpec => []LineupTypeOK
<1>1. LineupInit => PlacesTyped
  <2> SUFFICES ASSUME LineupInit PROVE PlacesTyped
    OBVIOUS
  <2>1. PICK row : row = [pc |-> "done"]
    OBVIOUS
  <2>2. \A r \in Requests : request[r].pc = "done"
    BY <2>1 DEF LineupInit
  <2> QED BY <2>2 DEF LineupInit, PlacesTyped
<1>2. LineupInv /\ PlacesTyped => LineupTypeOK
  <2> SUFFICES ASSUME LineupInv, PlacesTyped PROVE LineupTypeOK
    OBVIOUS
  <2>1. \A r \in Requests : request[r].pc \in Outcomes \cup
       {"join", "leave", "assign", "release", "read", "result", "choose", "place", "left", "submit"}
    <3> SUFFICES ASSUME NEW r \in Requests
                 PROVE  request[r].pc \in Outcomes \cup
       {"join", "leave", "assign", "release", "read", "result", "choose", "place", "left", "submit"}
      OBVIOUS
    <3>1. request[r] \in LineupRequest
      BY DEF LineupInv, LineupTyped
    <3> QED BY <3>1 DEF LineupRequest, LineupHolder
  <2> QED BY <2>1 DEF LineupInv, LineupTyped, PlacesTyped, LineupTypeOK, Assigned
<1>3. LineupInit => LineupAll
  BY LineupInitially DEF LineupInit, LineupAll
<1>4. LineupAll /\ PlacesTyped /\ [LineupNext]_lineupVars => LineupAll' /\ PlacesTyped'
  BY LineupStep, PlacesStay DEF LineupAll
<1>5. LineupAll => LineupInv
  BY DEF LineupAll
<1> QED BY <1>1, <1>2, <1>3, <1>4, <1>5, PTL DEF LineupSpec

-----------------------------------------------------------------------------
(* MatchRatings.                                                           *)

ResultVerdict == {"confirmed", "disputed"}

LedgerEntry ==
  [kind : {"match"}, match : Results, before : 0..MaxRating, count : Nat, after : 0..MaxRating]
    \cup [kind : {"admin"}, before : 0..MaxRating, after : 0..MaxRating]

ResolverEnds == {"match", "applied", "retried", "rejected", "failed"}
Resolver ==
  [pc : {"unsent"}]
    \cup [pc : ResolverEnds, type : ResultVerdict, actor : Rateable, match : Results, command : Commands]
    \cup [pc : {"lock", "read"}, type : ResultVerdict, actor : Rateable, match : Results,
          command : Commands, locked : SUBSET Rateable]
    \cup [pc : {"write"}, type : ResultVerdict, actor : Rateable, match : Results,
          command : Commands, locked : SUBSET Rateable,
          before : UNION {[PlayersOf(m) -> 0..MaxRating] : m \in Results},
          count : UNION {[PlayersOf(m) -> Nat] : m \in Results}]

RatingsTyped ==
  /\ DOMAIN result = Results
  /\ rating \in [Rateable -> 0..MaxRating]
  /\ ledger \in [Rateable -> Seq(LedgerEntry)]
  /\ resolver \in [Resolvers -> Resolver]

\* A request that holds its match locks the players in the order of their
\* accounts, and what it has read of them still holds.
Serves(q) ==
  q.pc \in Holders =>
    /\ q.type = "confirmed" /\ q.match \in Rated /\ result[q.match] = "submitted"
    /\ q.locked \subseteq PlayersOf(q.match)
    /\ \A p \in q.locked, o \in PlayersOf(q.match) \ q.locked : p < o
    /\ q.pc # "lock" => q.locked = PlayersOf(q.match)
    /\ q.pc = "write" => \A p \in PlayersOf(q.match) :
         q.before[p] = rating[p] /\ q.count[p] = RatedBefore(p)

\* Two requests hold no match and no player in common.
Apart(q, x) ==
  q.pc \in Holders /\ x.pc \in Holders => q.match # x.match /\ q.locked \cap x.locked = {}

RatingsInv ==
  /\ RatingsTyped
  /\ \A r \in Resolvers : Serves(resolver[r])
  /\ \A r, q \in Resolvers : r # q => Apart(resolver[r], resolver[q])
  /\ RatingIsItsLedger /\ RatedCountIsExact /\ RatedOnce /\ CommandsAreUnique

LEMMA RatingsInitially == RatingsInit => RatingsInv
<1> SUFFICES ASSUME RatingsInit PROVE RatingsInv
  OBVIOUS
<1>1. RatingsTyped
  BY RatingsAssumption DEF RatingsInit, RatingsTyped, Resolver
<1>2. \A p \in Rateable : ledger[p] = <<>>
  BY DEF RatingsInit
<1>3. RatedOnce
  <2> SUFFICES ASSUME NEW m \in Results, NEW p \in PlayersOf(m)
      PROVE Cardinality({i \in DOMAIN ledger[p] : ledger[p][i].kind = "match" /\ ledger[p][i].match = m}) = 0
    BY DEF RatedOnce, RatingsInit
  <2>1. ledger[p] = <<>>
    BY <1>2 DEF Rateable
  <2>2. {i \in DOMAIN ledger[p] : ledger[p][i].kind = "match" /\ ledger[p][i].match = m} = {}
    BY <2>1
  <2> QED BY <2>2, FS_EmptySet
<1> QED BY <1>1, <1>2, <1>3
    DEF RatingsInit, RatingsInv, RatingIsItsLedger, RatedCountIsExact, CommandsAreUnique,
        Serves, Apart, Holders

-----------------------------------------------------------------------------
(* The ledger of a player.                                                 *)

\* The entries of a ledger that are in a set.
Among(log, T) == {i \in DOMAIN log : log[i] \in T}

LEMMA AmongAppended ==
  ASSUME NEW S, NEW T, NEW log \in Seq(S), NEW e \in S
  PROVE  /\ Cardinality(Among(log, T)) \in Nat
         /\ Cardinality(Among(Append(log, e), T))
              = Cardinality(Among(log, T)) + (IF e \in T THEN 1 ELSE 0)
<1>1. IsFiniteSet(Among(log, T))
  <2>1. IsFiniteSet(1..Len(log))
    BY FS_Interval
  <2>2. Among(log, T) \subseteq 1..Len(log)
    BY DEF Among
  <2> QED BY <2>1, <2>2, FS_Subset
<1>2. Len(log) \in Nat /\ Len(log) + 1 \notin Among(log, T)
  BY DEF Among
<1>3. Among(Append(log, e), T) = Among(log, T) \cup (IF e \in T THEN {Len(log) + 1} ELSE {})
  BY DEF Among
<1>4. CASE e \in T
  BY <1>1, <1>2, <1>3, <1>4, FS_AddElement, FS_CardinalityType
<1>5. CASE e \notin T
  BY <1>1, <1>3, <1>5, FS_CardinalityType
<1> QED BY <1>4, <1>5

Chained(log) == \A i \in 1..Len(log) - 1 : log[i + 1].before = log[i].after
CountsAreExact(log) ==
  \A i \in DOMAIN log :
    log[i].kind = "match" => log[i].count = Cardinality({j \in 1..i - 1 : log[j].kind = "match"})

\* A ledger of entries, each from the one before it and with its count.
SoundLog(log) == log \in Seq(LedgerEntry) /\ Chained(log) /\ CountsAreExact(log)

LEMMA LogGrows ==
  ASSUME NEW log \in Seq(LedgerEntry), NEW e \in LedgerEntry, Chained(log), CountsAreExact(log),
         log # <<>> => e.before = log[Len(log)].after,
         e.kind = "match" => e.count = Cardinality({i \in DOMAIN log : log[i].kind = "match"}),
         NEW new, new = Append(log, e)
  PROVE  SoundLog(new) /\ new # <<>> /\ new[Len(new)].after = e.after
<1>0. PICK n : n = Len(log)
  OBVIOUS
<1>1. /\ new \in Seq(LedgerEntry) /\ Len(new) = n + 1 /\ n \in Nat
      /\ DOMAIN new = 1..n + 1 /\ DOMAIN log = 1..n /\ Len(log) = n
      /\ new[n + 1] = e /\ \A i \in 1..n : new[i] = log[i]
  BY <1>0
<1>2. Chained(new)
  <2> SUFFICES ASSUME NEW i \in 1..n PROVE new[i + 1].before = new[i].after
    BY <1>1 DEF Chained
  <2>1. CASE i = n
    <3>1. log # <<>>
      BY <1>1, <2>1
    <3> QED BY <1>1, <2>1, <3>1
  <2>2. CASE i # n
    <3>1. i \in 1..n - 1 /\ i + 1 \in 1..n
      BY <1>1, <2>2
    <3> QED BY <1>1, <3>1 DEF Chained
  <2> QED BY <2>1, <2>2
<1>3. CountsAreExact(new)
  <2> SUFFICES ASSUME NEW i \in 1..n + 1, new[i].kind = "match"
      PROVE new[i].count = Cardinality({j \in 1..i - 1 : new[j].kind = "match"})
    BY <1>1 DEF CountsAreExact
  <2>1. {j \in 1..i - 1 : new[j].kind = "match"} = {j \in 1..i - 1 : log[j].kind = "match"}
    BY <1>1
  <2>2. CASE i = n + 1
    <3>1. {j \in 1..i - 1 : log[j].kind = "match"} = {j \in DOMAIN log : log[j].kind = "match"}
      BY <1>1, <2>2
    <3> QED BY <1>1, <2>1, <2>2, <3>1
  <2>3. CASE i \in 1..n
    <3>1. i \in DOMAIN log /\ new[i] = log[i]
      BY <1>1, <2>3
    <3>2. log[i].count = Cardinality({j \in 1..i - 1 : log[j].kind = "match"})
      BY <3>1 DEF CountsAreExact
    <3> QED BY <2>1, <3>1, <3>2
  <2>4. i \in 1..n \/ i = n + 1
    BY <1>1
  <2> QED BY <2>2, <2>3, <2>4
<1> QED BY <1>1, <1>2, <1>3 DEF SoundLog

-----------------------------------------------------------------------------
\* Accounts are locked from the least on.
LEMMA LeastNatural ==
  ASSUME NEW S, S \subseteq Nat, S # {}
  PROVE  Min(S) \in S /\ \A x \in S : Min(S) <= x
<1> DEFINE less == OpToRel(<, Nat)
<1>1. IsWellFoundedOn(less, Nat)
  BY NatLessThanWellFounded, Zenon
<1> HIDE DEF less
<1>2. PICK m \in S : \A x \in S : ~(<<x, m>> \in less)
  BY <1>1, WFMin
<1>3. \A x \in S : m <= x
  <2> SUFFICES ASSUME NEW x \in S, x < m PROVE FALSE
    OBVIOUS
  <2>1. <<x, m>> \in less
    BY Zenon DEF less, OpToRel
  <2> QED BY <1>2, <2>1
<1> QED BY <1>3 DEF Min

LEMMA TwoElements ==
  \A a, b \in Int : /\ Min({a, b}) = (IF a <= b THEN a ELSE b)
                   /\ Max({a, b}) = (IF a <= b THEN b ELSE a)
<1> TAKE a, b \in Int
<1> QED BY DEF Min, Max

LEMMA AccountsAreNumbers ==
  \A m \in Results : PlayersOf(m) \subseteq Nat /\ PlayersOf(m) \subseteq Rateable
BY RatingsAssumption DEF PlayersOf, Rateable

-----------------------------------------------------------------------------
(* The steps of a request.                                                 *)

\* A request that rests leaves the rows alone, whatever its place.
LEMMA ResolverRests ==
  ASSUME RatingsInv, NEW r \in Resolvers, NEW x \in Resolver, x.pc \notin Holders,
         resolver' = [resolver EXCEPT ![r] = x],
         UNCHANGED <<result, completed, applied, rating, verified, ledger, settings>>
  PROVE  RatingsInv'
<1>1. RatingsTyped'
  BY DEF RatingsInv, RatingsTyped
<1>2. \A q \in Resolvers : resolver'[q] = IF q = r THEN x ELSE resolver[q]
  BY DEF RatingsInv, RatingsTyped
<1>3. \A q \in Resolvers : Serves(resolver[q])'
  <2> SUFFICES ASSUME NEW q \in Resolvers PROVE Serves(resolver[q])'
    OBVIOUS
  <2>1. \A p : RatedBefore(p)' = RatedBefore(p)
    BY DEF RatedBefore
  <2>2. Serves(resolver[q]) /\ Serves(x)
    BY DEF RatingsInv, Serves
  <2>3. PICK y : y = resolver'[q] /\ Serves(y)
    BY <1>2, <2>2
  <2> QED BY <2>1, <2>3 DEF Serves
<1>4. \A q, t \in Resolvers : q # t => Apart(resolver[q], resolver[t])'
  BY <1>2 DEF RatingsInv, Apart
<1>5. RatingIsItsLedger' /\ RatedCountIsExact' /\ CommandsAreUnique'
  BY DEF RatingsInv, RatingIsItsLedger, RatedCountIsExact, CommandsAreUnique
<1>6. RatedOnce'
  BY DEF RatingsInv, RatedOnce
<1> QED BY <1>1, <1>3, <1>4, <1>5, <1>6 DEF RatingsInv

\* What a request looks like that was sent, and one that is abandoned.
LEMMA SentFacts ==
  ASSUME RatingsInv, NEW r \in Resolvers, resolver[r].pc # "unsent"
  PROVE  /\ resolver[r].type \in ResultVerdict /\ resolver[r].match \in Results
         /\ resolver[r].actor \in Rateable /\ resolver[r].command \in Commands
         /\ resolver[r].pc \in Holders => resolver[r].locked \subseteq Rateable
<1>1. PICK q : q = resolver[r] /\ q \in Resolver /\ q.pc # "unsent"
  BY DEF RatingsInv, RatingsTyped
<1>2. q.type \in ResultVerdict /\ q.match \in Results /\ q.actor \in Rateable /\ q.command \in Commands
  BY ONLY <1>1 DEF Resolver
<1>3. q.pc \in Holders => q.locked \subseteq Rateable
  BY ONLY <1>1 DEF Resolver, ResolverEnds, Holders
<1> QED BY ONLY <1>1, <1>2, <1>3

LEMMA SendResolutionInv ==
  ASSUME RatingsInv, NEW r \in Resolvers, NEW type \in ResultVerdict, NEW m \in Results,
         NEW c \in Commands, NEW actor \in PlayersOf(m), SendResolution(r, type, actor, m, c)
  PROVE  RatingsInv'
<1>1. actor \in Rateable
  BY AccountsAreNumbers
<1>2. [pc |-> "match", type |-> type, actor |-> actor, match |-> m, command |-> c] \in Resolver
  BY <1>1 DEF Resolver, ResolverEnds
<1> QED BY <1>2, ResolverRests DEF SendResolution, Holders

LEMMA AbandonedInv ==
  ASSUME RatingsInv, NEW r \in Resolvers, resolver[r].pc # "unsent", Abandoned(r),
         UNCHANGED <<result, completed, applied, rating, verified, ledger, settings>>
  PROVE  RatingsInv'
<1>1. PICK x : x = [pc |-> "failed", type |-> resolver[r].type, actor |-> resolver[r].actor,
                    match |-> resolver[r].match, command |-> resolver[r].command]
  OBVIOUS
<1>2. x \in Resolver /\ x.pc \notin Holders
  BY <1>1, SentFacts DEF Resolver, ResolverEnds, Holders
<1>3. resolver' = [resolver EXCEPT ![r] = x]
  BY <1>1 DEF Abandoned
<1> QED BY <1>2, <1>3, ResolverRests

\* The writes of a transaction on a match that no other request holds.
LEMMA ResultResolves ==
  ASSUME RatingsInv, NEW r \in Resolvers, NEW x \in Resolver, x.pc \notin Holders,
         resolver[r].pc # "unsent", Resolve(r), Known(r) = {},
         resolver' = [resolver EXCEPT ![r] = x],
         \A q \in Resolvers \ {r} :
           resolver[q].pc \in Holders => resolver[q].match # resolver[r].match
  PROVE  /\ DOMAIN result' = Results
         /\ \A m \in Results : result'[m] = IF m = resolver[r].match THEN resolver[r].type ELSE result[m]
         /\ CommandsAreUnique'
         /\ \A q \in Resolvers : resolver'[q] = IF q = r THEN x ELSE resolver[q]
         /\ \A q, t \in Resolvers : q # t => Apart(resolver[q], resolver[t])'
         /\ resolver' \in [Resolvers -> Resolver]
<1>1. resolver[r].match \in Results
  BY SentFacts
<1>2. \A m \in Results : result'[m] = IF m = resolver[r].match THEN resolver[r].type ELSE result[m]
  BY <1>1 DEF Resolve, RatingsInv, RatingsTyped
<1>3. CommandsAreUnique'
  <2>1. PICK c : c = CommandOf(r)
    OBVIOUS
  <2>2. \A d \in applied : d.command # c.command
    BY <2>1 DEF Known, CommandOf
  <2> QED BY <2>1, <2>2 DEF Resolve, RatingsInv, CommandsAreUnique
<1>4. \A q \in Resolvers : resolver'[q] = IF q = r THEN x ELSE resolver[q]
  BY DEF RatingsInv, RatingsTyped
<1>5. \A q, t \in Resolvers : q # t => Apart(resolver[q], resolver[t])'
  BY <1>4 DEF RatingsInv, Apart
<1> QED BY <1>2, <1>3, <1>4, <1>5 DEF Resolve, RatingsInv, RatingsTyped

LEMMA LockMatchInv ==
  ASSUME RatingsInv, NEW r \in Resolvers, LockMatch(r)
  PROVE  RatingsInv'
<1>1. PICK q : q = resolver[r]
  OBVIOUS
<1>2. /\ q \in Resolver /\ q.pc = "match" /\ q.match \in Results /\ q.type \in ResultVerdict
      /\ q.actor \in Rateable /\ q.command \in Commands
  BY <1>1, SentFacts DEF LockMatch, RatingsInv, RatingsTyped
<1>3. \A t \in Resolvers : resolver[t].pc \in Holders => resolver[t].match # q.match
  BY <1>1 DEF LockMatch, HoldsMatch
<1>4. \A pc \in ResolverEnds : [q EXCEPT !.pc = pc] \in Resolver /\ [q EXCEPT !.pc = pc].pc \notin Holders
  BY ONLY <1>2 DEF Resolver, ResolverEnds, Holders
<1>5. CASE Known(r) # {} \/ ~MayResolve(r)
  <2>1. PICK pc : /\ pc = (IF CommandOf(r) \in Known(r) THEN "retried" ELSE "rejected")
                  /\ pc \in ResolverEnds
    BY DEF ResolverEnds
  <2>2. resolver' = [resolver EXCEPT ![r] = [q EXCEPT !.pc = pc]]
    BY <1>1, <1>5, <2>1 DEF LockMatch, ResolverAt, RatingsInv, RatingsTyped
  <2> QED BY <1>4, <1>5, <2>1, <2>2, ResolverRests DEF LockMatch
<1>6. CASE Known(r) = {} /\ MayResolve(r) /\ Rates(r)
  <2>1. PICK x : x = [pc |-> "lock", type |-> q.type, actor |-> q.actor, match |-> q.match,
                      command |-> q.command, locked |-> {}]
    OBVIOUS
  <2>2. x \in Resolver
    BY ONLY <1>2, <2>1 DEF Resolver
  <2>3. /\ resolver' = [resolver EXCEPT ![r] = x]
        /\ UNCHANGED <<result, completed, applied, rating, verified, ledger, settings>>
    BY <1>1, <1>6, <2>1 DEF LockMatch
  <2>4. \A t \in Resolvers : resolver'[t] = IF t = r THEN x ELSE resolver[t]
    BY <2>3 DEF RatingsInv, RatingsTyped
  <2>5. Serves(x)
    BY <1>1, <1>6, <2>1 DEF Serves, Rates, MayResolve
  <2>6. \A t \in Resolvers : Serves(resolver[t])'
    <3> SUFFICES ASSUME NEW t \in Resolvers PROVE Serves(resolver[t])'
      OBVIOUS
    <3>1. \A p : RatedBefore(p)' = RatedBefore(p)
      BY <2>3 DEF RatedBefore
    <3>2. PICK y : y = resolver'[t] /\ Serves(y)
      BY <2>4, <2>5 DEF RatingsInv
    <3> QED BY <2>3, <3>1, <3>2 DEF Serves
  <2>7. \A s, t \in Resolvers : s # t => Apart(resolver[s], resolver[t])'
    BY <1>3, <2>1, <2>4 DEF RatingsInv, Apart
  <2>8. RatingsTyped'
    BY <2>2, <2>3 DEF RatingsInv, RatingsTyped
  <2>9. RatingIsItsLedger' /\ RatedCountIsExact' /\ CommandsAreUnique'
    BY <2>3 DEF RatingsInv, RatingIsItsLedger, RatedCountIsExact, CommandsAreUnique
  <2>10. RatedOnce'
    BY <2>3 DEF RatingsInv, RatedOnce
  <2> QED BY <2>6, <2>7, <2>8, <2>9, <2>10 DEF RatingsInv
<1>7. CASE Known(r) = {} /\ MayResolve(r) /\ ~Rates(r)
  <2>1. PICK x : x = [q EXCEPT !.pc = "applied"]
    OBVIOUS
  <2>2. x \in Resolver /\ x.pc \notin Holders
    BY <1>4, <2>1 DEF ResolverEnds
  <2>3. Resolve(r) /\ resolver' = [resolver EXCEPT ![r] = x] /\ UNCHANGED <<rating, verified, ledger, settings>>
    BY <1>1, <1>7, <2>1 DEF LockMatch, ResolverAt, RatingsInv, RatingsTyped
  <2>4. /\ DOMAIN result' = Results
        /\ \A m \in Results : result'[m] = IF m = q.match THEN q.type ELSE result[m]
        /\ CommandsAreUnique'
        /\ \A t \in Resolvers : resolver'[t] = IF t = r THEN x ELSE resolver[t]
        /\ \A s, t \in Resolvers : s # t => Apart(resolver[s], resolver[t])'
        /\ resolver' \in [Resolvers -> Resolver]
    BY <1>1, <1>2, <1>3, <1>7, <2>2, <2>3, ResultResolves
  <2>5. \A t \in Resolvers : Serves(resolver[t])'
    <3> SUFFICES ASSUME NEW t \in Resolvers PROVE Serves(resolver[t])'
      OBVIOUS
    <3>1. \A p : RatedBefore(p)' = RatedBefore(p)
      BY <2>3 DEF RatedBefore
    <3>2. PICK y : y = resolver'[t]
      OBVIOUS
    <3>3. CASE y.pc \in Holders
      <4>1. t # r /\ y = resolver[t] /\ Serves(y) /\ y.match # q.match
        BY <1>3, <2>2, <2>4, <3>2, <3>3 DEF RatingsInv
      <4>2. y.match \in Results
        BY <3>3, <4>1, SentFacts DEF Holders
      <4> QED BY <2>3, <2>4, <3>1, <3>2, <4>1, <4>2 DEF Serves
    <3> QED BY <3>2, <3>3 DEF Serves
  <2>6. RatedOnce'
    <3> SUFFICES ASSUME NEW m \in Results
        PROVE (m \in Rated /\ result'[m] = "confirmed") <=> (m \in Rated /\ result[m] = "confirmed")
      BY <2>3 DEF RatingsInv, RatedOnce
    <3> QED BY <1>1, <1>2, <1>7, <2>4 DEF MayResolve, Rates, ResultVerdict
  <2>7. RatingsTyped'
    BY <2>3, <2>4 DEF RatingsInv, RatingsTyped
  <2>8. RatingIsItsLedger' /\ RatedCountIsExact'
    BY <2>3 DEF RatingsInv, RatingIsItsLedger, RatedCountIsExact
  <2> QED BY <2>4, <2>5, <2>6, <2>7, <2>8 DEF RatingsInv
<1> QED BY <1>5, <1>6, <1>7

\* A request goes on under its locks, with at most one player more.
LEMMA LocksInv ==
  ASSUME RatingsInv, NEW r \in Resolvers, NEW x \in Resolver, resolver[r].pc \in Holders,
         x.match = resolver[r].match, Serves(x),
         \A p \in x.locked : p \in resolver[r].locked \/ RatingFree(p),
         resolver' = [resolver EXCEPT ![r] = x],
         UNCHANGED <<result, completed, applied, rating, verified, ledger, settings>>
  PROVE  RatingsInv'
<1>1. \A t \in Resolvers : resolver'[t] = IF t = r THEN x ELSE resolver[t]
  BY DEF RatingsInv, RatingsTyped
<1>2. \A t \in Resolvers : Serves(resolver[t])'
  <2> SUFFICES ASSUME NEW t \in Resolvers PROVE Serves(resolver[t])'
    OBVIOUS
  <2>1. \A p : RatedBefore(p)' = RatedBefore(p)
    BY DEF RatedBefore
  <2>2. PICK y : y = resolver'[t] /\ Serves(y)
    BY <1>1 DEF RatingsInv
  <2> QED BY <2>1, <2>2 DEF Serves
<1>3. \A t \in Resolvers \ {r} : Apart(x, resolver[t]) /\ Apart(resolver[t], x)
  BY DEF RatingsInv, Apart, RatingFree, LockedBy
<1>4. \A s, t \in Resolvers : s # t => Apart(resolver[s], resolver[t])'
  <2> SUFFICES ASSUME NEW s \in Resolvers, NEW t \in Resolvers, s # t
               PROVE  Apart(resolver[s], resolver[t])'
    OBVIOUS
  <2>1. PICK y, z : y = resolver'[s] /\ z = resolver'[t]
    OBVIOUS
  <2>2. Apart(y, z)
    BY <1>1, <1>3, <2>1 DEF RatingsInv
  <2> QED BY <2>1, <2>2 DEF Apart
<1>5. RatingsTyped'
  BY DEF RatingsInv, RatingsTyped
<1>6. RatingIsItsLedger' /\ RatedCountIsExact' /\ CommandsAreUnique'
  BY DEF RatingsInv, RatingIsItsLedger, RatedCountIsExact, CommandsAreUnique
<1>7. RatedOnce'
  BY DEF RatingsInv, RatedOnce
<1> QED BY <1>2, <1>4, <1>5, <1>6, <1>7 DEF RatingsInv

LEMMA NextFacts ==
  ASSUME RatingsInv, NEW r \in Resolvers, resolver[r].pc = "lock",
         resolver[r].locked # PlayersOf(resolver[r].match)
  PROVE  /\ NextRating(r) \in PlayersOf(resolver[r].match) \ resolver[r].locked
         /\ \A p \in PlayersOf(resolver[r].match) \ resolver[r].locked : NextRating(r) <= p
<1>1. resolver[r].match \in Results /\ resolver[r].locked \subseteq PlayersOf(resolver[r].match)
  BY SentFacts DEF RatingsInv, Serves, Holders
<1>2. PICK S : S = PlayersOf(resolver[r].match) \ resolver[r].locked
  OBVIOUS
<1>3. S \subseteq Nat /\ S # {}
  BY <1>1, <1>2, AccountsAreNumbers
<1> QED BY <1>2, <1>3, LeastNatural DEF NextRating

LEMMA LockRatingInv ==
  ASSUME RatingsInv, NEW r \in Resolvers, LockRating(r)
  PROVE  RatingsInv'
<1>1. PICK q : q = resolver[r]
  OBVIOUS
<1>2. /\ q \in Resolver /\ q.pc = "lock" /\ q.match \in Results /\ Serves(q)
      /\ LockedBy(r) = q.locked /\ q.pc \in Holders
  BY <1>1, SentFacts DEF LockRating, RatingsInv, RatingsTyped, LockedBy, Holders
<1>3. CASE q.locked = PlayersOf(q.match)
  <2>1. PICK x : x = [q EXCEPT !.pc = "read"]
    OBVIOUS
  <2>2. x \in Resolver /\ x.pc = "read" /\ x.match = q.match /\ x.locked = q.locked
        /\ x.type = q.type
    BY ONLY <1>2, <2>1 DEF Resolver, ResolverEnds
  <2>3. Serves(x)
    BY <1>2, <1>3, <2>2 DEF Serves, Holders
  <2>4. resolver' = [resolver EXCEPT ![r] = x]
    BY <1>1, <1>2, <1>3, <2>1 DEF LockRating, ResolverAt, RatingsInv, RatingsTyped
  <2> QED BY <1>1, <1>2, <2>2, <2>3, <2>4, LocksInv DEF LockRating
<1>4. CASE q.locked # PlayersOf(q.match)
  <2>1. PICK n, x : n = NextRating(r) /\ x = [q EXCEPT !.locked = q.locked \cup {n}]
    OBVIOUS
  <2>2. n \in PlayersOf(q.match) \ q.locked /\ \A p \in PlayersOf(q.match) \ q.locked : n <= p
    BY <1>1, <1>2, <1>4, <2>1, NextFacts
  <2>3. n \in Rateable
    BY <1>2, <2>2, AccountsAreNumbers
  <2>4. x \in Resolver /\ x.pc = "lock" /\ x.match = q.match /\ x.locked = q.locked \cup {n}
        /\ x.type = q.type
    BY ONLY <1>2, <2>1, <2>3 DEF Resolver, ResolverEnds
  <2>5. \A p \in x.locked, o \in PlayersOf(q.match) \ x.locked : p < o
    <3> SUFFICES ASSUME NEW p \in x.locked, NEW o \in PlayersOf(q.match) \ x.locked PROVE p < o
      OBVIOUS
    <3>1. CASE p = n
      <4>1. n \in Nat /\ o \in Nat /\ n <= o /\ n # o
        BY <1>2, <2>2, <2>4, AccountsAreNumbers
      <4> QED BY <3>1, <4>1
    <3>2. CASE p # n
      BY <1>2, <2>4, <3>2 DEF Serves
    <3> QED BY <3>1, <3>2
  <2>6. Serves(x)
    BY <1>2, <2>2, <2>4, <2>5 DEF Serves, Holders
  <2>7. resolver' = [resolver EXCEPT ![r] = x] /\ RatingFree(n)
    BY <1>1, <1>2, <1>4, <2>1 DEF LockRating, RatingsInv, RatingsTyped
  <2> QED BY <1>1, <1>2, <2>4, <2>6, <2>7, LocksInv DEF LockRating
<1> QED BY <1>3, <1>4

LEMMA ReadRatingsInv ==
  ASSUME RatingsInv, NEW r \in Resolvers, ReadRatings(r)
  PROVE  RatingsInv'
<1>1. PICK q : q = resolver[r]
  OBVIOUS
<1>2. /\ q \in Resolver /\ q.pc = "read" /\ q.match \in Results /\ Serves(q) /\ q.pc \in Holders
  BY <1>1, SentFacts DEF ReadRatings, RatingsInv, RatingsTyped, Holders
<1>3. CASE PlayersOf(q.match) \subseteq verified
  <2>1. PICK x : x = [pc |-> "write", type |-> q.type, actor |-> q.actor, match |-> q.match,
             command |-> q.command, locked |-> q.locked,
             before |-> [p \in PlayersOf(q.match) |-> rating[p]],
             count |-> [p \in PlayersOf(q.match) |-> RatedBefore(p)]]
    OBVIOUS
  <2>2. \A p \in PlayersOf(q.match) : rating[p] \in 0..MaxRating /\ RatedBefore(p) \in Nat
    <3> SUFFICES ASSUME NEW p \in PlayersOf(q.match)
                 PROVE  rating[p] \in 0..MaxRating /\ RatedBefore(p) \in Nat
      OBVIOUS
    <3>1. p \in Rateable
      BY <1>2, AccountsAreNumbers
    <3>2. rating[p] \in 0..MaxRating /\ ledger[p] \in Seq(LedgerEntry)
      BY <3>1 DEF RatingsInv, RatingsTyped
    <3>3. IsFiniteSet(1..Len(ledger[p]))
      BY <3>2, FS_Interval
    <3>4. {i \in DOMAIN ledger[p] : ledger[p][i].kind = "match"} \subseteq 1..Len(ledger[p])
      BY <3>2
    <3> QED BY <3>2, <3>3, <3>4, FS_Subset, FS_CardinalityType DEF RatedBefore
  <2>3. /\ [p \in PlayersOf(q.match) |-> rating[p]] \in UNION {[PlayersOf(m) -> 0..MaxRating] : m \in Results}
        /\ [p \in PlayersOf(q.match) |-> RatedBefore(p)] \in UNION {[PlayersOf(m) -> Nat] : m \in Results}
    BY <1>2, <2>2
  <2>4. q.type \in ResultVerdict /\ q.actor \in Rateable /\ q.command \in Commands /\ q.locked \subseteq Rateable
    BY <1>1, <1>2, SentFacts
  <2>5. x \in Resolver
    BY ONLY <1>2, <2>1, <2>3, <2>4 DEF Resolver
  <2>6. Serves(x)
    BY <1>2, <2>1 DEF Serves, Holders
  <2>7. resolver' = [resolver EXCEPT ![r] = x]
    BY <1>1, <1>3, <2>1 DEF ReadRatings
  <2> QED BY <1>1, <1>2, <2>1, <2>5, <2>6, <2>7, LocksInv DEF ReadRatings
<1>4. CASE ~(PlayersOf(q.match) \subseteq verified)
  BY <1>1, <1>2, <1>4, AbandonedInv DEF ReadRatings
<1> QED BY <1>3, <1>4

-----------------------------------------------------------------------------
(* The writes.                                                             *)

OfMatch(m) == {e \in LedgerEntry : e.kind = "match" /\ e.match = m}
RatedFor(p, m) ==
  Cardinality({i \in DOMAIN ledger[p] : ledger[p][i].kind = "match" /\ ledger[p][i].match = m})

\* The entry begins where the ledger of the player ends.
Continues(p, x) ==
  /\ x \in LedgerEntry /\ x.before = rating[p]
  /\ x.kind = "match" => x.count = RatedBefore(p)

\* The ledgers of the players of S get an entry each, from their rating and
\* the count of matches before it.
LedgersGet(S, e) ==
  /\ \A p \in S : Continues(p, e[p])
  /\ rating' = [p \in Rateable |-> IF p \in S THEN e[p].after ELSE rating[p]]
  /\ ledger' = [p \in Rateable |-> IF p \in S THEN Append(ledger[p], e[p]) ELSE ledger[p]]

\* The ledgers are sound as before, and longer by those entries.
LedgersGot(S, e) ==
  /\ rating' \in [Rateable -> 0..MaxRating] /\ ledger' \in [Rateable -> Seq(LedgerEntry)]
  /\ RatingIsItsLedger' /\ RatedCountIsExact'
  /\ \A p \in Rateable : \A m \in Results :
       /\ RatedFor(p, m) \in Nat
       /\ RatedFor(p, m)' = RatedFor(p, m)
            + (IF p \in S /\ e[p].kind = "match" /\ e[p].match = m THEN 1 ELSE 0)

LEMMA LedgersGrow ==
  ASSUME RatingsInv, NEW S, NEW e, S \subseteq Rateable, LedgersGet(S, e)
  PROVE  LedgersGot(S, e)
<1>1. \A p \in Rateable : /\ rating[p] \in 0..MaxRating /\ ledger[p] \in Seq(LedgerEntry)
                          /\ Chained(ledger[p]) /\ CountsAreExact(ledger[p])
                          /\ ledger[p] # <<>> => rating[p] = ledger[p][Len(ledger[p])].after
  BY DEF RatingsInv, RatingsTyped, RatingIsItsLedger, RatedCountIsExact, Chained, CountsAreExact
<1>2. \A p \in S : p \in Rateable /\ Continues(p, e[p])
  BY Zenon DEF LedgersGet
<1>3. \A p \in S : rating'[p] = e[p].after /\ ledger'[p] = Append(ledger[p], e[p])
  BY <1>2 DEF LedgersGet
<1>4. \A p \in Rateable \ S : rating'[p] = rating[p] /\ ledger'[p] = ledger[p]
  BY DEF LedgersGet
<1>5. \A p \in S : e[p] \in LedgerEntry
  BY <1>2 DEF Continues
<1>6. \A p \in Rateable : /\ SoundLog(ledger[p])
                          /\ ledger[p] # <<>> => rating[p] = ledger[p][Len(ledger[p])].after
  BY <1>1 DEF SoundLog
<1>7. \A p \in Rateable : /\ SoundLog(ledger'[p])
                          /\ ledger'[p] # <<>> => rating'[p] = ledger'[p][Len(ledger'[p])].after
  <2> SUFFICES ASSUME NEW p \in Rateable
        PROVE /\ SoundLog(ledger'[p])
              /\ ledger'[p] # <<>> => rating'[p] = ledger'[p][Len(ledger'[p])].after
    OBVIOUS
  <2>1. CASE p \in S
    <3>1. PICK log, x, new : log = ledger[p] /\ x = e[p] /\ new = Append(log, x)
      OBVIOUS
    <3>2. SoundLog(log) /\ (log # <<>> => rating[p] = log[Len(log)].after)
      BY <1>6, <3>1
    <3>3. /\ x \in LedgerEntry /\ x.before = rating[p]
          /\ x.kind = "match" => x.count = Cardinality({i \in DOMAIN log : log[i].kind = "match"})
      BY <1>2, <2>1, <3>1 DEF Continues, RatedBefore
    <3>4. SoundLog(new) /\ new # <<>> /\ new[Len(new)].after = x.after
      <4>1. /\ log \in Seq(LedgerEntry) /\ Chained(log) /\ CountsAreExact(log)
            /\ log # <<>> => x.before = log[Len(log)].after
        BY <3>2, <3>3 DEF SoundLog
      <4> QED BY <3>1, <3>3, <4>1, LogGrows
    <3>5. ledger'[p] = new /\ rating'[p] = x.after
      BY <1>3, <2>1, <3>1
    <3> QED BY <3>4, <3>5
  <2>2. CASE p \notin S
    BY <1>4, <1>6, <2>2
  <2> QED BY <2>1, <2>2
<1>8. RatingIsItsLedger' /\ RatedCountIsExact'
  BY <1>7 DEF RatingIsItsLedger, RatedCountIsExact, SoundLog, Chained, CountsAreExact
<1>9. \A log : SoundLog(log) => \A m \in Results :
        {i \in DOMAIN log : log[i].kind = "match" /\ log[i].match = m} = Among(log, OfMatch(m))
  <2> SUFFICES ASSUME NEW log \in Seq(LedgerEntry), NEW m \in Results
      PROVE {i \in DOMAIN log : log[i].kind = "match" /\ log[i].match = m} = Among(log, OfMatch(m))
    BY DEF SoundLog
  <2>1. \A i \in DOMAIN log : log[i] \in LedgerEntry
    OBVIOUS
  <2> QED BY <2>1 DEF Among, OfMatch
<1>10. \A p \in Rateable : \A m \in Results :
        /\ RatedFor(p, m) = Cardinality(Among(ledger[p], OfMatch(m)))
        /\ RatedFor(p, m)' = Cardinality(Among(ledger'[p], OfMatch(m)))
  BY <1>6, <1>7, <1>9 DEF RatedFor
<1>11. \A p \in Rateable : \A m \in Results :
        /\ RatedFor(p, m) \in Nat
        /\ RatedFor(p, m)' = RatedFor(p, m)
             + (IF p \in S /\ e[p].kind = "match" /\ e[p].match = m THEN 1 ELSE 0)
  <2> SUFFICES ASSUME NEW p \in Rateable, NEW m \in Results
        PROVE /\ RatedFor(p, m) \in Nat
              /\ RatedFor(p, m)' = RatedFor(p, m)
                   + (IF p \in S /\ e[p].kind = "match" /\ e[p].match = m THEN 1 ELSE 0)
    OBVIOUS
  <2>1. PICK log, T, n : log = ledger[p] /\ T = OfMatch(m) /\ n = RatedFor(p, m)
    OBVIOUS
  <2>2. log \in Seq(LedgerEntry) /\ n = Cardinality(Among(log, T))
    BY <1>6, <1>10, <2>1 DEF SoundLog
  <2>3. CASE p \in S
    <3>1. PICK x : x = e[p]
      OBVIOUS
    <3>2. x \in LedgerEntry /\ ledger'[p] = Append(log, x)
      BY <1>3, <1>5, <2>1, <2>3, <3>1
    <3>3. n \in Nat /\ Cardinality(Among(Append(log, x), T)) = n + (IF x \in T THEN 1 ELSE 0)
      BY <2>2, <3>2, AmongAppended
    <3>4. x \in T <=> x.kind = "match" /\ x.match = m
      BY <2>1, <3>2 DEF OfMatch
    <3>5. RatedFor(p, m)' = n + (IF x \in T THEN 1 ELSE 0)
      BY <1>10, <2>1, <3>2, <3>3
    <3> QED BY <2>1, <2>3, <3>1, <3>3, <3>4, <3>5
  <2>4. CASE p \notin S
    <3>1. RatedFor(p, m)' = n
      BY <1>4, <1>10, <2>1, <2>2, <2>4
    <3>2. Among(log, T) \subseteq 1..Len(log) /\ Len(log) \in Nat
      BY <2>2 DEF Among
    <3>3. IsFiniteSet(1..Len(log))
      BY <3>2, FS_Interval
    <3>4. n \in Nat
      BY <2>2, <3>2, <3>3, FS_Subset, FS_CardinalityType
    <3> QED BY <2>1, <2>4, <3>1, <3>4
  <2> QED BY <2>3, <2>4
<1>12. rating' \in [Rateable -> 0..MaxRating]
  <2>1. \A x \in LedgerEntry : x.after \in 0..MaxRating
    BY DEF LedgerEntry
  <2>2. \A p \in Rateable : rating'[p] \in 0..MaxRating
    <3> SUFFICES ASSUME NEW p \in Rateable PROVE rating'[p] \in 0..MaxRating
      OBVIOUS
    <3>1. CASE p \in S
      BY <1>3, <1>5, <2>1, <3>1
    <3>2. CASE p \notin S
      BY <1>1, <1>4, <3>2
    <3> QED BY <3>1, <3>2
  <2> QED BY <2>2 DEF LedgersGet
<1>13. ledger' \in [Rateable -> Seq(LedgerEntry)]
  <2>1. \A p \in Rateable : ledger'[p] \in Seq(LedgerEntry)
    BY <1>7 DEF SoundLog
  <2> QED BY <2>1 DEF LedgersGet
<1> QED BY <1>8, <1>11, <1>12, <1>13 DEF LedgersGot

LEMMA SetRatingInv ==
  ASSUME RatingsInv, NEW p \in Rateable, NEW value \in AdminRatings, NEW verify \in BOOLEAN,
         SetRating(p, value, verify)
  PROVE  RatingsInv'
<1>1. PICK x : x = [kind |-> "admin", before |-> rating[p], after |-> value]
  OBVIOUS
<1>2. rating[p] \in 0..MaxRating /\ value \in 0..MaxRating
  BY RatingsAssumption DEF RatingsInv, RatingsTyped
<1>3. x \in LedgerEntry /\ x.before = rating[p] /\ x.kind = "admin" /\ x.after = value
  BY <1>1, <1>2 DEF LedgerEntry
<1>4. PICK e : e = [q \in {p} |-> x]
  OBVIOUS
<1>5. /\ rating' = [q \in Rateable |-> IF q \in {p} THEN e[q].after ELSE rating[q]]
      /\ ledger' = [q \in Rateable |-> IF q \in {p} THEN Append(ledger[q], e[q]) ELSE ledger[q]]
      /\ RatingFree(p) /\ UNCHANGED <<result, completed, applied, resolver>>
  BY <1>1, <1>3, <1>4 DEF SetRating, RatingsInv, RatingsTyped
<1>6. LedgersGot({p}, e)
  <2>1. LedgersGet({p}, e)
    BY <1>3, <1>4, <1>5 DEF LedgersGet, Continues
  <2> QED BY <2>1, LedgersGrow
<1>7. \A q \in Rateable : \A m \in Results : RatedFor(q, m)' = RatedFor(q, m)
  BY <1>3, <1>4, <1>6 DEF LedgersGot
<1>8. RatedOnce'
  <2>1. RatedOnce <=> \A m \in Results : \A q \in PlayersOf(m) :
          RatedFor(q, m) = IF m \in Rated /\ result[m] = "confirmed" THEN 1 ELSE 0
    BY DEF RatedOnce, RatedFor
  <2>2. RatedOnce' <=> \A m \in Results : \A q \in PlayersOf(m) :
          RatedFor(q, m)' = IF m \in Rated /\ result'[m] = "confirmed" THEN 1 ELSE 0
    BY DEF RatedOnce, RatedFor
  <2>3. \A m \in Results : \A q \in PlayersOf(m) : RatedFor(q, m)' = RatedFor(q, m)
    BY <1>7, AccountsAreNumbers
  <2> QED BY <1>5, <2>1, <2>2, <2>3 DEF RatingsInv
<1>9. \A r \in Resolvers : Serves(resolver[r])'
  <2> SUFFICES ASSUME NEW r \in Resolvers PROVE Serves(resolver[r])'
    OBVIOUS
  <2>1. PICK q : q = resolver[r]
    OBVIOUS
  <2>2. CASE q.pc = "write"
    <3>1. Serves(q) /\ q.match \in Results
      BY <2>1, <2>2, SentFacts DEF RatingsInv
    <3>2. PlayersOf(q.match) \subseteq Rateable /\ p \notin PlayersOf(q.match)
      BY <1>5, <2>1, <2>2, <3>1, AccountsAreNumbers DEF RatingFree, LockedBy, Serves, Holders
    <3>3. \A o \in PlayersOf(q.match) : rating'[o] = rating[o] /\ RatedBefore(o)' = RatedBefore(o)
      BY <1>5, <3>2 DEF RatedBefore
    <3> QED BY <1>5, <2>1, <3>1, <3>3 DEF Serves
  <2>3. CASE q.pc # "write"
    BY <1>5, <2>1, <2>3 DEF RatingsInv, Serves
  <2> QED BY <2>2, <2>3
<1>10. \A r, q \in Resolvers : r # q => Apart(resolver[r], resolver[q])'
  BY <1>5 DEF RatingsInv, Apart
<1> QED BY <1>5, <1>6, <1>8, <1>9, <1>10 DEF RatingsInv, RatingsTyped, CommandsAreUnique, LedgersGot

\* A change of a rating stays within its bounds.
LEMMA AfterIsARating ==
  ASSUME NEW p, NEW m, NEW before \in 0..MaxRating, NEW count \in Nat
  PROVE  After(p, m, before, count) \in 0..MaxRating
<1>1. PICK f : f = Factor(count) /\ f \in 1..2
  BY DEF Factor
<1>2. MaxRating \in Nat /\ before + f \in Nat /\ 0 \in Nat /\ before - f \in Int
  BY <1>1, RatingsAssumption
<1>3. PICK u, d : u = before + f /\ d = before - f
  OBVIOUS
<1>4. Min({MaxRating, u}) = (IF MaxRating <= u THEN MaxRating ELSE u)
  BY <1>2, <1>3, TwoElements
<1>5. Max({0, d}) = (IF 0 <= d THEN d ELSE 0)
  <2>1. 0 \in Int /\ d \in Int
    BY <1>2, <1>3
  <2> QED BY ONLY <2>1, TwoElements
<1>6. After(p, m, before, count) = Min({MaxRating, u}) \/ After(p, m, before, count) = Max({0, d})
  BY <1>1, <1>3 DEF After
<1> QED BY <1>1, <1>2, <1>3, <1>4, <1>5, <1>6

LEMMA WriteRatingsInv ==
  ASSUME RatingsInv, NEW r \in Resolvers, WriteRatings(r)
  PROVE  RatingsInv'
<1>1. PICK q, m, S : q = resolver[r] /\ m = q.match /\ S = PlayersOf(m)
  OBVIOUS
<1>2. /\ q \in Resolver /\ q.pc = "write" /\ m \in Results /\ Serves(q) /\ q.pc \in Holders
      /\ q.type = "confirmed" /\ q.actor \in Rateable /\ q.command \in Commands
      /\ m \in Rated /\ result[m] = "submitted" /\ S \subseteq Rateable /\ q.locked = S
  BY <1>1, SentFacts, AccountsAreNumbers DEF WriteRatings, RatingsInv, RatingsTyped, Serves, Holders
<1>3. CASE ~(Unmoved(r) /\ Known(r) = {})
  BY <1>1, <1>2, <1>3, AbandonedInv DEF WriteRatings
<1>4. CASE Unmoved(r) /\ Known(r) = {}
  <2>1. PICK x : x = [pc |-> "applied", type |-> q.type, actor |-> q.actor, match |-> q.match,
                      command |-> q.command]
    OBVIOUS
  <2>2. x \in Resolver /\ x.pc \notin Holders
    <3>1. x \in Resolver
      BY ONLY <1>1, <1>2, <2>1 DEF Resolver, ResolverEnds, ResultVerdict
    <3> QED BY <2>1, <3>1 DEF Holders
  <2>3. /\ Resolve(r) /\ resolver' = [resolver EXCEPT ![r] = x]
        /\ rating' = [p \in Rateable |-> IF p \in S THEN RatingEntry(r, p).after ELSE rating[p]]
        /\ ledger' = [p \in Rateable |->
             IF p \in S THEN Append(ledger[p], RatingEntry(r, p)) ELSE ledger[p]]
    BY <1>1, <1>4, <2>1 DEF WriteRatings
  <2>4. PICK e : e = [p \in S |-> RatingEntry(r, p)]
    OBVIOUS
  <2>5. \A p \in S : /\ e[p] \in LedgerEntry /\ e[p].before = rating[p] /\ e[p].kind = "match"
                     /\ e[p].count = RatedBefore(p) /\ e[p].match = m
    <3> SUFFICES ASSUME NEW p \in S
        PROVE /\ e[p] \in LedgerEntry /\ e[p].before = rating[p] /\ e[p].kind = "match"
              /\ e[p].count = RatedBefore(p) /\ e[p].match = m
      OBVIOUS
    <3>1. rating[p] \in 0..MaxRating /\ ledger[p] \in Seq(LedgerEntry)
      BY <1>2 DEF RatingsInv, RatingsTyped
    <3>2. RatedBefore(p) \in Nat
      <4>1. IsFiniteSet(1..Len(ledger[p]))
        BY <3>1, FS_Interval
      <4>2. {i \in DOMAIN ledger[p] : ledger[p][i].kind = "match"} \subseteq 1..Len(ledger[p])
        BY <3>1
      <4> QED BY <4>1, <4>2, FS_Subset, FS_CardinalityType DEF RatedBefore
    <3>3. q.before[p] = rating[p] /\ q.count[p] = RatedBefore(p)
      BY <1>1, <1>2 DEF Serves
    <3>4. After(p, m, rating[p], RatedBefore(p)) \in 0..MaxRating
      BY <3>1, <3>2, AfterIsARating
    <3>5. e[p] = [kind |-> "match", match |-> m, before |-> rating[p], count |-> RatedBefore(p),
                  after |-> After(p, m, rating[p], RatedBefore(p))]
      BY <1>1, <2>4, <3>3 DEF RatingEntry
    <3> QED BY <1>2, <3>1, <3>2, <3>4, <3>5 DEF LedgerEntry
  <2>6. LedgersGot(S, e)
    <3>1. /\ rating' = [p \in Rateable |-> IF p \in S THEN e[p].after ELSE rating[p]]
          /\ ledger' = [p \in Rateable |-> IF p \in S THEN Append(ledger[p], e[p]) ELSE ledger[p]]
      BY <2>3, <2>4
    <3>2. LedgersGet(S, e)
      BY <2>5, <3>1 DEF LedgersGet, Continues
    <3> QED BY <1>2, <3>2, LedgersGrow
  <2>7. \A t \in Resolvers \ {r} :
          resolver[t].pc \in Holders => resolver[t].match # m /\ resolver[t].locked \cap S = {}
    <3>1. \A t \in Resolvers \ {r} : Apart(resolver[t], resolver[r])
      BY DEF RatingsInv
    <3> QED BY <1>1, <1>2, <3>1 DEF Apart
  <2>8. /\ DOMAIN result' = Results
        /\ \A n \in Results : result'[n] = IF n = m THEN q.type ELSE result[n]
        /\ CommandsAreUnique'
        /\ \A t \in Resolvers : resolver'[t] = IF t = r THEN x ELSE resolver[t]
        /\ \A s, t \in Resolvers : s # t => Apart(resolver[s], resolver[t])'
        /\ resolver' \in [Resolvers -> Resolver]
    <3>1. \A t \in Resolvers \ {r} :
            resolver[t].pc \in Holders => resolver[t].match # resolver[r].match
      BY <1>1, <2>7
    <3>2. resolver[r].pc # "unsent" /\ resolver[r].match = m /\ resolver[r].type = q.type
      BY <1>1, <1>2
    <3>3. Resolve(r) /\ Known(r) = {} /\ resolver' = [resolver EXCEPT ![r] = x]
      BY <1>4, <2>3
    <3>4. /\ DOMAIN result' = Results
          /\ \A n \in Results : result'[n] = IF n = resolver[r].match THEN resolver[r].type ELSE result[n]
          /\ CommandsAreUnique'
          /\ \A t \in Resolvers : resolver'[t] = IF t = r THEN x ELSE resolver[t]
          /\ \A s, t \in Resolvers : s # t => Apart(resolver[s], resolver[t])'
          /\ resolver' \in [Resolvers -> Resolver]
      BY <2>2, <3>1, <3>2, <3>3, ResultResolves
    <3> QED BY <3>2, <3>4
  <2>9. \A t \in Resolvers : Serves(resolver[t])'
    <3> SUFFICES ASSUME NEW t \in Resolvers PROVE Serves(resolver[t])'
      OBVIOUS
    <3>1. PICK y : y = resolver'[t]
      OBVIOUS
    <3>2. CASE y.pc \in Holders
      <4>1. t # r /\ y = resolver[t] /\ Serves(y) /\ y.match # m /\ y.locked \cap S = {}
        BY <2>2, <2>7, <2>8, <3>1, <3>2 DEF RatingsInv
      <4>2. y.match \in Results /\ PlayersOf(y.match) \subseteq Rateable
        BY <3>2, <4>1, SentFacts, AccountsAreNumbers DEF Holders
      <4>3. y.pc = "write" => \A p \in PlayersOf(y.match) :
              rating'[p] = rating[p] /\ RatedBefore(p)' = RatedBefore(p)
        <5> SUFFICES ASSUME y.pc = "write", NEW p \in PlayersOf(y.match)
                     PROVE  rating'[p] = rating[p] /\ RatedBefore(p)' = RatedBefore(p)
          OBVIOUS
        <5>1. p \in Rateable /\ p \notin S
          BY <3>2, <4>1, <4>2 DEF Serves
        <5> QED BY <2>3, <5>1 DEF RatedBefore
      <4> QED BY <2>8, <3>1, <4>1, <4>2, <4>3 DEF Serves
    <3> QED BY <3>1, <3>2 DEF Serves
  <2>10. RatedOnce'
    <3>1. RatedOnce <=> \A n \in Results : \A p \in PlayersOf(n) :
            RatedFor(p, n) = IF n \in Rated /\ result[n] = "confirmed" THEN 1 ELSE 0
      BY DEF RatedOnce, RatedFor
    <3>2. RatedOnce' <=> \A n \in Results : \A p \in PlayersOf(n) :
            RatedFor(p, n)' = IF n \in Rated /\ result'[n] = "confirmed" THEN 1 ELSE 0
      BY DEF RatedOnce, RatedFor
    <3> SUFFICES ASSUME NEW n \in Results, NEW p \in PlayersOf(n)
        PROVE RatedFor(p, n)' = IF n \in Rated /\ result'[n] = "confirmed" THEN 1 ELSE 0
      BY <3>2
    <3>3. p \in Rateable /\ RatedFor(p, n) = IF n \in Rated /\ result[n] = "confirmed" THEN 1 ELSE 0
      BY <3>1, AccountsAreNumbers DEF RatingsInv
    <3>4. PICK k : k = RatedFor(p, n)
      OBVIOUS
    <3>5. RatedFor(p, n)' = k + (IF p \in S /\ e[p].kind = "match" /\ e[p].match = n THEN 1 ELSE 0)
      BY <2>6, <3>3, <3>4 DEF LedgersGot
    <3>6. CASE n = m
      <4>1. p \in S /\ e[p].kind = "match" /\ e[p].match = n
        BY <1>1, <2>5, <3>6
      <4>2. k = 0 /\ n \in Rated /\ result'[n] = "confirmed"
        BY <1>2, <2>8, <3>3, <3>4, <3>6
      <4> QED BY <3>5, <4>1, <4>2
    <3>7. CASE n # m
      <4>1. k \in Nat /\ ~(p \in S /\ e[p].kind = "match" /\ e[p].match = n)
        BY <2>5, <2>6, <3>3, <3>4, <3>7 DEF LedgersGot
      <4> QED BY <2>8, <3>3, <3>4, <3>5, <3>7, <4>1
    <3> QED BY <3>6, <3>7
  <2>11. RatingsTyped'
    BY <2>6, <2>8 DEF RatingsTyped, LedgersGot
  <2> QED BY <2>6, <2>8, <2>9, <2>10, <2>11 DEF RatingsInv, LedgersGot
<1> QED BY <1>3, <1>4

LEMMA RatingsStep == RatingsInv /\ [RatingsNext]_ratingsVars => RatingsInv'
<1> SUFFICES ASSUME RatingsInv, [RatingsNext]_ratingsVars PROVE RatingsInv'
  OBVIOUS
<1>1. ASSUME NEW r \in Resolvers, FailResolution(r) PROVE RatingsInv'
  BY <1>1, AbandonedInv DEF FailResolution, Holders
<1>2. CASE UNCHANGED ratingsVars
  <2>1. \A p : RatedBefore(p)' = RatedBefore(p)
    BY <1>2 DEF ratingsVars, RatedBefore
  <2>2. \A r \in Resolvers : Serves(resolver[r])'
    <3> SUFFICES ASSUME NEW r \in Resolvers PROVE Serves(resolver[r])'
      OBVIOUS
    <3>1. PICK q : q = resolver[r] /\ Serves(q)
      BY DEF RatingsInv
    <3> QED BY <1>2, <2>1, <3>1 DEF ratingsVars, Serves
  <2>3. RatedOnce'
    BY <1>2 DEF ratingsVars, RatingsInv, RatedOnce
  <2>4. RatingsTyped' /\ \A r, q \in Resolvers : r # q => Apart(resolver[r], resolver[q])'
    BY <1>2 DEF ratingsVars, RatingsInv, RatingsTyped, Apart
  <2>5. RatingIsItsLedger' /\ RatedCountIsExact' /\ CommandsAreUnique'
    BY <1>2 DEF ratingsVars, RatingsInv, RatingIsItsLedger, RatedCountIsExact, CommandsAreUnique
  <2> QED BY <2>2, <2>3, <2>4, <2>5 DEF RatingsInv
<1> QED BY <1>1, <1>2, SendResolutionInv, LockMatchInv, LockRatingInv, ReadRatingsInv,
           WriteRatingsInv, SetRatingInv DEF RatingsNext, ResultVerdict

\* Who locks in the order of the accounts never waits in a circle.
LEMMA LocksAreOrdered == RatingsInv => NoLockCycle
<1> SUFFICES ASSUME RatingsInv, NEW r \in Resolvers, NEW q \in Resolvers,
                    Blocks(r, q), Blocks(q, r)
             PROVE  FALSE
  BY DEF NoLockCycle
<1>1. PICK x, y, n, o : x = resolver[r] /\ y = resolver[q] /\ n = NextRating(r) /\ o = NextRating(q)
  OBVIOUS
<1>2. /\ x.pc = "lock" /\ y.pc = "lock" /\ LockedBy(r) = x.locked /\ LockedBy(q) = y.locked
      /\ Serves(x) /\ Serves(y) /\ x.match \in Results /\ y.match \in Results
  BY <1>1, SentFacts DEF Blocks, LockedBy, Holders, RatingsInv
<1>3. /\ n \in PlayersOf(x.match) \ x.locked /\ o \in PlayersOf(y.match) \ y.locked
      /\ n \in y.locked /\ o \in x.locked
  BY <1>1, <1>2, NextFacts DEF Blocks
<1>4. n < o /\ o < n
  BY <1>2, <1>3 DEF Serves, Holders
<1>5. n \in Nat /\ o \in Nat
  BY <1>2, <1>3, AccountsAreNumbers
<1> QED BY <1>4, <1>5

\* Whatever confirmations, disputes, retries and settings cross each other, a
\* match is rated once, from the ratings and the counts before it, each rating
\* is what its ledger says, and the row locks never wait in a circle.
THEOREM RatingsAreAlwaysExact == RatingsSpec => []RatingsAreExact
<1>1. RatingsInv => RatingsAreExact
  BY LocksAreOrdered DEF RatingsInv, RatingsAreExact
<1> QED BY <1>1, RatingsInitially, RatingsStep, PTL DEF RatingsSpec

\* What the results of the matches keep of themselves.
ResultsTyped ==
  /\ result \in [Results -> {"submitted", "confirmed", "disputed"}]
  /\ completed \subseteq Results /\ verified \subseteq Rateable

LEMMA ResultsStay ==
  ASSUME RatingsInv, ResultsTyped, [RatingsNext]_ratingsVars PROVE ResultsTyped'
<1>1. CASE UNCHANGED <<result, completed, verified>>
  BY <1>1 DEF ResultsTyped
<1>2. ASSUME NEW r \in Resolvers, resolver[r].pc # "unsent", Resolve(r), UNCHANGED verified
      PROVE  ResultsTyped'
  <2>1. resolver[r].match \in Results /\ resolver[r].type \in ResultVerdict
    BY <1>2 DEF RatingsInv, RatingsTyped, Resolver
  <2> QED BY <1>2, <2>1 DEF Resolve, ResultsTyped, ResultVerdict
<1>3. ASSUME NEW p \in Rateable, NEW value, NEW verify, SetRating(p, value, verify) PROVE ResultsTyped'
  BY <1>3 DEF SetRating, ResultsTyped
<1>4. ASSUME NEW r \in Resolvers, LockMatch(r) PROVE ResultsTyped'
  BY <1>1, <1>2, <1>4 DEF LockMatch
<1>5. ASSUME NEW r \in Resolvers, WriteRatings(r) PROVE ResultsTyped'
  BY <1>1, <1>2, <1>5 DEF WriteRatings
<1> QED BY <1>1, <1>3, <1>4, <1>5
    DEF RatingsNext, ratingsVars, SendResolution, LockRating, ReadRatings, FailResolution

\* RatingsTypeOK, of every set of results, resolvers and commands, and of every
\* bound of the ratings.
THEOREM RatingsAreTyped == RatingsSpec => []RatingsTypeOK
<1>1. RatingsInit => ResultsTyped
  BY DEF RatingsInit, ResultsTyped
<1>2. RatingsInv /\ ResultsTyped => RatingsTypeOK
  <2> SUFFICES ASSUME RatingsInv, ResultsTyped, NEW r \in Resolvers
               PROVE  resolver[r].pc \in {"unsent", "match", "applied", "retried", "rejected", "failed"} \cup Holders
    BY DEF RatingsTypeOK, RatingsInv, RatingsTyped, ResultsTyped
  <2>1. resolver[r] \in Resolver
    BY DEF RatingsInv, RatingsTyped
  <2> QED BY <2>1 DEF Resolver, ResolverEnds, Holders
<1> QED BY <1>1, <1>2, RatingsInitially, RatingsStep, ResultsStay, PTL DEF RatingsSpec
=============================================================================
