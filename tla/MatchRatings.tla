----------------------------- MODULE MatchRatings -----------------------------
(***************************************************************************)
(* What becomes of the submitted results of matches: an opponent confirms  *)
(* one, or another player of the match disputes it.  The confirmation of a *)
(* rating match moves the ratings of its four players, whom other matches  *)
(* share, in the same transaction; administrators set ratings meanwhile.   *)
(* A transaction locks the match, then the rating rows of the players in   *)
(* the order of their accounts, then reads, then writes.                   *)
(* The expected score is left out of a rating's change: it is the factor   *)
(* of the player, and the sign says who won.                               *)
(***************************************************************************)
EXTENDS Integers, Sequences, FiniteSets, FiniteSetsExt, SequencesExt

CONSTANTS Resolvers,   \* requests to confirm or dispute
          Results,     \* the matches with a submitted result
          Winners, Losers,  \* the players of each match; accounts are numbers
          Submitter,   \* who submitted each result
          Rated,       \* is_rating_match
          Commands,    \* command ids
          MaxRating,   \* MAX_RATING_CENTS, in steps
          Provisional, \* matches a player is rated with the greater factor
          AdminRatings, \* the ratings administrators set
          MaxSettings  \* bound on how often they do

ASSUME RatingsAssumption ==
  /\ MaxRating \in Nat /\ AdminRatings \subseteq 0..MaxRating /\ Provisional \in Nat /\ MaxSettings \in Nat
  /\ \A m \in Results :
       /\ Winners[m] \cup Losers[m] \subseteq Nat /\ Winners[m] \cap Losers[m] = {}
       /\ Submitter[m] \in Winners[m]

VARIABLES
  result,       \* match_results.status
  completed,    \* the matches with the status "completed"
  applied,      \* match_result_commands
  rating,       \* player_rating_states.rating
  verified,     \* player_rating_states.is_verified
  ledger,       \* match_rating_changes and player_rating_admin_commands, in order
  resolver,     \* where each request is
  settings      \* what the administrators did so far

ratingsVars == <<result, completed, applied, rating, verified, ledger, resolver, settings>>

PlayersOf(m) == Winners[m] \cup Losers[m]
Rateable == UNION {PlayersOf(m) : m \in Results}

RatingsInit ==
  /\ result = [m \in Results |-> "submitted"]
  /\ completed = {} /\ applied = {}
  /\ rating = [p \in Rateable |-> MaxRating]
  /\ verified = Rateable
  /\ ledger = [p \in Rateable |-> <<>>]
  /\ resolver = [r \in Resolvers |-> [pc |-> "unsent"]]
  /\ settings = 0

-----------------------------------------------------------------------------
Holders == {"lock", "read", "write"}

\* A request that runs holds its match, and the rating rows it has locked.
HoldsMatch(m) == \E r \in Resolvers : resolver[r].pc \in Holders /\ resolver[r].match = m
LockedBy(r) == IF resolver[r].pc \in Holders THEN resolver[r].locked ELSE {}

\* mutant of RatingFree: the rating rows are not locked
RatingFreeAlways(p) == p \in Rateable
RatingFree(p) == \A r \in Resolvers : p \notin LockedBy(r)

ResolverAt(r, pc) == [resolver EXCEPT ![r].pc = pc]

SendResolution(r, type, actor, m, key) ==
  /\ resolver[r].pc = "unsent"
  /\ resolver' = [resolver EXCEPT ![r] =
       [pc |-> "match", type |-> type, actor |-> actor, match |-> m, command |-> key]]
  /\ UNCHANGED <<result, completed, applied, rating, verified, ledger, settings>>

CommandOf(r) == [command |-> resolver[r].command, type |-> resolver[r].type,
               actor |-> resolver[r].actor, match |-> resolver[r].match]

Known(r) == {c \in applied : c.command = resolver[r].command}

TeamOf(p, m) == IF p \in Winners[m] THEN Winners[m] ELSE Losers[m]

MayResolve(r) ==
  LET q == resolver[r]
  IN /\ result[q.match] = "submitted" /\ q.match \notin completed
     /\ q.type = "confirmed" => q.actor \in PlayersOf(q.match) \ TeamOf(Submitter[q.match], q.match)
     /\ q.type = "disputed" => q.actor \in PlayersOf(q.match) \ {Submitter[q.match]}

Rates(r) == resolver[r].type = "confirmed" /\ resolver[r].match \in Rated

\* What the writes of a transaction leave behind, besides the ratings.
Resolve(r) ==
  /\ result' = [result EXCEPT ![resolver[r].match] = resolver[r].type]
  /\ completed' = IF resolver[r].type = "confirmed"
                  THEN completed \cup {resolver[r].match} ELSE completed
  /\ applied' = applied \cup {CommandOf(r)}

\* The row of the match is locked first; its result and command are read
\* under the lock.  A command of another match may be inserted meanwhile:
\* its key decides at the end.
LockMatch(r) ==
  /\ resolver[r].pc = "match" /\ ~HoldsMatch(resolver[r].match)
  /\ UNCHANGED <<rating, verified, ledger, settings>>
  /\ IF Known(r) # {} \/ ~MayResolve(r)
     THEN /\ resolver' = ResolverAt(r, IF CommandOf(r) \in Known(r) THEN "retried" ELSE "rejected")
          /\ UNCHANGED <<result, completed, applied>>
     ELSE IF Rates(r)
     THEN /\ resolver' = [resolver EXCEPT ![r] =
               [pc |-> "lock", type |-> @.type, actor |-> @.actor, match |-> @.match,
                command |-> @.command, locked |-> {}]]
          /\ UNCHANGED <<result, completed, applied>>
     ELSE Resolve(r) /\ resolver' = ResolverAt(r, "applied")

NextRating(r) == Min(PlayersOf(resolver[r].match) \ resolver[r].locked)

LockRating(r) ==
  /\ resolver[r].pc = "lock"
  /\ IF LockedBy(r) = PlayersOf(resolver[r].match)
     THEN resolver' = ResolverAt(r, "read")
     ELSE /\ RatingFree(NextRating(r))
          /\ resolver' = [resolver EXCEPT ![r].locked = @ \cup {NextRating(r)}]
  /\ UNCHANGED <<result, completed, applied, rating, verified, ledger, settings>>

RatedBefore(p) == Cardinality({i \in DOMAIN ledger[p] : ledger[p][i].kind = "match"})

Abandoned(r) == resolver' = [resolver EXCEPT ![r] =
  [pc |-> "failed", type |-> @.type, actor |-> @.actor, match |-> @.match, command |-> @.command]]

\* The ratings and the counts of matches; an unverified player is an error.
ReadRatings(r) ==
  /\ resolver[r].pc = "read"
  /\ IF PlayersOf(resolver[r].match) \subseteq verified
     THEN resolver' = [resolver EXCEPT ![r] =
            [pc |-> "write", type |-> @.type, actor |-> @.actor, match |-> @.match,
             command |-> @.command, locked |-> @.locked,
             before |-> [p \in PlayersOf(@.match) |-> rating[p]],
             count |-> [p \in PlayersOf(@.match) |-> RatedBefore(p)]]]
     ELSE Abandoned(r)
  /\ UNCHANGED <<result, completed, applied, rating, verified, ledger, settings>>

Factor(count) == IF count < Provisional THEN 2 ELSE 1

After(p, m, before, count) ==
  IF p \in Winners[m] THEN Min({MaxRating, before + Factor(count)})
  ELSE Max({0, before - Factor(count)})

RatingEntry(r, p) ==
  LET q == resolver[r]
  IN [kind |-> "match", match |-> q.match, before |-> q.before[p], count |-> q.count[p],
      after |-> After(p, q.match, q.before[p], q.count[p])]

\* A rating that is not the one that was read fails the update.
Unmoved(r) == \A p \in PlayersOf(resolver[r].match) : rating[p] = resolver[r].before[p]

WriteRatings(r) ==
  LET m == resolver[r].match
  IN /\ resolver[r].pc = "write"
     /\ UNCHANGED <<verified, settings>>
     /\ IF Unmoved(r) /\ Known(r) = {}
        THEN /\ Resolve(r)
             /\ rating' = [p \in Rateable |->
                  IF p \in PlayersOf(m) THEN RatingEntry(r, p).after ELSE rating[p]]
             /\ ledger' = [p \in Rateable |->
                  IF p \in PlayersOf(m) THEN Append(ledger[p], RatingEntry(r, p)) ELSE ledger[p]]
             /\ resolver' = [resolver EXCEPT ![r] =
                  [pc |-> "applied", type |-> @.type, actor |-> @.actor, match |-> @.match,
                   command |-> @.command]]
        ELSE Abandoned(r) /\ UNCHANGED <<result, completed, applied, rating, ledger>>

\* The transaction fails, or its process stops.
FailResolution(r) ==
  /\ resolver[r].pc \in {"match"} \cup Holders
  /\ Abandoned(r)
  /\ UNCHANGED <<result, completed, applied, rating, verified, ledger, settings>>

\* setRatingState locks the one rating row it writes.
SetRating(p, value, verify) ==
  /\ settings < MaxSettings /\ RatingFree(p)
  /\ settings' = settings + 1
  /\ rating' = [rating EXCEPT ![p] = value]
  /\ verified' = IF verify THEN verified \cup {p} ELSE verified \ {p}
  /\ ledger' = [ledger EXCEPT ![p] =
       Append(@, [kind |-> "admin", before |-> rating[p], after |-> value])]
  /\ UNCHANGED <<result, completed, applied, resolver>>

RatingsNext ==
  \/ \E r \in Resolvers :
       \/ \E type \in {"confirmed", "disputed"}, m \in Results, c \in Commands :
            \E actor \in PlayersOf(m) : SendResolution(r, type, actor, m, c)
       \/ LockMatch(r) \/ LockRating(r) \/ ReadRatings(r) \/ WriteRatings(r)
       \/ FailResolution(r)
  \/ \E p \in Rateable, value \in AdminRatings, verify \in BOOLEAN : SetRating(p, value, verify)

RatingsSpec == RatingsInit /\ [][RatingsNext]_ratingsVars

-----------------------------------------------------------------------------
(* Properties                                                              *)

\* Every variable keeps its type; ratings stay within their bounds.
RatingsTypeOK ==
  /\ result \in [Results -> {"submitted", "confirmed", "disputed"}]
  /\ completed \subseteq Results /\ verified \subseteq Rateable
  /\ rating \in [Rateable -> 0..MaxRating]
  /\ \A r \in Resolvers : resolver[r].pc \in
       {"unsent", "match", "applied", "retried", "rejected", "failed"} \cup Holders

\* A player's rating is what the last entry of the ledger made it, and each
\* entry starts where the one before it ended: no update is lost between two
\* matches that share a player, or between a match and an administrator.
RatingIsItsLedger ==
  \A p \in Rateable :
    LET log == ledger[p]
    IN /\ \A i \in 1..Len(log) - 1 : log[i + 1].before = log[i].after
       /\ log # <<>> => rating[p] = log[Len(log)].after

\* An entry counts the matches that were rated before it, also when the rows
\* had to be waited for.
RatedCountIsExact ==
  \A p \in Rateable : \A i \in DOMAIN ledger[p] :
    ledger[p][i].kind = "match" =>
      ledger[p][i].count = Cardinality({j \in 1..i - 1 : ledger[p][j].kind = "match"})

\* A match is rated with its confirmation and once: every player has one
\* entry, and nobody has one for a match that was disputed.
RatedOnce ==
  \A m \in Results : \A p \in PlayersOf(m) :
    Cardinality({i \in DOMAIN ledger[p] : ledger[p][i].kind = "match" /\ ledger[p][i].match = m})
      = IF m \in Rated /\ result[m] = "confirmed" THEN 1 ELSE 0

\* Retries, and requests that race, answer for the one that was applied: each
\* command id is one command.
CommandsAreUnique == \A c, d \in applied : c.command = d.command => c = d

\* Transactions that lock rating rows never wait for each other in a circle.
Blocks(r, q) == resolver[r].pc = "lock" /\ LockedBy(r) # PlayersOf(resolver[r].match)
                /\ NextRating(r) \in LockedBy(q)
NoLockCycle == \A r, q \in Resolvers : r # q => ~(Blocks(r, q) /\ Blocks(q, r))

\* Whatever confirmations, disputes, retries and settings cross each other, a
\* match is rated once, from the ratings and the counts before it, each rating
\* is what its ledger says, and the row locks never wait in a circle.
RatingsAreExact ==
  RatingIsItsLedger /\ RatedCountIsExact /\ RatedOnce /\ CommandsAreUnique /\ NoLockCycle
=============================================================================
