---------------------------- MODULE RequestLimiter ----------------------------
(***************************************************************************)
(* The queue every request to YCLIENTS of one process goes through: each   *)
(* request waits for the promise of the one before it, then for a permit.  *)
(* Starts are remembered by their age, so that time needs no bound: an age *)
(* stops at Minute, where a start no longer counts.  The clock only runs   *)
(* forward.  A timer may fire a tick early or late.                        *)
(***************************************************************************)
EXTENDS Integers, Sequences, FiniteSets, SequencesExt

CONSTANTS Callers,      \* code that makes a request at a time
          Minute,       \* MINUTE_MILLISECONDS, in ticks
          Interval,     \* minimumIntervalMilliseconds, in ticks
          MaxPerMinute, \* maximumRequestsPerMinute
          MaxPending    \* maximumPendingRequests

ASSUME LimiterAssumption ==
  /\ Minute \in Nat \ {0} /\ Interval \in 1..Minute
  /\ MaxPerMinute \in Nat \ {0} /\ MaxPending \in Nat \ {0}

VARIABLES
  chain,          \* the requests accepted and not finished, by their promises
  pending,        \* pendingRequests
  requestStarts,  \* the ages of the starts the limiter remembers
  history,        \* the ages of all starts of the last minute
  turn,           \* where the head of the chain is
  timer           \* ticks until the timer of the head is due

limiterVars == <<chain, pending, requestStarts, history, turn, timer>>

LimiterInit ==
  /\ chain = <<>> /\ pending = 0
  /\ requestStarts = <<>> /\ history = <<>>
  /\ turn = "permit" /\ timer = 0

-----------------------------------------------------------------------------
Accept(c) ==
  /\ ~Contains(chain, c)
  /\ pending < MaxPending   \* otherwise the request is refused: saturated
  /\ pending' = pending + 1
  /\ chain' = Append(chain, c)
  /\ UNCHANGED <<requestStarts, history, turn, timer>>

\* The loop that shifts the starts off the front until one is younger than a
\* minute.
DropOld(ages) ==
  LET n == CHOOSE n \in 0..Len(ages) :
             /\ \A i \in 1..n : ages[i] >= Minute
             /\ n < Len(ages) => ages[n + 1] < Minute
  IN SubSeq(ages, n + 1, Len(ages))

Remembered == DropOld(requestStarts)

IntervalWait(starts) ==
  IF starts = <<>> THEN 0 ELSE Interval - starts[Len(starts)]

MinuteWait(starts) ==
  IF Len(starts) < MaxPerMinute THEN 0
  ELSE Minute - starts[Len(starts) - MaxPerMinute + 1]

\* mutant of Wait: every round waits for an interval
WaitAtLeast(starts) == IF MinuteWait(starts) > Interval THEN MinuteWait(starts) ELSE Interval
Wait(starts) ==
  CHOOSE w \in 0..Minute :
    /\ IntervalWait(starts) <= w /\ MinuteWait(starts) <= w
    /\ w \in {0, IntervalWait(starts), MinuteWait(starts)}

\* mutant of Woken: the permit is not asked for again
WokenAtOnce == "start"
Woken == "permit"

\* One round of waitForPermit.
AskPermit ==
  /\ chain # <<>> /\ turn = "permit"
  /\ requestStarts' = Remembered
  /\ LET wait == Wait(Remembered)
     IN IF wait <= 0 THEN turn' = "start" /\ UNCHANGED timer
        ELSE turn' = "sleep" /\ timer' = wait
  /\ UNCHANGED <<chain, pending, history>>

Wake ==
  /\ turn = "sleep" /\ timer <= 1
  /\ turn' = Woken /\ timer' = 0
  /\ UNCHANGED <<chain, pending, requestStarts, history>>

\* The permit and the start of the request are one turn of the event loop.
StartRequest ==
  /\ turn = "start"
  /\ requestStarts' = Append(requestStarts, 0)
  /\ history' = Append(history, 0)
  /\ turn' = "running"
  /\ UNCHANGED <<chain, pending, timer>>

\* mutant of Released: the count of a finished request stays
ReleasedNever == pending
Released == pending - 1

\* The request answers or fails: both release the next.
FinishRequest ==
  /\ turn = "running"
  /\ chain' = Tail(chain)
  /\ pending' = Released
  /\ turn' = "permit"
  /\ UNCHANGED <<requestStarts, history, timer>>

\* Time does not pass between the permit and the start.
Older(ages) == [i \in DOMAIN ages |-> IF ages[i] < Minute THEN ages[i] + 1 ELSE Minute]

TickPasses ==
  /\ turn # "start"
  /\ requestStarts' = Older(requestStarts)
  /\ history' = DropOld(Older(history))
  /\ timer' = IF timer > 0 THEN timer - 1 ELSE 0
  /\ UNCHANGED <<chain, pending, turn>>

LimiterNext ==
  \/ \E c \in Callers : Accept(c)
  \/ AskPermit \/ Wake \/ StartRequest \/ FinishRequest \/ TickPasses

LimiterSpec == LimiterInit /\ [][LimiterNext]_limiterVars

-----------------------------------------------------------------------------
(* Properties                                                              *)

\* Every variable keeps its type; the counter is the number of requests that
\* were accepted and have not finished, or the queue would fill up for good.
LimiterTypeOK ==
  /\ chain \in Seq(Callers) /\ pending = Len(chain) /\ Len(chain) <= MaxPending
  /\ requestStarts \in Seq(0..Minute) /\ history \in Seq(0..Minute - 1)
  /\ turn \in {"permit", "sleep", "start", "running"} /\ timer \in 0..Minute

\* Whatever the timers do, a minute never sees more starts than the provider
\* allows, and two starts are an interval apart.
RateIsKept ==
  /\ Len(history) <= MaxPerMinute
  /\ \A i, j \in DOMAIN history : i < j => history[i] >= history[j] + Interval

\* The request at the head of the queue is not made yet.
HeadWaits == chain # <<>> /\ turn # "running"
=============================================================================
