----------------------------- MODULE FeedsProof -----------------------------
(***************************************************************************)
(* What a player reads: the free times, the match made of a reservation,   *)
(* the chat, the notifications and the photo, for any number of reads,     *)
(* devices, messages and changes.                                          *)
(***************************************************************************)
EXTENDS FeedProperties, FiniteSetTheorems, NaturalsInduction,
        WellFoundedInduction, TLAPS

-----------------------------------------------------------------------------
(* BookingAvailability.                                                    *)

TaskKinds == {"services", "courts", "dates", "times"}
TaskRow == [kind : TaskKinds, courts : SUBSET PageCourts, date : PageDates, left : SUBSET (Nat \X Nat),
            got : SUBSET (PageDates \cup Slot), current : BOOLEAN]
ReadsRow == [running : TaskRow \cup {NoTask}, waiting : SUBSET TaskRow]
LoadRow == [status : Phases, courts : SUBSET PageCourts, date : PageDates,
            found : SUBSET (PageDates \cup Slot)]
RangeRow == [start : Int, count : Int, court : PageCourts \cup {AnyCourt}]
ScreenRow == [services : Phases, courts : Phases, dates : LoadRow, times : LoadRow,
              asked : SUBSET PageCourts, date : PageDates, court : PageCourts \cup {AnyCourt},
              catalogued : BOOLEAN, range : RangeRow]

\* The reads that are listened to: one of a kind at most.
Heeded(r) == {t \in r.waiting \cup {r.running} : t.kind # "none" /\ t.current = TRUE}
OfAKind(A) == \A t, u \in A : t.kind = u.kind => t = u

ReadsSound(r) ==
  /\ r \in ReadsRow /\ \A t \in r.waiting : t.current = TRUE
  /\ r.running \notin r.waiting /\ OfAKind(Heeded(r))

\* What is found for a date and some courts is of them.
OfThem(found, courts, date) ==
  \A o \in found : o \in Slot /\ o.date = date /\ o.court \in courts

\* A read that is listened to is the one its part of the page waits for.
AwaitedBy(p, t) ==
  /\ t.kind = "services" => p.services = "loading"
  /\ t.kind = "courts" => p.courts = "loading"
  /\ t.kind = "dates" => /\ p.courts = "ready" /\ p.dates.status = "loading"
                         /\ t.courts = p.dates.courts
  /\ t.kind = "times" => /\ p.courts = "ready" /\ p.times.status = "loading"
                         /\ t.courts = p.times.courts /\ t.date = p.times.date
                         /\ t.left \subseteq Pairs(t.courts) /\ t.left # {}
                         /\ OfThem(t.got, t.courts, t.date)

\* A part of the page that waits waits for a read.
AwaitsA(A, status, kind) == status = "loading" => \E t \in A : t.kind = kind

Loads(p, A) ==
  /\ p.services \in {"loading", "ready", "error"} /\ AwaitsA(A, p.services, "services")
  /\ AwaitsA(A, p.courts, "courts")
  /\ p.services = "ready" => p.courts # "idle"
  /\ p.courts # "idle" => p.services = "ready"
  /\ p.courts = "ready" =>
       /\ p.dates.courts = QueryCourts(p) /\ p.dates.status # "idle"
       /\ AwaitsA(A, p.dates.status, "dates")
       /\ p.times.courts = QueryCourts(p) /\ p.times.date = p.date /\ p.times.status # "idle"
       /\ AwaitsA(A, p.times.status, "times")
  /\ p.asked = QueryCourts(p)

\* A chosen range lies in one offer of the court it names.
RangeOffered(p) ==
  p.range # NoRange =>
    /\ Phase(p) = "success"
    /\ \E o \in Options(p) : /\ o.court = p.range.court
                             /\ TilesOf(p.range) \subseteq o.start..(o.start + o.len - 1)

PageInv(p, A) ==
  /\ p \in ScreenRow /\ Loads(p, A) /\ \A t \in A : AwaitedBy(p, t)
  /\ OfThem(p.times.found, p.times.courts, p.times.date) /\ RangeOffered(p)

AvailabilityInv ==
  /\ ReadsSound(reads) /\ (reads.running = NoTask => reads.waiting = {})
  /\ PageInv(screen, Heeded(reads))

-----------------------------------------------------------------------------
(* The scheduler.                                                          *)

LEMMA NoTaskIs == NoTask \notin TaskRow /\ NoTask.kind = "none"
<1>1. \A t \in TaskRow : t.kind # "none"
  BY DEF TaskRow, TaskKinds
<1>2. NoTask.kind = "none"
  BY DEF NoTask
<1> QED BY <1>1, <1>2

LEMMA HeededIs ==
  ASSUME NEW r, ReadsSound(r)
  PROVE  /\ r.waiting \subseteq Heeded(r) /\ Heeded(r) \subseteq TaskRow
         /\ r.running # NoTask => r.running \in TaskRow
         /\ \A t \in Heeded(r) : t.current = TRUE /\ t \in r.waiting \cup {r.running}
<1>1. r.waiting \subseteq TaskRow /\ r.running \in TaskRow \cup {NoTask}
  BY DEF ReadsSound, ReadsRow
<1>2. \A t \in TaskRow : t.kind # "none"
  BY DEF TaskRow, TaskKinds
<1> QED BY <1>1, <1>2, NoTaskIs DEF ReadsSound, Heeded

\* One read runs; which one is not the page's concern.
LEMMA PumpedIs ==
  ASSUME NEW r, ReadsSound(r)
  PROVE  /\ ReadsSound(Pumped(r)) /\ Heeded(Pumped(r)) = Heeded(r)
         /\ Pumped(r).running = NoTask => Pumped(r).waiting = {}
<1>1. CASE r.running # NoTask \/ r.waiting = {}
  BY <1>1 DEF Pumped
<1>2. CASE r.running = NoTask /\ r.waiting # {}
  <2>1. PICK next \in r.waiting : Pumped(r) = [running |-> next, waiting |-> r.waiting \ {next}]
    <3>1. PICK urgent : urgent = {t \in r.waiting : t.kind # "dates"}
      OBVIOUS
    <3>2. \E t \in r.waiting : urgent = {} \/ t \in urgent
      BY <1>2, <3>1
    <3>3. (CHOOSE t \in r.waiting : urgent = {} \/ t \in urgent) \in r.waiting
      BY <3>2
    <3> QED BY <1>2, <3>1, <3>3, Zenon DEF Pumped
  <2>2. PICK q : q = Pumped(r)
    OBVIOUS
  <2>3. q.running = next /\ q.waiting = r.waiting \ {next} /\ q = [running |-> q.running, waiting |-> q.waiting]
    BY <2>1, <2>2
  <2>4. r.waiting \subseteq TaskRow /\ next # NoTask /\ next \in TaskRow
    BY <2>1, NoTaskIs DEF ReadsSound, ReadsRow
  <2>5. q \in ReadsRow
    BY <2>3, <2>4 DEF ReadsRow
  <2>6. Heeded(q) = Heeded(r)
    BY <1>2, <2>1, <2>3, NoTaskIs DEF Heeded
  <2>7. ReadsSound(q)
    BY <2>1, <2>3, <2>5, <2>6 DEF ReadsSound
  <2> QED BY <2>2, <2>3, <2>4, <2>6, <2>7
<1> QED BY <1>1, <1>2

\* Reads that are replaced are not listened to any more.
LEMMA CancelledIs ==
  ASSUME NEW r, ReadsSound(r), NEW kinds, "none" \notin kinds
  PROVE  /\ ReadsSound(Cancelled(r, kinds))
         /\ Heeded(Cancelled(r, kinds)) = {t \in Heeded(r) : t.kind \notin kinds}
<1>1. PICK waiting : waiting = {t \in r.waiting : t.kind \notin kinds}
  OBVIOUS
<1>2. PICK running : running = IF r.running.kind \in kinds THEN [r.running EXCEPT !.current = FALSE]
                               ELSE r.running
  OBVIOUS
<1>3. PICK q : q = Cancelled(r, kinds)
  OBVIOUS
<1>4. q = [waiting |-> waiting, running |-> running]
  BY <1>1, <1>2, <1>3, Zenon DEF Cancelled
<1>5. /\ r.waiting \subseteq TaskRow /\ r.running \in TaskRow \cup {NoTask}
      /\ r.running \notin r.waiting /\ \A t \in r.waiting : t.current = TRUE
  BY DEF ReadsSound, ReadsRow
<1>6. \/ running = r.running /\ running.kind \notin kinds
      \/ running \in TaskRow /\ running.current = FALSE /\ r.running.kind \in kinds
  <2>1. CASE r.running.kind \in kinds
    <3>1. r.running \in TaskRow
      BY <1>5, <2>1, NoTaskIs
    <3>2. running = [r.running EXCEPT !.current = FALSE]
      BY <1>2, <2>1
    <3>3. running \in TaskRow /\ running.current = FALSE
      BY <3>1, <3>2 DEF TaskRow
    <3> QED BY <2>1, <3>3
  <2>2. CASE r.running.kind \notin kinds
    BY <1>2, <2>2
  <2> QED BY <2>1, <2>2
<1>7. /\ q.waiting = waiting /\ q.running = running /\ q \in ReadsRow
      /\ running \notin waiting
  BY <1>1, <1>4, <1>5, <1>6 DEF ReadsRow
<1>8. Heeded(q) = {t \in Heeded(r) : t.kind \notin kinds}
  BY <1>1, <1>6, <1>7 DEF Heeded
<1>9. ReadsSound(q)
  BY <1>1, <1>5, <1>7, <1>8 DEF ReadsSound, OfAKind
<1> QED BY <1>3, <1>8, <1>9

\* New reads, of kinds that none is listened to of.
LEMMA EnqueuedIs ==
  ASSUME NEW r, ReadsSound(r), NEW tasks \in SUBSET TaskRow, OfAKind(tasks),
         \A t \in tasks : t.current = TRUE /\ \A u \in Heeded(r) : t.kind # u.kind
  PROVE  ReadsSound(Enqueued(r, tasks)) /\ Heeded(Enqueued(r, tasks)) = Heeded(r) \cup tasks
<1>1. PICK q : q = Enqueued(r, tasks)
  OBVIOUS
<1>2. /\ r.waiting \subseteq TaskRow /\ r.running \in TaskRow \cup {NoTask} /\ r \in ReadsRow
      /\ r.running \notin r.waiting /\ \A t \in r.waiting : t.current = TRUE
  BY DEF ReadsSound, ReadsRow
<1>3. q \in ReadsRow /\ q.running = r.running /\ q.waiting = r.waiting \cup tasks
  BY <1>1, <1>2 DEF Enqueued, ReadsRow
<1>4. \A t \in tasks : t.kind # "none"
  BY DEF TaskRow, TaskKinds
<1>5. r.running \notin tasks
  BY <1>4 DEF Heeded
<1>6. Heeded(q) = Heeded(r) \cup tasks
  BY <1>3, <1>4 DEF Heeded
<1>7. OfAKind(Heeded(r) \cup tasks)
  BY DEF ReadsSound, OfAKind
<1> QED BY <1>1, <1>2, <1>3, <1>5, <1>6, <1>7 DEF ReadsSound

\* The read that runs ends.
LEMMA ReadEndedIs ==
  ASSUME NEW r, ReadsSound(r)
  PROVE  /\ ReadsSound([r EXCEPT !.running = NoTask])
         /\ Heeded([r EXCEPT !.running = NoTask]) = Heeded(r) \ {r.running}
<1>1. PICK q : q = [r EXCEPT !.running = NoTask]
  OBVIOUS
<1>2. /\ r.waiting \subseteq TaskRow /\ r \in ReadsRow
      /\ r.running \notin r.waiting /\ \A t \in r.waiting : t.current = TRUE
  BY DEF ReadsSound, ReadsRow
<1>3. q \in ReadsRow /\ q.running = NoTask /\ q.waiting = r.waiting
  BY <1>1, <1>2 DEF ReadsRow
<1>4. Heeded(q) = Heeded(r) \ {r.running}
  BY <1>2, <1>3, NoTaskIs DEF Heeded
<1>5. OfAKind(Heeded(r) \ {r.running})
  BY DEF ReadsSound, OfAKind
<1> QED BY <1>1, <1>2, <1>3, <1>4, <1>5, NoTaskIs DEF ReadsSound

\* Some numbers have a least one, and some pairs of numbers a first one.
LEMMA LeastIs ==
  ASSUME NEW T \in SUBSET Nat, T # {}
  PROVE  \E n \in T : \A k \in T : n <= k
<1> DEFINE less == OpToRel(<, Nat)
<1>1. IsWellFoundedOn(less, Nat)
  BY NatLessThanWellFounded, Zenon
<1>2. PICK n \in T : \A k \in T : ~(<<k, n>> \in less)
  BY <1>1, WFMin
<1>3. ASSUME NEW k \in T PROVE n <= k
  <2>1. ~(k < n)
    BY <1>2, Zenon DEF less, OpToRel
  <2> QED BY <2>1
<1> QED BY <1>3

LEMMA FirstPair ==
  ASSUME NEW S \in SUBSET (Nat \X Nat), S # {}
  PROVE  \E a \in S : \A b \in S : a[1] < b[1] \/ (a[1] = b[1] /\ a[2] <= b[2])
<1>1. \A a \in S : a[1] \in Nat /\ a[2] \in Nat
  OBVIOUS
<1>2. PICK n \in {a[1] : a \in S} : \A k \in {a[1] : a \in S} : n <= k
  <2>1. PICK firsts : firsts = {a[1] : a \in S}
    OBVIOUS
  <2>2. firsts \in SUBSET Nat /\ firsts # {}
    BY <1>1, <2>1
  <2> QED BY LeastIs, <2>1, <2>2
<1>3. PICK m \in {a[2] : a \in {b \in S : b[1] = n}} : \A k \in {a[2] : a \in {b \in S : b[1] = n}} : m <= k
  <2>1. PICK seconds : seconds = {a[2] : a \in {b \in S : b[1] = n}}
    OBVIOUS
  <2>2. seconds \in SUBSET Nat /\ seconds # {}
    BY <1>1, <1>2, <2>1
  <2> QED BY LeastIs, <2>1, <2>2
<1>4. PICK a \in S : a[1] = n /\ a[2] = m
  BY <1>3
<1>5. ASSUME NEW b \in S PROVE a[1] < b[1] \/ (a[1] = b[1] /\ a[2] <= b[2])
  <2>1. b[1] \in Nat /\ b[2] \in Nat /\ n \in Nat /\ m \in Nat
    BY <1>1, <1>4
  <2>2. n <= b[1]
    BY <1>2
  <2>3. b[1] = n => m <= b[2]
    BY <1>3
  <2> QED BY <1>4, <2>1, <2>2, <2>3
<1> QED BY <1>5

LEMMA NextPairIs ==
  ASSUME NEW left \in SUBSET (Nat \X Nat), left # {}
  PROVE  NextPair(left) \in left
<1>1. \E a \in left : \A b \in left : a[1] < b[1] \/ (a[1] = b[1] /\ a[2] <= b[2])
  BY FirstPair
<1> QED BY <1>1 DEF NextPair

LEMMA PairsAre ==
  ASSUME NEW courts \in SUBSET (PageCourts \cup {AnyCourt})
  PROVE  Pairs(courts) \in SUBSET (Nat \X Nat) /\ (courts # {} => Pairs(courts) # {})
<1>1. Durations \subseteq Nat /\ Durations # {} /\ courts \subseteq Nat
  BY AvailabilityAssumption DEF AnyCourt
<1>2. Pairs(courts) = Durations \X courts
  BY DEF Pairs
<1>3. \A a \in Durations, c \in courts : <<a, c>> \in Durations \X courts
  OBVIOUS
<1>4. Durations \X courts \subseteq Nat \X Nat
  BY <1>1
<1> QED BY <1>1, <1>2, <1>3, <1>4

-----------------------------------------------------------------------------
(* The page.                                                               *)

LEMMA LoadIs ==
  /\ NotLoaded \in LoadRow /\ NotLoaded.found = {} /\ FirstDate \in PageDates
  /\ \A courts \in SUBSET PageCourts, date \in PageDates, status \in Phases,
        found \in SUBSET (PageDates \cup Slot) :
       [status |-> status, courts |-> courts, date |-> date, found |-> found] \in LoadRow
  /\ {"idle", "loading", "ready", "error"} = Phases
<1>1. FirstDate \in PageDates
  BY AvailabilityAssumption DEF FirstDate
<1>2. {"idle", "loading", "ready", "error"} = Phases
  BY DEF Phases
<1>3. NotLoaded \in LoadRow /\ NotLoaded.found = {}
  BY <1>1, <1>2 DEF NotLoaded, LoadRow
<1> QED BY <1>1, <1>2, <1>3 DEF LoadRow

\* A load that begins.
LEMMA BlankIs ==
  ASSUME NEW courts, NEW date
  PROVE  /\ [Blank EXCEPT !.courts = courts, !.date = date]
              = [status |-> "loading", courts |-> courts, date |-> date, found |-> {}]
         /\ [Blank EXCEPT !.courts = courts]
              = [status |-> "loading", courts |-> courts, date |-> FirstDate, found |-> {}]
<1>1. PICK first : first = FirstDate
  OBVIOUS
<1>2. PICK none : none = {}
  OBVIOUS
<1>3. PICK blank : blank = Blank
  OBVIOUS
<1>4. blank = [status |-> "loading", courts |-> none, date |-> first, found |-> none]
  BY <1>1, <1>2, <1>3 DEF Blank, NotLoaded
<1>5. [blank EXCEPT !.courts = courts]
        = [status |-> "loading", courts |-> courts, date |-> first, found |-> none]
  BY ONLY <1>4
<1>6. [[blank EXCEPT !.courts = courts] EXCEPT !.date = date]
        = [status |-> "loading", courts |-> courts, date |-> date, found |-> none]
  <2>1. PICK half : half = [blank EXCEPT !.courts = courts]
    OBVIOUS
  <2>2. half = [status |-> "loading", courts |-> courts, date |-> first, found |-> none]
    BY <1>5, <2>1
  <2>3. [half EXCEPT !.date = date]
          = [status |-> "loading", courts |-> courts, date |-> date, found |-> none]
    BY ONLY <2>2
  <2> QED BY <2>1, <2>3
<1>7. [blank EXCEPT !.courts = courts, !.date = date]
        = [[blank EXCEPT !.courts = courts] EXCEPT !.date = date]
  OBVIOUS
<1> QED BY <1>1, <1>2, <1>3, <1>5, <1>6, <1>7

LEMMA QueryIs ==
  ASSUME NEW p \in ScreenRow
  PROVE  /\ QueryCourts(p) \in SUBSET PageCourts
         /\ p.courts # "ready" => QueryCourts(p) = {}
         /\ p.courts = "ready" => QueryCourts(p) # {}
BY AvailabilityAssumption DEF QueryCourts, ScreenRow, AnyCourt

\* Times are shown when everything is loaded.
LEMMA PhaseIs ==
  ASSUME NEW p
  PROVE  /\ Phase(p) = "success" => /\ p.services = "ready" /\ p.courts = "ready"
                                    /\ p.dates.status = "ready" /\ p.times.status = "ready"
         /\ Phase(p) = "loading" =>
              /\ p.services # "error" /\ p.courts # "error"
              /\ ~(p.dates.status = "error" /\ DatesAreCurrent(p))
              /\ ~(p.times.status = "error" /\ TimesAreCurrent(p))
              /\ ~(/\ p.services = "ready" /\ p.courts = "ready"
                   /\ p.dates.status = "ready" /\ DatesAreCurrent(p)
                   /\ p.times.status = "ready" /\ TimesAreCurrent(p))
BY DEF Phase

LEMMA NoRangeIs == NoRange \in RangeRow /\ NoRange.count = 0
BY DEF NoRange, RangeRow

LEMMA ServicesTaskIs ==
  ServicesTask \in TaskRow /\ ServicesTask.kind = "services" /\ ServicesTask.current = TRUE
<1>1. PICK left : left = {<<0, AnyCourt>>}
  OBVIOUS
<1>2. left \in SUBSET (Nat \X Nat)
  BY <1>1 DEF AnyCourt
<1>3. PICK kind : kind = "services" /\ kind \in TaskKinds
  BY DEF TaskKinds
<1>4. PICK courts \in SUBSET PageCourts : courts = {}
  OBVIOUS
<1>5. PICK date : date = FirstDate /\ date \in PageDates
  BY LoadIs
<1>6. PICK t : t = Task(kind, courts, date, left)
  OBVIOUS
<1>7. t \in TaskRow /\ t.kind = kind /\ t.current = TRUE
  BY <1>2, <1>3, <1>4, <1>5, <1>6 DEF Task, TaskRow
<1>8. ServicesTask = t
  BY <1>1, <1>3, <1>4, <1>5, <1>6, Zenon DEF ServicesTask
<1> QED BY <1>3, <1>7, <1>8

LEMMA AvailabilityInitInv ==
  AvailabilityInit => AvailabilityInv
<1> SUFFICES ASSUME AvailabilityInit PROVE AvailabilityInv
  OBVIOUS
<1>1. NoRange \in RangeRow
  BY DEF NoRange, RangeRow
<1>2. PICK part, none, range :
        part = NotLoaded /\ none = AnyCourt /\ range = NoRange
  OBVIOUS
<1>3. screen = [services |-> "loading", courts |-> "idle", dates |-> part,
                times |-> part, asked |-> {}, date |-> FirstDate,
                court |-> none, catalogued |-> FALSE, range |-> range]
  BY <1>2 DEF AvailabilityInit
<1>4. FirstDate \in PageDates
  BY AvailabilityAssumption DEF FirstDate
<1>5. screen \in ScreenRow
  <2>1. part \in LoadRow /\ range \in RangeRow
    BY <1>1, <1>2, LoadIs
  <2> QED BY <1>2, <1>3, <1>4, <2>1 DEF ScreenRow, Phases
<1>6. PICK t : t = ServicesTask /\ t \in TaskRow /\ t.kind = "services" /\ t.current = TRUE
  BY ServicesTaskIs
<1>7. reads = [running |-> t, waiting |-> {}]
  BY <1>6 DEF AvailabilityInit
<1>8. reads \in ReadsRow /\ reads.waiting = {} /\ reads.running = t /\ Heeded(reads) = {t}
  BY <1>6, <1>7 DEF ReadsRow, Heeded
<1>9. ReadsSound(reads)
  BY <1>8 DEF ReadsSound, OfAKind
<1>10. Loads(screen, {t})
  BY <1>3, <1>5, <1>6, QueryIs DEF Loads, AwaitsA
<1>11. AwaitedBy(screen, t)
  BY <1>3, <1>6 DEF AwaitedBy
<1>12. RangeOffered(screen) /\ screen.times.found = {}
  BY <1>2, <1>3, LoadIs DEF RangeOffered
<1> QED BY <1>5, <1>8, <1>9, <1>10, <1>11, <1>12 DEF AvailabilityInv, PageInv, OfThem

\* What the actions have to show.
LEMMA NextHolds ==
  ASSUME NEW r, ReadsSound(r), reads' = Pumped(r), PageInv(screen', Heeded(r))
  PROVE  AvailabilityInv'
<1>1. PICK q : q = Pumped(r)
  OBVIOUS
<1>2. ReadsSound(q) /\ Heeded(q) = Heeded(r) /\ (q.running = NoTask => q.waiting = {})
  BY <1>1, PumpedIs
<1>3. PICK p : p = screen'
  OBVIOUS
<1>4. PageInv(p, Heeded(q))
  BY <1>2, <1>3
<1>5. PageInv(screen, Heeded(reads))'
  BY <1>1, <1>3, <1>4
<1> QED BY <1>1, <1>2, <1>5 DEF AvailabilityInv

\* A page where nothing is chosen, with the query it has sent.
LEMMA QueriedHolds ==
  ASSUME NEW p \in ScreenRow, p.services = "ready", p.courts = "ready", p.range = NoRange,
         p.asked = {} \/ (p.asked = p.dates.courts /\ p.dates.status \in {"ready", "error"})
  PROVE  /\ PageInv(Revalidated(WithTimes(WithDates(p))), DatesTasks(p) \cup TimesTasks(p))
         /\ DatesTasks(p) \cup TimesTasks(p) \in SUBSET TaskRow
         /\ OfAKind(DatesTasks(p) \cup TimesTasks(p))
         /\ \A t \in DatesTasks(p) \cup TimesTasks(p) : t.current = TRUE
<1>1. PICK courts : /\ courts = QueryCourts(p) /\ courts \in SUBSET PageCourts /\ courts # {}
  BY QueryIs
<1>2. /\ p.date \in PageDates /\ p.times \in LoadRow /\ p.dates \in LoadRow /\ FirstDate \in PageDates
  BY LoadIs DEF ScreenRow
<1>3. PICK left : left = Pairs(courts) /\ left \in SUBSET (Nat \X Nat) /\ left # {}
  BY <1>1, PairsAre
<1>4. p.dates.status = "loading" => AsksDates(p)
  BY <1>1 DEF AsksDates
<1>5. PICK dates : dates = [status |-> "loading", courts |-> courts, date |-> FirstDate, found |-> {}]
  OBVIOUS
<1>6. PICK times : times = [status |-> "loading", courts |-> courts, date |-> p.date, found |-> {}]
  OBVIOUS
<1>7. /\ dates \in LoadRow /\ dates.status = "loading" /\ dates.courts = courts
      /\ times \in LoadRow /\ times.status = "loading" /\ times.courts = courts
      /\ times.date = p.date /\ times.found = {}
      /\ dates = [Blank EXCEPT !.courts = courts]
      /\ times = [Blank EXCEPT !.courts = courts, !.date = p.date]
  <2>1. {} \in SUBSET (PageDates \cup Slot) /\ "loading" \in Phases
    BY LoadIs
  <2>2. dates \in LoadRow
    BY <1>1, <1>2, <1>5, <2>1 DEF LoadRow
  <2>3. times \in LoadRow
    BY <1>1, <1>2, <1>6, <2>1 DEF LoadRow
  <2>4. dates = [Blank EXCEPT !.courts = courts]
    BY <1>5, BlankIs
  <2>5. times = [Blank EXCEPT !.courts = courts, !.date = p.date]
    <3>1. PICK date : date = p.date
      OBVIOUS
    <3>2. times = [status |-> "loading", courts |-> courts, date |-> date, found |-> {}]
      BY <1>6, <3>1
    <3>3. times = [Blank EXCEPT !.courts = courts, !.date = date]
      BY <3>2, BlankIs, Zenon
    <3> QED BY <3>1, <3>3, Zenon
  <2>6. dates.status = "loading" /\ dates.courts = courts
    BY ONLY <1>5
  <2>7. times.status = "loading" /\ times.courts = courts /\ times.date = p.date /\ times.found = {}
    BY ONLY <1>6
  <2> QED BY <2>2, <2>3, <2>4, <2>5, <2>6, <2>7, Zenon
<1>8. PICK d : /\ d = WithDates(p) /\ d = IF AsksDates(p) THEN [p EXCEPT !.asked = courts, !.dates = dates] ELSE p
  BY <1>1, <1>7 DEF WithDates
<1>9. /\ d \in ScreenRow /\ d.services = "ready" /\ d.courts = "ready" /\ d.range = NoRange
      /\ d.date = p.date /\ d.court = p.court /\ d.asked = courts /\ d.dates.courts = courts
      /\ d.dates.status = IF AsksDates(p) THEN "loading" ELSE p.dates.status
      /\ d.dates.status # "idle"
  <2>1. CASE AsksDates(p)
    <3>1. d = [p EXCEPT !.asked = courts, !.dates = dates]
      BY <1>8, <2>1
    <3>2. d \in ScreenRow
      BY <1>1, <1>7, <3>1 DEF ScreenRow
    <3>3. /\ d.services = "ready" /\ d.courts = "ready" /\ d.range = NoRange
          /\ d.date = p.date /\ d.court = p.court /\ d.asked = courts /\ d.dates = dates
      BY <3>1 DEF ScreenRow
    <3> QED BY <1>7, <2>1, <3>2, <3>3
  <2>2. CASE ~AsksDates(p)
    BY <1>1, <1>8, <2>2 DEF AsksDates
  <2> QED BY <2>1, <2>2
<1>10. QueryCourts(d) = courts
  BY <1>1, <1>9 DEF QueryCourts
<1>11. PICK q : q = WithTimes(d) /\ q = [d EXCEPT !.times = times]
  BY <1>1, <1>7, <1>9, <1>10 DEF WithTimes
<1>12. /\ q \in ScreenRow /\ q.services = "ready" /\ q.courts = "ready" /\ q.range = NoRange
      /\ q.date = p.date /\ q.court = p.court /\ q.asked = courts /\ q.dates = d.dates /\ q.times = times
  BY <1>7, <1>9, <1>11 DEF ScreenRow
<1>13. QueryCourts(q) = courts /\ Revalidated(q) = q
  BY <1>1, <1>12 DEF QueryCourts, Revalidated
<1>14. PICK td, tt : td = Task("dates", courts, FirstDate, left) /\ tt = Task("times", courts, p.date, left)
  OBVIOUS
<1>15. /\ td \in TaskRow /\ tt \in TaskRow /\ td.kind = "dates" /\ tt.kind = "times"
       /\ td.current = TRUE /\ tt.current = TRUE /\ td.courts = courts /\ tt.courts = courts
       /\ tt.date = p.date /\ tt.left = left /\ tt.got = {}
  <2>1. PICK kd, kt : kd = "dates" /\ kt = "times" /\ kd \in TaskKinds /\ kt \in TaskKinds
    BY DEF TaskKinds
  <2>2. PICK first, date : first = FirstDate /\ date = p.date /\ first \in PageDates /\ date \in PageDates
    BY <1>2
  <2>3. td = Task(kd, courts, first, left) /\ tt = Task(kt, courts, date, left)
    BY <1>14, <2>1, <2>2
  <2>4. td \in TaskRow /\ td.kind = kd /\ td.current = TRUE /\ td.courts = courts
    BY <1>1, <1>3, <2>1, <2>2, <2>3 DEF Task, TaskRow
  <2>5. /\ tt \in TaskRow /\ tt.kind = kt /\ tt.current = TRUE /\ tt.courts = courts
        /\ tt.date = date /\ tt.left = left /\ tt.got = {}
    BY <1>1, <1>3, <2>1, <2>2, <2>3 DEF Task, TaskRow
  <2> QED BY <2>1, <2>2, <2>4, <2>5
<1>16. PICK A : /\ A = DatesTasks(p) \cup TimesTasks(p)
                /\ A = (IF AsksDates(p) THEN {td} ELSE {}) \cup {tt}
  BY <1>1, <1>3, <1>14 DEF DatesTasks, TimesTasks
<1>17. A \in SUBSET TaskRow /\ OfAKind(A) /\ (\A t \in A : t.current = TRUE) /\ A \subseteq {td, tt}
       /\ tt \in A /\ (AsksDates(p) <=> td \in A)
  BY <1>15, <1>16 DEF OfAKind
<1>18. Loads(q, A)
  <2>1. AwaitsA(A, q.dates.status, "dates")
    <3>1. q.dates.status = "loading" => AsksDates(p)
      <4>1. q.dates.status = d.dates.status
        BY <1>12
      <4> QED BY <1>9, <1>4, <4>1
    <3> QED BY <1>15, <1>17, <3>1 DEF AwaitsA
  <2>2. AwaitsA(A, q.times.status, "times")
    BY <1>15, <1>17 DEF AwaitsA
  <2>3. q.dates.courts = courts /\ q.dates.status # "idle"
    BY <1>9, <1>12
  <2>4. q.times.courts = courts /\ q.times.date = q.date /\ q.times.status # "idle"
    BY <1>7, <1>12
  <2>5. AwaitsA(A, q.services, "services") /\ AwaitsA(A, q.courts, "courts")
    BY <1>12 DEF AwaitsA
  <2> QED BY <1>12, <1>13, <2>1, <2>2, <2>3, <2>4, <2>5 DEF Loads
<1>19. AwaitedBy(q, tt)
  BY <1>3, <1>7, <1>12, <1>15 DEF AwaitedBy, OfThem
<1>20. td \in A => AwaitedBy(q, td)
  BY <1>9, <1>12, <1>15, <1>17 DEF AwaitedBy
<1>21. RangeOffered(q) /\ OfThem(q.times.found, q.times.courts, q.times.date)
  BY <1>7, <1>12 DEF RangeOffered, OfThem
<1>22. PageInv(q, A)
  BY <1>12, <1>17, <1>18, <1>19, <1>20, <1>21 DEF PageInv
<1> QED BY <1>8, <1>11, <1>13, <1>16, <1>17, <1>22

\* Both effects run: what they replace is not listened to, what they ask is.
LEMMA RequeriedKeeps ==
  ASSUME NEW r, ReadsSound(r), \A t \in Heeded(r) : t.kind \in {"dates", "times"},
         NEW p \in ScreenRow, p.services = "ready", p.courts = "ready", p.range = NoRange,
         Pending(r, "dates") \/ p.asked = {}
           \/ (p.asked = p.dates.courts /\ p.dates.status \in {"ready", "error"}),
         Requeried(p, r)
  PROVE  AvailabilityInv'
<1>1. PICK q : q = Forgotten(p, r)
  OBVIOUS
<1>2. PICK asked : asked = IF Pending(r, "dates") THEN {} ELSE p.asked
  OBVIOUS
<1>3. q = [p EXCEPT !.asked = asked] /\ asked \in SUBSET PageCourts
  BY <1>1, <1>2 DEF Forgotten, ScreenRow
<1>4. /\ q \in ScreenRow /\ q.services = "ready" /\ q.courts = "ready" /\ q.range = NoRange
      /\ q.asked = asked /\ q.dates = p.dates
  BY <1>3 DEF ScreenRow
<1>5. q.asked = {} \/ (q.asked = q.dates.courts /\ q.dates.status \in {"ready", "error"})
  BY <1>2, <1>4
<1>6. PICK tasks : tasks = DatesTasks(q) \cup TimesTasks(q)
  OBVIOUS
<1>7. PICK s : s = Revalidated(WithTimes(WithDates(q)))
  OBVIOUS
<1>8. /\ PageInv(s, tasks) /\ tasks \in SUBSET TaskRow /\ OfAKind(tasks)
      /\ \A t \in tasks : t.current = TRUE
  BY <1>4, <1>5, <1>6, <1>7, QueriedHolds
<1>9. PICK kinds : kinds = {"dates", "times"}
  OBVIOUS
<1>10. PICK c : c = Cancelled(r, kinds)
  OBVIOUS
<1>11. ReadsSound(c) /\ Heeded(c) = {}
  BY <1>9, <1>10, CancelledIs
<1>12. PICK e : e = Enqueued(c, tasks)
  OBVIOUS
<1>13. ReadsSound(e) /\ Heeded(e) = tasks
  BY <1>8, <1>11, <1>12, EnqueuedIs
<1>14. screen' = s /\ reads' = Pumped(e)
  BY <1>1, <1>6, <1>7, <1>9, <1>10, <1>12 DEF Requeried
<1>15. PageInv(screen', Heeded(e))
  BY <1>8, <1>13, <1>14
<1> QED BY <1>13, <1>14, <1>15, NextHolds

\* While a read is listened to nothing is chosen, and the page has got so far.
LEMMA WhileLoading ==
  ASSUME NEW p, NEW A \in SUBSET TaskRow, PageInv(p, A), NEW t \in A
  PROVE  /\ p.range = NoRange
         /\ t.kind = "services" => /\ p.services = "loading" /\ p.courts = "idle" /\ p.asked = {}
                                   /\ \A u \in A : u.kind = "services"
         /\ t.kind = "courts" => /\ p.services = "ready" /\ p.courts = "loading" /\ p.asked = {}
                                 /\ \A u \in A : u.kind = "courts"
         /\ t.kind \in {"dates", "times"} => /\ p.services = "ready" /\ p.courts = "ready"
                                             /\ \A u \in A : u.kind \in {"dates", "times"}
<1>1. \A u \in A : u.kind \in {"services", "courts", "dates", "times"} /\ AwaitedBy(p, u)
  BY DEF PageInv, TaskRow, TaskKinds
<1>2. Loads(p, A) /\ RangeOffered(p) /\ p \in ScreenRow
  BY DEF PageInv
<1>3. p.courts # "ready" => p.asked = {}
  BY <1>2, QueryIs DEF Loads
<1>4. p.range = NoRange
  <2>1. Phase(p) = "success" => p.services = "ready" /\ p.courts = "ready"
                                /\ p.dates.status = "ready" /\ p.times.status = "ready"
    BY PhaseIs
  <2> QED BY <1>1, <1>2, <2>1 DEF AwaitedBy, RangeOffered
<1>5. p.courts # "idle" => p.services = "ready"
  BY <1>2 DEF Loads
<1>6. \A u \in A : /\ u.kind = "services" => p.services = "loading"
                   /\ u.kind = "courts" => p.courts = "loading"
                   /\ u.kind \in {"dates", "times"} => p.courts = "ready"
  BY <1>1 DEF AwaitedBy
<1> QED BY <1>1, <1>3, <1>4, <1>5, <1>6

LEMMA RefreshedPageKeeps ==
  ASSUME AvailabilityInv, Refresh
  PROVE  AvailabilityInv'
<1>1. PICK kinds : kinds = TaskKinds
  OBVIOUS
<1>2. PICK c : c = Cancelled(reads, kinds)
  OBVIOUS
<1>3. ReadsSound(c) /\ Heeded(c) = {}
  <2>1. \A t \in Heeded(reads) : t.kind \in kinds
    BY <1>1, HeededIs DEF AvailabilityInv, TaskRow
  <2>2. "none" \notin kinds
    BY <1>1 DEF TaskKinds
  <2> QED BY <1>2, <2>1, <2>2, CancelledIs DEF AvailabilityInv
<1>4. PICK t : t = ServicesTask
  OBVIOUS
<1>5. t \in TaskRow /\ t.kind = "services" /\ t.current = TRUE
  BY <1>4, ServicesTaskIs
<1>6. PICK e : e = Enqueued(c, {t})
  OBVIOUS
<1>7. ReadsSound(e) /\ Heeded(e) = {t}
  BY <1>3, <1>5, <1>6, EnqueuedIs DEF OfAKind
<1>8. PICK f, asked : f = [screen EXCEPT !.asked = asked] /\ f = Forgotten(screen, reads)
  BY DEF Forgotten
<1>9. screen \in ScreenRow
  BY DEF AvailabilityInv, PageInv
<1>10. PICK part, range : part = NotLoaded /\ range = NoRange
  OBVIOUS
<1>11. PICK none : none = {}
  OBVIOUS
<1>12. PICK s : s = [f EXCEPT !.services = "loading", !.courts = "idle", !.dates = part,
                              !.times = part, !.asked = none, !.range = range]
  OBVIOUS
<1>13. part \in LoadRow /\ range \in RangeRow /\ part.found = {}
  BY <1>10, LoadIs DEF NoRange, RangeRow
<1>14. /\ s \in ScreenRow /\ s.services = "loading" /\ s.courts = "idle" /\ s.range = range
       /\ s.times = part /\ s.asked = {}
  <2>1. s = [screen EXCEPT !.asked = none, !.services = "loading", !.courts = "idle",
                           !.dates = part, !.times = part, !.range = range]
    BY <1>8, <1>9, <1>12 DEF ScreenRow
  <2>2. none \in SUBSET PageCourts /\ "loading" \in Phases /\ "idle" \in Phases
    BY <1>11, LoadIs
  <2> QED BY <1>9, <1>11, <1>13, <2>1, <2>2 DEF ScreenRow
<1>15. screen' = s /\ reads' = Pumped(e)
  <2>1. Reloaded(f) = s
    BY <1>10, <1>11, <1>12 DEF Reloaded, ForgetKey
  <2>2. kinds = {"services", "courts", "dates", "times"}
    BY <1>1 DEF TaskKinds
  <2> QED BY <1>2, <1>4, <1>6, <1>8, <2>1, <2>2 DEF Refresh
<1>16. PageInv(s, {t})
  <2>1. QueryCourts(s) = {}
    BY <1>14, QueryIs
  <2>2. Loads(s, {t})
    BY <1>5, <1>14, <2>1 DEF Loads, AwaitsA
  <2>3. AwaitedBy(s, t)
    BY <1>5, <1>14 DEF AwaitedBy
  <2>4. RangeOffered(s) /\ OfThem(s.times.found, s.times.courts, s.times.date)
    BY <1>10, <1>13, <1>14 DEF RangeOffered, OfThem
  <2> QED BY <1>14, <2>2, <2>3, <2>4 DEF PageInv
<1>17. PageInv(screen', Heeded(e))
  BY <1>7, <1>15, <1>16
<1> QED BY <1>7, <1>15, <1>17, NextHolds

LEMMA SelectCourtKeeps ==
  ASSUME AvailabilityInv, NEW k \in PageCourts \cup {AnyCourt}, SelectCourt(k)
  PROVE  AvailabilityInv'
<1>1. PICK A : A = Heeded(reads) /\ A \subseteq TaskRow
  BY HeededIs DEF AvailabilityInv
<1>2. screen \in ScreenRow /\ PageInv(screen, A) /\ Loads(screen, A) /\ screen.courts = "ready"
  BY <1>1 DEF AvailabilityInv, PageInv, SelectCourt
<1>3. PICK range : range = NoRange /\ range \in RangeRow
  BY NoRangeIs
<1>4. PICK p : p = [screen EXCEPT !.court = k, !.range = range]
  OBVIOUS
<1>5. /\ p \in ScreenRow /\ p.services = screen.services /\ p.courts = "ready" /\ p.range = NoRange
      /\ p.asked = screen.asked /\ p.dates = screen.dates /\ p.times = screen.times
      /\ p.date = screen.date /\ p.court = k
  BY <1>2, <1>3, <1>4 DEF ScreenRow
<1>6. CASE k = screen.court
  <2>1. screen' = p /\ reads' = reads
    BY <1>3, <1>4, <1>6 DEF SelectCourt
  <2>2. QueryCourts(p) = QueryCourts(screen)
    BY <1>2, <1>5, <1>6 DEF QueryCourts
  <2>3. Loads(p, A)
    BY <1>2, <1>5, <2>2 DEF Loads
  <2>4. \A t \in A : AwaitedBy(p, t)
    BY <1>2, <1>5 DEF PageInv, AwaitedBy
  <2>5. PageInv(p, A)
    BY <1>2, <1>5, <2>3, <2>4 DEF PageInv, RangeOffered
  <2>6. PageInv(screen, Heeded(reads))'
    BY <1>1, <2>1, <2>5
  <2> QED BY <2>1, <2>6 DEF AvailabilityInv
<1>7. CASE k # screen.court
  <2>1. Requeried(p, reads)
    BY <1>3, <1>4, <1>7 DEF SelectCourt
  <2>2. p.services = "ready" /\ p.asked = p.dates.courts /\ p.dates.status \in {"loading", "ready", "error"}
    BY <1>2, <1>5 DEF Loads, ScreenRow, LoadRow, Phases
  <2>3. p.dates.status = "loading" => Pending(reads, "dates")
    BY <1>1, <1>2, <1>5 DEF Loads, AwaitsA, Heeded, Pending
  <2>4. \A t \in A : t.kind \in {"dates", "times"}
    <3>1. \A t \in A : t.kind \in {"services", "courts", "dates", "times"}
      BY <1>1 DEF TaskRow, TaskKinds
    <3> QED BY <1>1, <1>2, <3>1, WhileLoading
  <2>5. ReadsSound(reads)
    BY DEF AvailabilityInv
  <2> QED BY <1>1, <1>5, <2>1, <2>2, <2>3, <2>4, <2>5, RequeriedKeeps
<1> QED BY <1>6, <1>7

LEMMA SelectDateKeeps ==
  ASSUME AvailabilityInv, NEW d \in PageDates, SelectDate(d)
  PROVE  AvailabilityInv'
<1>1. PICK A : A = Heeded(reads) /\ A \subseteq TaskRow
  BY HeededIs DEF AvailabilityInv
<1>2. /\ screen \in ScreenRow /\ PageInv(screen, A) /\ Loads(screen, A) /\ ReadsSound(reads)
      /\ \A t \in A : AwaitedBy(screen, t)
  BY <1>1 DEF AvailabilityInv, PageInv
<1>3. PICK range : range = NoRange /\ range \in RangeRow
  BY NoRangeIs
<1>4. PICK p : p = [screen EXCEPT !.date = d, !.range = range]
  OBVIOUS
<1>5. /\ p \in ScreenRow /\ p.services = screen.services /\ p.courts = screen.courts /\ p.range = NoRange
      /\ p.asked = screen.asked /\ p.dates = screen.dates /\ p.times = screen.times
      /\ p.date = d /\ p.court = screen.court
  BY <1>2, <1>3, <1>4 DEF ScreenRow
<1>6. PICK courts : courts = QueryCourts(p) /\ courts = QueryCourts(screen) /\ courts \in SUBSET PageCourts
  BY <1>2, <1>5, QueryIs DEF QueryCourts
<1>7. CASE d = screen.date
  <2>1. screen' = p /\ reads' = reads
    BY <1>3, <1>4, <1>7 DEF SelectDate
  <2>3. Loads(p, A)
    BY <1>2, <1>5, <1>6, <1>7 DEF Loads
  <2>4. \A t \in A : AwaitedBy(p, t)
    BY <1>2, <1>5 DEF AwaitedBy
  <2>5. PageInv(p, A)
    BY <1>2, <1>5, <2>3, <2>4 DEF PageInv, RangeOffered
  <2>6. PageInv(screen, Heeded(reads))'
    BY <1>1, <2>1, <2>5
  <2> QED BY <2>1, <2>6 DEF AvailabilityInv
<1>8. CASE d # screen.date
  <2>1. PICK c : c = Cancelled(reads, {"times"})
    OBVIOUS
  <2>2. ReadsSound(c) /\ Heeded(c) = {t \in A : t.kind # "times"}
    <3>1. PICK kinds : kinds = {"times"}
      OBVIOUS
    <3>2. ReadsSound(c) /\ Heeded(c) = {t \in A : t.kind \notin kinds}
      BY <1>1, <1>2, <2>1, <3>1, CancelledIs
    <3> QED BY <3>1, <3>2
  <2>3. screen' = WithTimes(p) /\ reads' = Pumped(Enqueued(c, TimesTasks(p)))
    BY <1>3, <1>4, <1>8, <2>1 DEF SelectDate
  <2>4. CASE courts = {}
    <3>1. screen' = p /\ TimesTasks(p) = {}
      BY <1>6, <2>3, <2>4 DEF WithTimes, TimesTasks
    <3>2. PICK e : e = Enqueued(c, {})
      OBVIOUS
    <3>3. ReadsSound(e) /\ Heeded(e) = {t \in A : t.kind # "times"}
      BY <2>2, <3>2, EnqueuedIs DEF OfAKind
    <3>4. p.courts # "ready" /\ screen.courts # "ready"
      BY <1>2, <1>5, <1>6, <2>4, QueryIs
    <3>5. Loads(p, Heeded(e))
      BY <1>2, <1>5, <1>6, <3>3, <3>4 DEF Loads, AwaitsA
    <3>6. \A t \in Heeded(e) : AwaitedBy(p, t)
      BY <1>2, <1>5, <3>3 DEF AwaitedBy
    <3>7. PageInv(p, Heeded(e))
      BY <1>2, <1>5, <3>5, <3>6 DEF PageInv, RangeOffered
    <3>8. reads' = Pumped(e) /\ PageInv(screen', Heeded(e))
      BY <2>3, <3>1, <3>2, <3>7
    <3> QED BY <3>3, <3>8, NextHolds
  <2>5. CASE courts # {}
    <3>1. PICK times : times = [status |-> "loading", courts |-> courts, date |-> d, found |-> {}]
      OBVIOUS
    <3>2. times = [Blank EXCEPT !.courts = courts, !.date = d]
      BY <3>1, BlankIs, Zenon
    <3>3. /\ times \in LoadRow /\ times.status = "loading" /\ times.courts = courts
          /\ times.date = d /\ times.found = {}
      BY <1>6, <3>1, LoadIs DEF LoadRow
    <3>4. PICK q : q = [p EXCEPT !.times = times]
      OBVIOUS
    <3>5. screen' = q
      BY <1>5, <1>6, <2>3, <2>5, <3>2, <3>4 DEF WithTimes
    <3>6. /\ q \in ScreenRow /\ q.services = screen.services /\ q.courts = screen.courts
          /\ q.range = NoRange /\ q.asked = screen.asked /\ q.dates = screen.dates /\ q.times = times
          /\ q.date = d /\ q.court = screen.court
      BY <1>5, <3>3, <3>4 DEF ScreenRow
    <3>7. PICK left, kind : left = Pairs(courts) /\ kind = "times" /\ kind \in TaskKinds
      BY DEF TaskKinds
    <3>8. left \in SUBSET (Nat \X Nat) /\ left # {}
      BY <1>6, <2>5, <3>7, PairsAre
    <3>9. PICK t : t = Task(kind, courts, d, left)
      OBVIOUS
    <3>10. /\ t \in TaskRow /\ t.kind = kind /\ t.current = TRUE /\ t.courts = courts
           /\ t.date = d /\ t.left = left /\ t.got = {}
      BY <1>6, <3>7, <3>8, <3>9 DEF Task, TaskRow
    <3>11. TimesTasks(p) = {t}
      BY <1>5, <1>6, <2>5, <3>7, <3>9 DEF TimesTasks
    <3>12. PICK e : e = Enqueued(c, {t})
      OBVIOUS
    <3>13. ReadsSound(e) /\ Heeded(e) = {u \in A : u.kind # "times"} \cup {t}
      BY <2>2, <3>7, <3>10, <3>12, EnqueuedIs DEF OfAKind
    <3>14. QueryCourts(q) = courts
      BY <1>6, <3>6 DEF QueryCourts
    <3>15. AwaitsA(Heeded(e), q.times.status, "times")
      BY <3>7, <3>10, <3>13 DEF AwaitsA
    <3>16. \A kinds, status : kinds # "times" /\ AwaitsA(A, status, kinds) => AwaitsA(Heeded(e), status, kinds)
      BY <3>13 DEF AwaitsA
    <3>17. Loads(q, Heeded(e))
      BY <1>2, <1>6, <3>3, <3>6, <3>14, <3>15, <3>16 DEF Loads
    <3>18. AwaitedBy(q, t)
      <4>1. q.courts = "ready"
        BY <1>2, <1>6, <2>5, <3>6, QueryIs
      <4> QED BY <3>3, <3>6, <3>7, <3>8, <3>10, <4>1 DEF AwaitedBy, OfThem
    <3>19. \A u \in A : u.kind # "times" => AwaitedBy(q, u)
      BY <1>2, <3>6 DEF AwaitedBy
    <3>20. RangeOffered(q) /\ OfThem(q.times.found, q.times.courts, q.times.date)
      BY <3>3, <3>6 DEF RangeOffered, OfThem
    <3>21. PageInv(q, Heeded(e))
      BY <3>6, <3>13, <3>17, <3>18, <3>19, <3>20 DEF PageInv
    <3>22. reads' = Pumped(e) /\ PageInv(screen', Heeded(e))
      BY <2>3, <3>5, <3>11, <3>12, <3>21
    <3> QED BY <3>13, <3>22, NextHolds
  <2> QED BY <2>4, <2>5
<1> QED BY <1>7, <1>8

-----------------------------------------------------------------------------
(* A half-hour is tapped.                                                  *)

\* What is offered was read for the date and the courts now shown.
LEMMA OptionsAre ==
  ASSUME NEW p, OfThem(p.times.found, p.times.courts, p.times.date)
  PROVE  \A o \in Options(p) : o \in Slot /\ o.date = p.date /\ o.court \in QueryCourts(p)
BY DEF Options, OfThem, TimesAreCurrent

\* A choice that fits is on the court of one offer.
LEMMA CourtForIs ==
  ASSUME NEW options \in SUBSET Slot, NEW range, Fits(options, range)
  PROVE  /\ CourtFor(options, range) \in PageCourts
         /\ \E o \in options : /\ o.court = CourtFor(options, range)
                               /\ o.start = range.start /\ o.len >= range.count
<1>1. PICK C : C = Covering(options, range)
  OBVIOUS
<1>2. C # {} /\ C \subseteq options /\ \A o \in C : o.start = range.start /\ o.len >= range.count
  BY <1>1 DEF Fits, Covering
<1>3. \A o \in C : o.len \in Nat /\ o.court \in Nat /\ o.court \in PageCourts
  BY <1>2, AvailabilityAssumption DEF Slot
<1>4. CASE \E o \in C : o.court = range.court
  BY <1>1, <1>2, <1>3, <1>4 DEF CourtFor
<1>5. CASE ~ \E o \in C : o.court = range.court
  <2>1. PICK S : S = {<<o.len, o.court>> : o \in C}
    OBVIOUS
  <2>2. S \in SUBSET (Nat \X Nat) /\ S # {}
    <3>1. \A o \in C : <<o.len, o.court>> \in Nat \X Nat
      BY <1>3
    <3> QED BY <1>2, <2>1, <3>1
  <2>3. PICK a \in S : \A b \in S : a[1] < b[1] \/ (a[1] = b[1] /\ a[2] <= b[2])
    BY <2>2, FirstPair
  <2>4. PICK o \in C : a = <<o.len, o.court>>
    BY <2>1
  <2>5. \A q \in C : o.len < q.len \/ (o.len = q.len /\ o.court <= q.court)
    <3> SUFFICES ASSUME NEW q \in C PROVE o.len < q.len \/ (o.len = q.len /\ o.court <= q.court)
      OBVIOUS
    <3>1. PICK b \in S : b = <<q.len, q.court>>
      BY <2>1
    <3>2. b[1] = q.len /\ b[2] = q.court /\ a[1] = o.len /\ a[2] = o.court
      BY <2>4, <3>1
    <3> QED BY <2>3, <3>2
  <2>6. FirstOffer(options, range) \in C
    BY <1>1, <2>5 DEF FirstOffer
  <2>7. CourtFor(options, range) = FirstOffer(options, range).court
    BY <1>1, <1>5 DEF CourtFor
  <2> QED BY <1>2, <1>3, <2>6, <2>7
<1> QED BY <1>4, <1>5

\* The range that is asked for.
LEMMA AskedIs ==
  ASSUME NEW range \in RangeRow, NEW tile \in Tiles
  PROVE  Asked(range, tile) \in RangeRow
<1>1. tile \in Int
  BY AvailabilityAssumption DEF Tiles
<1>2. range.start \in Int /\ range.count \in Int
  BY DEF RangeRow
<1>3. [start |-> tile, count |-> 1, court |-> AnyCourt] \in RangeRow
  BY <1>1 DEF RangeRow
<1>4. \A s \in Int, n \in Int : /\ [range EXCEPT !.start = s, !.count = n] \in RangeRow
                                /\ [range EXCEPT !.count = n] \in RangeRow
  BY DEF RangeRow
<1>5. /\ [range EXCEPT !.start = @ + 1, !.count = @ - 1] \in RangeRow
      /\ [range EXCEPT !.count = @ - 1] \in RangeRow
      /\ [range EXCEPT !.start = tile, !.count = @ + 1] \in RangeRow
      /\ [range EXCEPT !.count = @ + 1] \in RangeRow
  <2>1. PICK s, n : s = range.start /\ n = range.count /\ s \in Int /\ n \in Int
    BY <1>2
  <2>2. PICK s1, up, down : s1 = s + 1 /\ up = n + 1 /\ down = n - 1
    OBVIOUS
  <2>3. s1 \in Int /\ up \in Int /\ down \in Int
    BY <2>1, <2>2
  <2>4. /\ [range EXCEPT !.start = s1, !.count = down] \in RangeRow
        /\ [range EXCEPT !.count = down] \in RangeRow
        /\ [range EXCEPT !.start = tile, !.count = up] \in RangeRow
        /\ [range EXCEPT !.count = up] \in RangeRow
    BY <1>1, <1>4, <2>3
  <2> QED BY <2>1, <2>2, <2>4
<1> QED BY <1>3, <1>5, NoRangeIs, Zenon DEF Asked

LEMMA UpdatedIs ==
  ASSUME NEW options \in SUBSET Slot, NEW range \in RangeRow, NEW tile \in Tiles
  PROVE  Updated(options, range, tile) \in RangeRow
<1>1. PICK asked : asked = Asked(range, tile) /\ asked \in RangeRow
  BY AskedIs
<1>2. PICK needed : needed = IF range.count = 0 THEN [asked EXCEPT !.count = MinSlots] ELSE asked
  OBVIOUS
<1>3. PICK k : k = CourtFor(options, needed)
  OBVIOUS
<1>4. Fits(options, needed) => [asked EXCEPT !.court = k] \in RangeRow
  BY <1>1, <1>3, CourtForIs DEF RangeRow
<1>5. Updated(options, range, tile) =
        IF asked \in {range, NoRange} THEN asked
        ELSE IF Fits(options, needed) THEN [asked EXCEPT !.court = k] ELSE range
  BY <1>1, <1>2, <1>3, Zenon DEF Updated
<1> QED BY <1>1, <1>4, <1>5

\* Nothing but the choice depends on the choice.
LEMMA ChosenIs ==
  ASSUME NEW p, NEW A, PageInv(p, A), NEW range \in RangeRow
  PROVE  LET q == [p EXCEPT !.range = range]
         IN /\ q.range = range /\ q \in ScreenRow /\ Options(q) = Options(p) /\ Phase(q) = Phase(p)
            /\ q.times = p.times
            /\ RangeOffered(q) => PageInv(q, A)
<1>1. PICK q : q = [p EXCEPT !.range = range]
  OBVIOUS
<1>2. p \in ScreenRow
  BY DEF PageInv
<1>3. /\ q \in ScreenRow /\ q.services = p.services /\ q.courts = p.courts /\ q.range = range
      /\ q.asked = p.asked /\ q.dates = p.dates /\ q.times = p.times
      /\ q.date = p.date /\ q.court = p.court
  BY <1>1, <1>2 DEF ScreenRow
<1>4. QueryCourts(q) = QueryCourts(p)
  BY <1>3 DEF QueryCourts
<1>5. (DatesAreCurrent(q) <=> DatesAreCurrent(p)) /\ (TimesAreCurrent(q) <=> TimesAreCurrent(p))
  BY <1>3, <1>4 DEF DatesAreCurrent, TimesAreCurrent
<1>6. Options(q) = Options(p)
  BY <1>3, <1>5 DEF Options
<1>7. Phase(q) = Phase(p)
  BY <1>3, <1>5 DEF Phase
<1>8. Loads(p, A) => Loads(q, A)
  BY <1>3, <1>4 DEF Loads
<1>9. \A t \in A : AwaitedBy(p, t) => AwaitedBy(q, t)
  BY <1>3 DEF AwaitedBy
<1>10. RangeOffered(q) => PageInv(q, A)
  BY <1>3, <1>8, <1>9 DEF PageInv
<1> QED BY <1>1, <1>3, <1>6, <1>7, <1>10

LEMMA TapKeeps ==
  ASSUME AvailabilityInv, NEW tile \in Tiles, Tap(tile)
  PROVE  AvailabilityInv'
<1>1. PICK A : A = Heeded(reads)
  OBVIOUS
<1>2. PageInv(screen, A) /\ screen \in ScreenRow /\ screen.range \in RangeRow
  BY <1>1 DEF AvailabilityInv, PageInv, ScreenRow
<1>3. PICK options : options = Options(screen) /\ options \in SUBSET Slot
  BY <1>2, OptionsAre DEF PageInv
<1>4. PICK range : range = Updated(options, screen.range, tile) /\ range \in RangeRow
  BY <1>2, <1>3, UpdatedIs
<1>5. PICK p : p = [screen EXCEPT !.range = range]
  OBVIOUS
<1>6. /\ p.range = range /\ p \in ScreenRow /\ Options(p) = options /\ Phase(p) = "success"
      /\ p.times.status = "ready" /\ (RangeOffered(p) => PageInv(p, A))
  <2>1. Phase(screen) = "success"
    BY DEF Tap, Tappable
  <2>2. p.times.status = "ready"
    BY <1>2, <1>4, <1>5, <2>1, ChosenIs, PhaseIs
  <2> QED BY <1>2, <1>3, <1>4, <1>5, <2>1, <2>2, ChosenIs
<1>7. screen' = Revalidated(p) /\ reads' = reads
  BY <1>3, <1>4, <1>5 DEF Tap
<1>8. CASE range = NoRange
  <2>1. Revalidated(p) = p /\ RangeOffered(p)
    BY <1>6, <1>8 DEF Revalidated, RangeOffered
  <2>2. PageInv(screen, Heeded(reads))'
    BY <1>1, <1>6, <1>7, <2>1
  <2> QED BY <1>7, <2>2 DEF AvailabilityInv
<1>9. CASE range # NoRange /\ ~Fits(options, range)
  <2>1. PICK none : none = NoRange /\ none \in RangeRow
    BY NoRangeIs
  <2>2. PICK q : q = [p EXCEPT !.range = none]
    OBVIOUS
  <2>3. q = [screen EXCEPT !.range = none]
    BY <1>2, <1>5, <2>2 DEF ScreenRow
  <2>4. q.range = NoRange /\ (RangeOffered(q) => PageInv(q, A))
    BY <1>2, <2>1, <2>3, ChosenIs
  <2>5. PageInv(q, A)
    BY <1>2, <2>1, <2>3, <2>4, ChosenIs DEF RangeOffered
  <2>6. Revalidated(p) = q
    <3>1. p.range # NoRange /\ p.times.status = "ready" /\ ~Fits(Options(p), p.range)
      BY <1>6, <1>9
    <3>2. q = [p EXCEPT !.range = NoRange]
      BY <2>1, <2>2
    <3> QED BY <3>1, <3>2, Zenon DEF Revalidated
  <2>7. PageInv(screen, Heeded(reads))'
    BY <1>1, <1>7, <2>5, <2>6
  <2> QED BY <1>7, <2>7 DEF AvailabilityInv
<1>10. CASE range # NoRange /\ Fits(options, range)
  <2>1. PICK k : k = CourtFor(options, range) /\ k \in PageCourts
    BY <1>3, <1>10, CourtForIs
  <2>2. PICK o \in options : o.court = k /\ o.start = range.start /\ o.len >= range.count
    BY <1>3, <1>10, <2>1, CourtForIs
  <2>3. PICK chosen : chosen = [range EXCEPT !.court = k]
    OBVIOUS
  <2>4. /\ chosen \in RangeRow /\ chosen.court = k /\ chosen.start = range.start
        /\ chosen.count = range.count
    BY <1>4, <2>1, <2>3 DEF RangeRow
  <2>5. PICK q : q = [screen EXCEPT !.range = chosen]
    OBVIOUS
  <2>6. Revalidated(p) = q
    <3>1. [p EXCEPT !.range.court = k] = [p EXCEPT !.range = [range EXCEPT !.court = k]]
      BY <1>6 DEF ScreenRow
    <3>2. [p EXCEPT !.range = chosen] = q
      BY <1>2, <1>5, <2>5 DEF ScreenRow
    <3>3. Revalidated(p) = [p EXCEPT !.range.court = k]
      <4>1. p.range # NoRange /\ p.times.status = "ready" /\ Fits(Options(p), p.range)
        BY <1>6, <1>10
      <4>2. k = CourtFor(Options(p), p.range)
        BY <1>6, <2>1
      <4> QED BY <4>1, <4>2, Zenon DEF Revalidated
    <3> QED BY <2>3, <3>1, <3>2, <3>3
  <2>7. /\ q.range = chosen /\ Options(q) = options /\ Phase(q) = "success"
        /\ RangeOffered(q) => PageInv(q, A)
    <3>1. Phase(screen) = "success"
      BY DEF Tap, Tappable
    <3> QED BY <1>2, <1>3, <2>4, <2>5, <3>1, ChosenIs
  <2>8. TilesOf(chosen) \subseteq o.start..(o.start + o.len - 1)
    <3>1. range.start \in Int /\ range.count \in Int /\ o.len \in Int /\ o.start \in Int
      <4>1. range.start \in Int /\ range.count \in Int
        BY <1>4 DEF RangeRow
      <4>2. o.start \in Tiles /\ o.len \in Durations
        BY <1>3 DEF Slot
      <4>3. \A n \in Durations : n \in Int
        BY AvailabilityAssumption
      <4>4. \A n \in Tiles : n \in Int
        BY AvailabilityAssumption DEF Tiles
      <4> QED BY <4>1, <4>2, <4>3, <4>4
    <3> QED BY <2>2, <2>4, <3>1 DEF TilesOf
  <2>9. RangeOffered(q)
    BY <2>2, <2>4, <2>7, <2>8 DEF RangeOffered
  <2>10. PageInv(screen, Heeded(reads))'
    BY <1>1, <1>7, <2>6, <2>7, <2>9
  <2> QED BY <1>7, <2>10 DEF AvailabilityInv
<1> QED BY <1>8, <1>9, <1>10

-----------------------------------------------------------------------------
(* A read ends.                                                            *)

LEMMA AnswerIs ==
  ASSUME NEW t \in TaskRow
  PROVE  /\ t.kind # "times" => Answer(t) \subseteq PageDates
         /\ t.kind = "times" /\ t.left # {} /\ t.left \subseteq Pairs(t.courts) =>
              OfThem(Answer(t), t.courts, t.date)
<1>1. t.courts \in SUBSET PageCourts /\ t.date \in PageDates
  BY DEF TaskRow
<1>2. t.kind # "times" => Answer(t) \subseteq PageDates
  BY DEF Answer
<1>3. ASSUME t.kind = "times", t.left # {}, t.left \subseteq Pairs(t.courts)
      PROVE  OfThem(Answer(t), t.courts, t.date)
  <2>1. PICK pair : pair = NextPair(t.left)
    OBVIOUS
  <2>2. pair \in Durations \X t.courts
    <3>1. t.left \in SUBSET (Nat \X Nat)
      BY DEF TaskRow
    <3> QED BY <1>3, <2>1, <3>1, NextPairIs DEF Pairs
  <2>3. PICK len, place : len = pair[1] /\ place = pair[2] /\ len \in Durations /\ place \in t.courts
    BY <2>2
  <2>4. Answer(t) = {[start |-> s, len |-> len, court |-> place, date |-> t.date] :
                       s \in Starts(len, place, t.date)}
    BY <1>3, <2>1, <2>3 DEF Answer
  <2>5. Starts(len, place, t.date) \subseteq Tiles
    BY DEF Starts
  <2>6. \A s \in Tiles : [start |-> s, len |-> len, court |-> place, date |-> t.date] \in Slot
    BY <1>1, <2>3 DEF Slot
  <2> QED BY <2>3, <2>4, <2>5, <2>6 DEF OfThem
<1> QED BY <1>2, <1>3

\* The read that ran, and those that are left.
LEMMA ReadEnds ==
  ASSUME AvailabilityInv, reads.running # NoTask
  PROVE  /\ reads.running \in TaskRow
         /\ ReadsSound([reads EXCEPT !.running = NoTask])
         /\ Heeded([reads EXCEPT !.running = NoTask]) = Heeded(reads) \ {reads.running}
         /\ reads.running.current = TRUE => reads.running \in Heeded(reads)
         /\ reads.running.current = FALSE => reads.running \notin Heeded(reads)
         /\ \A u \in Heeded(reads) \ {reads.running} :
              reads.running.current = TRUE => u.kind # reads.running.kind
         /\ Heeded(reads) \subseteq TaskRow /\ PageInv(screen, Heeded(reads))
         /\ reads.running.current \in BOOLEAN
<1>1. reads.running \in TaskRow /\ reads.running.kind # "none" /\ reads.running.current \in BOOLEAN
  BY HeededIs DEF AvailabilityInv, TaskRow, TaskKinds
<1>2. /\ reads.running.current = TRUE => reads.running \in Heeded(reads)
      /\ reads.running.current = FALSE => reads.running \notin Heeded(reads)
  BY <1>1 DEF Heeded
<1>3. OfAKind(Heeded(reads))
  BY DEF AvailabilityInv, ReadsSound
<1> QED BY <1>1, <1>2, <1>3, ReadEndedIs, HeededIs DEF AvailabilityInv, OfAKind

\* A run goes on with its next pair.
LEMMA RunGoesOn ==
  ASSUME AvailabilityInv, NEW t, t = reads.running, t # NoTask, t.current = TRUE,
         NEW r, r = [reads EXCEPT !.running = NoTask],
         NEW found, found = t.got \cup Answer(t), t.left # {NextPair(t.left)},
         screen' = screen,
         reads' = Pumped(Enqueued(r, {[t EXCEPT !.left = @ \ {NextPair(@)}, !.got = found]}))
  PROVE  AvailabilityInv'
<1>1. PICK A : A = Heeded(reads) /\ A \subseteq TaskRow
  BY HeededIs DEF AvailabilityInv
<1>2. /\ t \in TaskRow /\ t \in A /\ ReadsSound(r) /\ Heeded(r) = A \ {t}
      /\ PageInv(screen, A) /\ AwaitedBy(screen, t)
      /\ \A u \in A \ {t} : u.kind # t.kind
  BY <1>1, ReadEnds DEF PageInv
<1>3. PICK left : left = t.left \ {NextPair(t.left)}
  OBVIOUS
<1>4. PICK u : u = [t EXCEPT !.left = left, !.got = found]
  OBVIOUS
<1>5. found \in SUBSET (PageDates \cup Slot) /\ (t.kind = "times" => OfThem(found, t.courts, t.date))
  <2>1. t.got \in SUBSET (PageDates \cup Slot)
    BY <1>2 DEF TaskRow
  <2>2. CASE t.kind # "times"
    BY <1>2, <2>1, <2>2, AnswerIs
  <2>3. CASE t.kind = "times"
    <3>1. OfThem(Answer(t), t.courts, t.date) /\ OfThem(t.got, t.courts, t.date)
      BY <1>2, <2>3, AnswerIs DEF AwaitedBy
    <3> QED BY <2>3, <3>1 DEF OfThem
  <2> QED BY <2>2, <2>3
<1>6. /\ u \in TaskRow /\ u.kind = t.kind /\ u.courts = t.courts /\ u.date = t.date
      /\ u.left = left /\ u.got = found /\ u.current = TRUE
  <2>1. left \in SUBSET (Nat \X Nat)
    BY <1>2, <1>3 DEF TaskRow
  <2> QED BY <1>2, <1>4, <1>5, <2>1 DEF TaskRow
<1>7. PICK e : e = Enqueued(r, {u})
  OBVIOUS
<1>8. ReadsSound(e) /\ Heeded(e) = (A \ {t}) \cup {u}
  <2>1. PICK tasks : tasks = {u}
    OBVIOUS
  <2>2. tasks \in SUBSET TaskRow /\ OfAKind(tasks) /\ \A v \in tasks : v = u
    BY <1>6, <2>1 DEF OfAKind
  <2>3. \A v \in tasks : v.current = TRUE /\ \A w \in Heeded(r) : v.kind # w.kind
    BY <1>2, <1>6, <2>2
  <2>4. ReadsSound(r) /\ \A v \in tasks : v.current = TRUE /\ \A w \in Heeded(r) : v.kind # w.kind
    BY <1>2, <2>3
  <2>5. e = Enqueued(r, tasks)
    BY <1>7, <2>1
  <2>6. ReadsSound(e) /\ Heeded(e) = Heeded(r) \cup tasks
    BY ONLY <2>2, <2>4, <2>5, EnqueuedIs
  <2> QED BY <1>2, <2>1, <2>6
<1>9. reads' = Pumped(e)
  BY <1>3, <1>4, <1>7
<1>10. AwaitedBy(screen, u)
  <2>1. t.kind = "times" => left # {} /\ left \subseteq Pairs(t.courts)
    BY <1>2, <1>3 DEF AwaitedBy
  <2>2. t.kind = "times" => OfThem(found, t.courts, t.date)
    BY <1>5
  <2> QED BY <1>2, <1>6, <2>1, <2>2 DEF AwaitedBy
<1>11. \A status, kind : AwaitsA(A, status, kind) => AwaitsA(Heeded(e), status, kind)
  BY <1>2, <1>6, <1>8 DEF AwaitsA
<1>12. Loads(screen, Heeded(e))
  BY <1>2, <1>11 DEF PageInv, Loads
<1>13. PageInv(screen, Heeded(e))
  BY <1>2, <1>8, <1>10, <1>12 DEF PageInv
<1>14. PageInv(screen', Heeded(e))
  BY <1>13
<1> QED BY <1>8, <1>9, <1>14, NextHolds

\* The services are there, and the courts are asked for.
LEMMA ServicesFinish ==
  ASSUME AvailabilityInv, NEW t, t = reads.running, t # NoTask, t.current = TRUE,
         NEW r, r = [reads EXCEPT !.running = NoTask], NEW found, t.kind = "services",
         Finished(t, r, found)
  PROVE  AvailabilityInv'
<1>1. PICK A : A = Heeded(reads) /\ A \subseteq TaskRow
  BY HeededIs DEF AvailabilityInv
<1>2. /\ t \in TaskRow /\ t \in A /\ ReadsSound(r) /\ Heeded(r) = {} /\ PageInv(screen, A)
      /\ screen.asked = {} /\ screen.range = NoRange
  <2>1. /\ t \in TaskRow /\ t \in A /\ ReadsSound(r) /\ Heeded(r) = A \ {t} /\ PageInv(screen, A)
        /\ \A u \in A \ {t} : u.kind # t.kind
    BY <1>1, ReadEnds
  <2> QED BY <1>1, <2>1, WhileLoading
<1>3. PICK none, kind : none = {} /\ kind = "courts"
  OBVIOUS
<1>4. PICK left : left = Pairs({AnyCourt}) /\ left \in SUBSET (Nat \X Nat)
  BY PairsAre
<1>5. PICK first : first = FirstDate /\ first \in PageDates
  BY LoadIs
<1>6. PICK u : u = Task(kind, none, first, left)
  OBVIOUS
<1>7. u \in TaskRow /\ u.kind = "courts" /\ u.current = TRUE
  <2>1. none \in SUBSET PageCourts /\ kind \in TaskKinds
    BY <1>3 DEF TaskKinds
  <2> QED BY <1>3, <1>4, <1>5, <1>6, <2>1 DEF Task, TaskRow
<1>8. PICK e : e = Enqueued(r, {u})
  OBVIOUS
<1>9. ReadsSound(e) /\ Heeded(e) = {u}
  <2>1. PICK tasks : tasks = {u}
    OBVIOUS
  <2>2. tasks \in SUBSET TaskRow /\ OfAKind(tasks) /\ \A v \in tasks : v = u
    BY <1>7, <2>1 DEF OfAKind
  <2>3. \A v \in tasks : v.current = TRUE /\ \A w \in Heeded(r) : v.kind # w.kind
    BY <1>2, <1>7, <2>2
  <2>4. ReadsSound(e) /\ Heeded(e) = Heeded(r) \cup tasks
    BY <1>2, <1>8, <2>1, <2>2, <2>3, EnqueuedIs
  <2> QED BY <1>2, <2>1, <2>4
<1>10. PICK s : s = [screen EXCEPT !.services = "ready", !.courts = "loading"]
  OBVIOUS
<1>11. screen' = s /\ reads' = Pumped(e)
  BY <1>3, <1>4, <1>5, <1>6, <1>8, <1>10 DEF Finished
<1>12. /\ s \in ScreenRow /\ s.services = "ready" /\ s.courts = "loading" /\ s.asked = {}
       /\ s.range = NoRange /\ s.times = screen.times
  BY <1>2, <1>10, LoadIs DEF PageInv, ScreenRow
<1>13. Loads(s, {u})
  <2>1. QueryCourts(s) = {}
    BY <1>12, QueryIs
  <2> QED BY <1>7, <1>12, <2>1 DEF Loads, AwaitsA
<1>14. AwaitedBy(s, u)
  BY <1>7, <1>12 DEF AwaitedBy
<1>15. PageInv(s, {u})
  BY <1>2, <1>12, <1>13, <1>14 DEF PageInv, RangeOffered
<1>16. PageInv(screen', Heeded(e))
  BY <1>9, <1>11, <1>15
<1> QED BY <1>9, <1>11, <1>16, NextHolds

\* The courts are there, and both effects run.
LEMMA CourtsFinish ==
  ASSUME AvailabilityInv, NEW t, t = reads.running, t # NoTask, t.current = TRUE,
         NEW r, r = [reads EXCEPT !.running = NoTask], NEW found, t.kind = "courts",
         Finished(t, r, found)
  PROVE  AvailabilityInv'
<1>1. PICK A : A = Heeded(reads) /\ A \subseteq TaskRow
  BY HeededIs DEF AvailabilityInv
<1>2. /\ t \in TaskRow /\ t \in A /\ ReadsSound(r) /\ Heeded(r) = {} /\ screen \in ScreenRow
      /\ screen.asked = {} /\ screen.range = NoRange /\ screen.services = "ready"
  <2>1. /\ t \in TaskRow /\ t \in A /\ ReadsSound(r) /\ Heeded(r) = A \ {t} /\ PageInv(screen, A)
        /\ \A u \in A \ {t} : u.kind # t.kind
    BY <1>1, ReadEnds
  <2> QED BY <1>1, <2>1, WhileLoading DEF PageInv
<1>3. PICK place : /\ place = IF screen.catalogued THEN screen.court
                              ELSE CHOOSE c \in PageCourts : \A b \in PageCourts : c <= b
                   /\ place \in PageCourts \cup {AnyCourt}
  <2>1. PICK least : least = CHOOSE c \in PageCourts : \A b \in PageCourts : c <= b
    OBVIOUS
  <2>2. \E k \in PageCourts : \A b \in PageCourts : k <= b
    BY LeastIs, AvailabilityAssumption
  <2>3. least \in PageCourts
    BY <2>1, <2>2
  <2>4. screen.court \in PageCourts \cup {AnyCourt}
    BY <1>2 DEF ScreenRow
  <2> QED BY <2>1, <2>3, <2>4
<1>4. PICK p : p = [screen EXCEPT !.courts = "ready", !.catalogued = TRUE, !.court = place]
  OBVIOUS
<1>5. /\ p \in ScreenRow /\ p.services = "ready" /\ p.courts = "ready" /\ p.range = NoRange
      /\ p.asked = {}
  BY <1>2, <1>3, <1>4, LoadIs DEF ScreenRow
<1>6. Requeried(p, r)
  BY <1>3, <1>4 DEF Finished
<1> QED BY <1>2, <1>5, <1>6, RequeriedKeeps

\* A run of dates or times is settled, as ready or as an error.
SettledAs(t, p, part) ==
  /\ part \in LoadRow /\ part.status \in {"ready", "error"}
  /\ part.courts = t.courts /\ part.date = t.date
  /\ \/ t.kind = "dates" /\ p = [screen EXCEPT !.dates = part]
     \/ /\ t.kind = "times" /\ p = [screen EXCEPT !.times = part]
        /\ OfThem(part.found, t.courts, t.date)

LEMMA RunIsSettled ==
  ASSUME AvailabilityInv, NEW t, t = reads.running, t # NoTask, t.current = TRUE,
         NEW r, r = [reads EXCEPT !.running = NoTask],
         NEW part, NEW p, SettledAs(t, p, part)
  PROVE  ReadsSound(r) /\ PageInv(p, Heeded(r)) /\ p.range = NoRange
<1>1. PICK A : A = Heeded(reads) /\ A \subseteq TaskRow
  BY HeededIs DEF AvailabilityInv
<1>2. /\ t \in TaskRow /\ t \in A /\ ReadsSound(r) /\ Heeded(r) = A \ {t}
      /\ PageInv(screen, A) /\ AwaitedBy(screen, t)
      /\ \A u \in A \ {t} : u.kind # t.kind
  BY <1>1, ReadEnds DEF PageInv
<1>3. t.kind \in {"dates", "times"}
  BY DEF SettledAs
<1>4. /\ screen \in ScreenRow /\ screen.services = "ready" /\ screen.courts = "ready"
      /\ screen.range = NoRange /\ \A u \in A : u.kind \in {"dates", "times"}
      /\ Loads(screen, A) /\ \A u \in A : AwaitedBy(screen, u)
  BY <1>1, <1>2, <1>3, WhileLoading DEF PageInv
<1>5. /\ part \in LoadRow /\ part.status \in {"ready", "error"}
      /\ part.courts = t.courts /\ part.date = t.date
  BY DEF SettledAs
<1>6. CASE t.kind = "dates"
  <2>1. p = [screen EXCEPT !.dates = part]
    BY <1>6 DEF SettledAs
  <2>2. /\ p \in ScreenRow /\ p.services = "ready" /\ p.courts = "ready" /\ p.range = NoRange
        /\ p.asked = screen.asked /\ p.dates = part /\ p.times = screen.times
        /\ p.date = screen.date /\ p.court = screen.court
    BY <1>4, <1>5, <2>1 DEF ScreenRow
  <2>3. QueryCourts(p) = QueryCourts(screen)
    BY <1>4, <2>2 DEF QueryCourts
  <2>4. t.courts = screen.dates.courts
    BY <1>2, <1>6 DEF AwaitedBy
  <2>5. AwaitsA(Heeded(r), p.times.status, "times")
    BY <1>2, <1>4, <1>6, <2>2 DEF Loads, AwaitsA
  <2>6. Loads(p, Heeded(r))
    <3>1. p.dates.status # "idle" /\ p.dates.status # "loading" /\ p.dates.courts = QueryCourts(p)
      BY <1>4, <1>5, <2>2, <2>3, <2>4 DEF Loads
    <3>2. AwaitsA(Heeded(r), p.dates.status, "dates")
      BY <3>1 DEF AwaitsA
    <3>3. AwaitsA(Heeded(r), p.services, "services") /\ AwaitsA(Heeded(r), p.courts, "courts")
      BY <2>2 DEF AwaitsA
    <3> QED BY <1>4, <2>2, <2>3, <2>5, <3>1, <3>2, <3>3 DEF Loads
  <2>7. \A u \in Heeded(r) : AwaitedBy(p, u)
    <3>1. \A u \in Heeded(r) : u.kind = "times" /\ AwaitedBy(screen, u)
      BY <1>2, <1>4, <1>6
    <3> QED BY <2>2, <3>1 DEF AwaitedBy
  <2> QED BY <1>2, <2>2, <2>6, <2>7 DEF PageInv, RangeOffered
<1>7. CASE t.kind = "times"
  <2>1. p = [screen EXCEPT !.times = part] /\ OfThem(part.found, t.courts, t.date)
    BY <1>7 DEF SettledAs
  <2>2. /\ p \in ScreenRow /\ p.services = "ready" /\ p.courts = "ready" /\ p.range = NoRange
        /\ p.asked = screen.asked /\ p.dates = screen.dates /\ p.times = part
        /\ p.date = screen.date /\ p.court = screen.court
    BY <1>4, <1>5, <2>1 DEF ScreenRow
  <2>3. QueryCourts(p) = QueryCourts(screen)
    BY <1>4, <2>2 DEF QueryCourts
  <2>4. t.courts = screen.times.courts /\ t.date = screen.times.date
    BY <1>2, <1>7 DEF AwaitedBy
  <2>5. AwaitsA(Heeded(r), p.dates.status, "dates")
    BY <1>2, <1>4, <1>7, <2>2 DEF Loads, AwaitsA
  <2>6. Loads(p, Heeded(r))
    <3>1. /\ p.times.status # "idle" /\ p.times.status # "loading"
          /\ p.times.courts = QueryCourts(p) /\ p.times.date = p.date
      BY <1>4, <1>5, <2>2, <2>3, <2>4 DEF Loads
    <3>2. AwaitsA(Heeded(r), p.times.status, "times")
      BY <3>1 DEF AwaitsA
    <3>3. AwaitsA(Heeded(r), p.services, "services") /\ AwaitsA(Heeded(r), p.courts, "courts")
      BY <2>2 DEF AwaitsA
    <3> QED BY <1>4, <2>2, <2>3, <2>5, <3>1, <3>2, <3>3 DEF Loads
  <2>7. \A u \in Heeded(r) : AwaitedBy(p, u)
    <3>1. \A u \in Heeded(r) : u.kind = "dates" /\ AwaitedBy(screen, u)
      BY <1>2, <1>4, <1>7
    <3> QED BY <2>2, <3>1 DEF AwaitedBy
  <2>8. OfThem(p.times.found, p.times.courts, p.times.date)
    BY <1>5, <2>1, <2>2
  <2> QED BY <2>2, <2>6, <2>7, <2>8, <1>2 DEF PageInv, RangeOffered
<1> QED BY <1>6, <1>7, <1>3

LEMMA RunFinishes ==
  ASSUME AvailabilityInv, NEW t, t = reads.running, t # NoTask, t.current = TRUE,
         NEW r, r = [reads EXCEPT !.running = NoTask],
         NEW found, found = t.got \cup Answer(t), t.left = {NextPair(t.left)},
         t.kind \in {"dates", "times"}, Finished(t, r, found)
  PROVE  AvailabilityInv'
<1>1. PICK A : A = Heeded(reads)
  OBVIOUS
<1>2. t \in TaskRow /\ t \in A /\ AwaitedBy(screen, t) /\ screen \in ScreenRow
  BY <1>1, ReadEnds DEF PageInv
<1>3. t.got \in SUBSET (PageDates \cup Slot)
  BY <1>2 DEF TaskRow
<1>4. t.kind = "times" => OfThem(found, t.courts, t.date)
  BY <1>2, AnswerIs DEF AwaitedBy, OfThem
<1>5. found \in SUBSET (PageDates \cup Slot)
  <2>1. CASE t.kind = "times"
    BY <1>4, <2>1 DEF OfThem
  <2>2. CASE t.kind = "dates"
    BY <1>2, <1>3, <2>2, AnswerIs
  <2> QED BY <2>1, <2>2
<1>6. PICK status : status = "ready" /\ status \in {"ready", "error"}
  OBVIOUS
<1>7. PICK part : part = [status |-> status, courts |-> t.courts, date |-> t.date, found |-> found]
  OBVIOUS
<1>8. PICK p : p = [screen EXCEPT ![t.kind] = part]
  OBVIOUS
<1>9. /\ t.kind = "dates" => p = [screen EXCEPT !.dates = part]
      /\ t.kind = "times" => p = [screen EXCEPT !.times = part]
  BY <1>8
<1>10. ReadsSound(r) /\ PageInv(p, Heeded(r)) /\ p.range = NoRange
  <2>1. /\ part \in LoadRow /\ part.status \in {"ready", "error"}
        /\ part.courts = t.courts /\ part.date = t.date /\ part.found = found
    BY <1>2, <1>5, <1>6, <1>7 DEF LoadRow, TaskRow, Phases
  <2>2. SettledAs(t, p, part)
    BY <1>4, <1>9, <2>1 DEF SettledAs
  <2> QED BY <2>2, RunIsSettled
<1>11. screen' = Revalidated(p) /\ reads' = Pumped(r)
  BY <1>6, <1>7, <1>8 DEF Finished
<1>12. Revalidated(p) = p
  BY <1>10 DEF Revalidated
<1>13. PageInv(screen', Heeded(r))
  BY <1>10, <1>11, <1>12
<1> QED BY <1>10, <1>11, <1>13, NextHolds

LEMMA ReadAnsweredKeeps ==
  ASSUME AvailabilityInv, ReadAnswered
  PROVE  AvailabilityInv'
<1>1. PICK t, r : t = reads.running /\ r = [reads EXCEPT !.running = NoTask]
  OBVIOUS
<1>2. PICK found : found = t.got \cup Answer(t)
  OBVIOUS
<1>3. /\ t # NoTask
      /\ IF ~Accepted(t) THEN reads' = Pumped(r) /\ UNCHANGED screen
         ELSE IF t.left = {NextPair(t.left)} THEN Finished(t, r, found)
         ELSE /\ reads' = Pumped(Enqueued(r, {[t EXCEPT !.left = @ \ {NextPair(@)}, !.got = found]}))
              /\ UNCHANGED screen
  BY <1>1, <1>2 DEF ReadAnswered
<1>4. /\ t \in TaskRow /\ ReadsSound(r) /\ Heeded(r) = Heeded(reads) \ {t}
      /\ t.current = FALSE => t \notin Heeded(reads)
      /\ t.current \in BOOLEAN /\ PageInv(screen, Heeded(reads))
  BY <1>1, <1>3, ReadEnds
<1>5. CASE ~Accepted(t)
  <2>1. Heeded(r) = Heeded(reads)
    BY <1>4, <1>5 DEF Accepted
  <2>2. screen' = screen /\ reads' = Pumped(r)
    BY <1>3, <1>5
  <2>3. PageInv(screen', Heeded(r))
    BY <1>4, <2>1, <2>2
  <2> QED BY <1>4, <2>2, <2>3, NextHolds
<1>6. CASE Accepted(t) /\ t.left # {NextPair(t.left)}
  <2>1. t.current = TRUE
    BY <1>4, <1>6 DEF Accepted
  <2>2. /\ screen' = screen
        /\ reads' = Pumped(Enqueued(r, {[t EXCEPT !.left = @ \ {NextPair(@)}, !.got = found]}))
    BY <1>3, <1>6
  <2> QED BY <1>1, <1>2, <1>3, <1>6, <2>1, <2>2, RunGoesOn
<1>7. CASE Accepted(t) /\ t.left = {NextPair(t.left)}
  <2>1. t.current = TRUE
    BY <1>4, <1>7 DEF Accepted
  <2>2. Finished(t, r, found)
    BY <1>3, <1>7
  <2>3. t.kind \in {"services", "courts", "dates", "times"}
    BY <1>4 DEF TaskRow, TaskKinds
  <2>4. CASE t.kind = "services"
    BY <1>1, <1>3, <2>1, <2>2, <2>4, ServicesFinish
  <2>5. CASE t.kind = "courts"
    BY <1>1, <1>3, <2>1, <2>2, <2>5, CourtsFinish
  <2>6. CASE t.kind \in {"dates", "times"}
    BY <1>1, <1>2, <1>3, <1>7, <2>1, <2>2, <2>6, RunFinishes
  <2> QED BY <2>3, <2>4, <2>5, <2>6
<1> QED BY <1>5, <1>6, <1>7

LEMMA ReadFailedKeeps ==
  ASSUME AvailabilityInv, ReadFailed
  PROVE  AvailabilityInv'
<1>1. PICK t, r : t = reads.running /\ r = [reads EXCEPT !.running = NoTask]
  OBVIOUS
<1>2. t # NoTask /\ reads' = Pumped(r)
  BY <1>1 DEF ReadFailed
<1>3. PICK A : A = Heeded(reads) /\ A \subseteq TaskRow
  BY HeededIs DEF AvailabilityInv
<1>4. /\ t \in TaskRow /\ ReadsSound(r) /\ Heeded(r) = A \ {t} /\ t.current \in BOOLEAN
      /\ t.current = FALSE => t \notin A
      /\ t.current = TRUE => t \in A /\ \A u \in A \ {t} : u.kind # t.kind
      /\ PageInv(screen, A) /\ screen \in ScreenRow
  BY <1>1, <1>2, <1>3, ReadEnds DEF PageInv
<1>5. CASE t.current = FALSE
  <2>1. Heeded(r) = A /\ screen' = screen
    BY <1>1, <1>4, <1>5 DEF ReadFailed, Accepted
  <2>2. PageInv(screen', Heeded(r))
    BY <1>4, <2>1
  <2> QED BY <1>2, <1>4, <2>2, NextHolds
<1>6. CASE t.current = TRUE /\ t.kind \in {"services", "courts"}
  <2>1. PICK p : p = screen' /\ p = [screen EXCEPT ![t.kind] = "error"]
    BY <1>1, <1>6 DEF ReadFailed, Accepted
  <2>2. /\ screen.asked = {} /\ screen.range = NoRange /\ Heeded(r) = {}
        /\ t.kind = "services" => screen.courts = "idle"
        /\ t.kind = "courts" => screen.services = "ready"
    BY <1>3, <1>4, <1>6, WhileLoading
  <2>3. /\ t.kind = "services" => p = [screen EXCEPT !.services = "error"]
        /\ t.kind = "courts" => p = [screen EXCEPT !.courts = "error"]
    BY <2>1
  <2>4. /\ p \in ScreenRow /\ p.asked = {} /\ p.range = NoRange /\ p.times = screen.times
        /\ \/ p.services = "error" /\ p.courts = "idle"
           \/ p.services = "ready" /\ p.courts = "error"
    <3>1. "error" \in Phases
      BY LoadIs
    <3>2. CASE t.kind = "services"
      BY <1>4, <2>2, <2>3, <3>1, <3>2 DEF ScreenRow
    <3>3. CASE t.kind = "courts"
      BY <1>4, <2>2, <2>3, <3>1, <3>3 DEF ScreenRow
    <3> QED BY <1>6, <3>2, <3>3
  <2>5. QueryCourts(p) = {}
    BY <2>4, QueryIs
  <2>6. Loads(p, {})
    BY <2>4, <2>5 DEF Loads, AwaitsA
  <2>7. PageInv(p, {})
    BY <1>4, <2>4, <2>6 DEF PageInv, RangeOffered
  <2>8. PageInv(screen', Heeded(r))
    BY <2>1, <2>2, <2>7
  <2> QED BY <1>2, <1>4, <2>8, NextHolds
<1>7. CASE t.current = TRUE /\ t.kind \in {"dates", "times"}
  <2>1. PICK none : none = {}
    OBVIOUS
  <2>2. PICK part : part = [status |-> "error", courts |-> t.courts, date |-> t.date, found |-> none]
    OBVIOUS
  <2>3. PICK p : p = screen' /\ p = [screen EXCEPT ![t.kind] = part]
    BY <1>1, <1>7, <2>1, <2>2 DEF ReadFailed, Accepted
  <2>4. /\ t.kind = "dates" => p = [screen EXCEPT !.dates = part]
        /\ t.kind = "times" => p = [screen EXCEPT !.times = part]
    BY <2>3
  <2>5. /\ part \in LoadRow /\ part.status = "error" /\ part.courts = t.courts
        /\ part.date = t.date /\ part.found = {}
    BY <1>4, <2>1, <2>2 DEF LoadRow, TaskRow, Phases
  <2>6. SettledAs(t, p, part)
    BY <1>7, <2>4, <2>5 DEF SettledAs, OfThem
  <2>7. PageInv(p, Heeded(r))
    BY <1>1, <1>2, <1>7, <2>6, RunIsSettled
  <2>8. PageInv(screen', Heeded(r))
    BY <2>3, <2>7
  <2> QED BY <1>2, <1>4, <2>8, NextHolds
<1> QED
  <2>1. t.kind \in {"services", "courts", "dates", "times"}
    BY <1>4 DEF TaskRow, TaskKinds
  <2> QED BY <1>4, <1>5, <1>6, <1>7, <2>1

LEMMA AvailabilityStepInv ==
  AvailabilityInv /\ [AvailabilityNext]_screenVars => AvailabilityInv'
<1> SUFFICES ASSUME AvailabilityInv, [AvailabilityNext]_screenVars
             PROVE  AvailabilityInv'
  OBVIOUS
<1>1. CASE screen' = screen /\ reads' = reads
  <2>1. PageInv(screen, Heeded(reads))'
    BY <1>1 DEF AvailabilityInv
  <2> QED BY <1>1, <2>1 DEF AvailabilityInv
<1>2. CASE AvailabilityNext
  BY <1>1, <1>2, RefreshedPageKeeps, ReadAnsweredKeeps, ReadFailedKeeps, SelectDateKeeps, SelectCourtKeeps,
     TapKeeps DEF AvailabilityNext, OthersBook
<1> QED BY <1>1, <1>2 DEF screenVars

\* When no read is left, none is waited for.
LEMMA NoReadNoLoading ==
  ASSUME AvailabilityInv, reads.running = NoTask
  PROVE  Phase(screen) # "loading"
<1>1. Heeded(reads) = {}
  BY NoTaskIs DEF AvailabilityInv, Heeded
<1>2. Loads(screen, {}) /\ screen \in ScreenRow
  BY <1>1 DEF AvailabilityInv, PageInv
<1>3. \A status, kind : AwaitsA({}, status, kind) => status # "loading"
  BY DEF AwaitsA
<1>4. /\ screen.services \in {"ready", "error"} /\ screen.courts # "loading"
      /\ screen.services = "ready" => screen.courts \in {"ready", "error"}
  BY <1>2, <1>3 DEF Loads, ScreenRow, Phases
<1>5. screen.courts = "ready" =>
        /\ screen.dates.status \in {"ready", "error"} /\ DatesAreCurrent(screen)
        /\ screen.times.status \in {"ready", "error"} /\ TimesAreCurrent(screen)
  BY <1>2, <1>3 DEF Loads, ScreenRow, LoadRow, Phases, DatesAreCurrent, TimesAreCurrent
<1> QED BY <1>4, <1>5, PhaseIs

\* However often the date, the court and the catalogue change under the reads,
\* what can be tapped is current, what is chosen lies in one offer, and a page
\* without a read shows times or an error.
THEOREM AvailabilityIsAlwaysTrue == AvailabilitySpec => []AvailabilityIsTrue
<1>1. AvailabilityInv => AvailabilityIsTrue
  <2> SUFFICES ASSUME AvailabilityInv PROVE AvailabilityIsTrue
    OBVIOUS
  <2>1. \A o \in Options(screen) : o.date = screen.date /\ o.court \in QueryCourts(screen)
    BY OptionsAre DEF AvailabilityInv, PageInv
  <2>2. RangeOffered(screen)
    BY DEF AvailabilityInv, PageInv
  <2>3. reads.running = NoTask => Phase(screen) # "loading"
    BY NoReadNoLoading
  <2> QED BY <2>1, <2>2, <2>3 DEF AvailabilityIsTrue, RangeOffered
<1> QED BY <1>1, AvailabilityInitInv, AvailabilityStepInv, PTL DEF AvailabilitySpec

\* A range lies in the day; dates that were found are of the strip.
RangeFits(range) ==
  /\ range.start \in Tiles /\ range.count \in 0..MaxSlots
  /\ range.start + range.count - 1 <= LastTile
GotFits(A) == \A t \in A : t.kind = "dates" => t.got \subseteq PageDates
BusyTyped == busy \in [PageCourts -> [PageDates -> SUBSET Tiles]]
PageFits == RangeFits(screen.range) /\ screen.dates.found \subseteq PageDates
AvailabilityTyped == PageFits /\ GotFits(Heeded(reads)) /\ BusyTyped

LEMMA PumpedHeeds == ASSUME NEW r PROVE Heeded(Pumped(r)) \subseteq Heeded(r)
<1>1. CASE r.running # NoTask \/ r.waiting = {}
  BY <1>1 DEF Pumped
<1>2. CASE ~(r.running # NoTask \/ r.waiting = {})
  <2>1. PICK next \in r.waiting : Pumped(r) = [running |-> next, waiting |-> r.waiting \ {next}]
    <3>1. PICK urgent : urgent = {t \in r.waiting : t.kind # "dates"}
      OBVIOUS
    <3>2. \E t \in r.waiting : urgent = {} \/ t \in urgent
      BY <1>2, <3>1
    <3>3. (CHOOSE t \in r.waiting : urgent = {} \/ t \in urgent) \in r.waiting
      BY <3>2
    <3> QED BY <1>2, <3>1, <3>3, Zenon DEF Pumped
  <2>2. PICK q : q = Pumped(r)
    OBVIOUS
  <2>3. q.running = next /\ q.waiting = r.waiting \ {next}
    BY <2>1, <2>2
  <2> QED BY <2>2, <2>3 DEF Heeded
<1> QED BY <1>1, <1>2

LEMMA CancelledHeeds ==
  ASSUME NEW r \in ReadsRow, NEW kinds, "none" \notin kinds
  PROVE  Cancelled(r, kinds) \in ReadsRow /\ Heeded(Cancelled(r, kinds)) \subseteq Heeded(r)
<1>1. PICK waiting : waiting = {t \in r.waiting : t.kind \notin kinds}
  OBVIOUS
<1>2. PICK running : running = IF r.running.kind \in kinds THEN [r.running EXCEPT !.current = FALSE]
                               ELSE r.running
  OBVIOUS
<1>3. PICK q : q = Cancelled(r, kinds)
  OBVIOUS
<1>4. q = [waiting |-> waiting, running |-> running]
  BY <1>1, <1>2, <1>3, Zenon DEF Cancelled
<1>5. r.waiting \subseteq TaskRow /\ r.running \in TaskRow \cup {NoTask}
  BY DEF ReadsRow
<1>6. \/ running = r.running
      \/ running \in TaskRow /\ running.current = FALSE
  <2>1. CASE r.running.kind \in kinds
    <3>1. r.running \in TaskRow
      BY <1>5, <2>1, NoTaskIs
    <3>2. running = [r.running EXCEPT !.current = FALSE]
      BY <1>2, <2>1
    <3> QED BY <3>1, <3>2 DEF TaskRow
  <2>2. CASE r.running.kind \notin kinds
    BY <1>2, <2>2
  <2> QED BY <2>1, <2>2
<1>7. q.waiting = waiting /\ q.running = running /\ q \in ReadsRow
  BY <1>1, <1>4, <1>5, <1>6 DEF ReadsRow
<1> QED BY <1>1, <1>3, <1>6, <1>7 DEF Heeded

LEMMA EnqueuedHeeds ==
  ASSUME NEW r \in ReadsRow, NEW tasks
  PROVE  Heeded(Enqueued(r, tasks)) \subseteq Heeded(r) \cup tasks
<1>1. PICK q : q = Enqueued(r, tasks)
  OBVIOUS
<1>2. q.running = r.running /\ q.waiting = r.waiting \cup tasks
  BY <1>1 DEF Enqueued, ReadsRow
<1> QED BY <1>1, <1>2 DEF Heeded

\* What is listened to after reads were replaced and added.
LEMMA ReadsHeed ==
  ASSUME NEW r \in ReadsRow, NEW kinds, "none" \notin kinds, NEW tasks
  PROVE  /\ Heeded(Pumped(Enqueued(Cancelled(r, kinds), tasks))) \subseteq Heeded(r) \cup tasks
         /\ Heeded(Pumped(Enqueued(r, tasks))) \subseteq Heeded(r) \cup tasks
         /\ Heeded(Pumped(r)) \subseteq Heeded(r)
<1>1. PICK c : c = Cancelled(r, kinds) /\ c \in ReadsRow /\ Heeded(c) \subseteq Heeded(r)
  BY CancelledHeeds
<1>2. PICK e, f : e = Enqueued(c, tasks) /\ f = Enqueued(r, tasks)
  OBVIOUS
<1>3. Heeded(e) \subseteq Heeded(c) \cup tasks /\ Heeded(f) \subseteq Heeded(r) \cup tasks
  BY <1>1, <1>2, EnqueuedHeeds
<1>4. /\ Heeded(Pumped(e)) \subseteq Heeded(e) /\ Heeded(Pumped(f)) \subseteq Heeded(f)
      /\ Heeded(Pumped(r)) \subseteq Heeded(r)
  BY PumpedHeeds
<1> QED BY <1>1, <1>2, <1>3, <1>4

LEMMA NoRangeFits == RangeFits(NoRange)
BY NoRangeIs, AvailabilityAssumption DEF RangeFits, NoRange, Tiles, MaxSlots

LEMMA NewTasksHaveNothing ==
  ASSUME NEW p
  PROVE  \A t \in DatesTasks(p) \cup TimesTasks(p) : t.got = {}
<1>1. ASSUME NEW kind, NEW courts, NEW date, NEW left PROVE Task(kind, courts, date, left).got = {}
  BY DEF Task
<1> QED BY <1>1 DEF DatesTasks, TimesTasks

LEMMA RevalidatedFits ==
  ASSUME NEW p, {"range", "dates"} \subseteq DOMAIN p, {"start", "count"} \subseteq DOMAIN p.range,
         RangeFits(p.range), p.dates.found \subseteq PageDates
  PROVE  RangeFits(Revalidated(p).range) /\ Revalidated(p).dates.found \subseteq PageDates
<1>1. PICK none : none = NoRange /\ RangeFits(none)
  BY NoRangeFits
<1>2. PICK k : k = CourtFor(Options(p), p.range)
  OBVIOUS
<1>3. CASE Revalidated(p) = p
  BY <1>3
<1>4. CASE Revalidated(p) = [p EXCEPT !.range = none]
  BY <1>1, <1>4
<1>5. CASE /\ Fits(Options(p), p.range) /\ Revalidated(p) = [p EXCEPT !.range.court = k]
  <2>1. PICK range : range = [p.range EXCEPT !.court = k]
    OBVIOUS
  <2>2. range.start = p.range.start /\ range.count = p.range.count
    BY <2>1
  <2>3. Revalidated(p) = [p EXCEPT !.range = range]
    BY <1>5, <2>1
  <2> QED BY <2>2, <2>3 DEF RangeFits
<1> QED
  <2>1. CASE p.range = NoRange \/ p.times.status # "ready"
    BY <1>3, <2>1 DEF Revalidated
  <2>2. CASE ~(p.range = NoRange \/ p.times.status # "ready") /\ ~Fits(Options(p), p.range)
    BY <1>1, <1>4, <2>2 DEF Revalidated
  <2>3. CASE ~(p.range = NoRange \/ p.times.status # "ready") /\ Fits(Options(p), p.range)
    BY <1>2, <1>5, <2>3 DEF Revalidated
  <2> QED BY <2>1, <2>2, <2>3

LEMMA WithDatesFits ==
  ASSUME NEW p, {"range", "dates", "asked"} \subseteq DOMAIN p, p.dates.found \subseteq PageDates
  PROVE  /\ WithDates(p).range = p.range /\ WithDates(p).dates.found \subseteq PageDates
         /\ DOMAIN WithDates(p) = DOMAIN p
<1>1. PICK courts : courts = QueryCourts(p)
  OBVIOUS
<1>2. PICK none, first : none = {} /\ first = FirstDate
  OBVIOUS
<1>3. PICK begun : begun = [status |-> "loading", courts |-> courts, date |-> first, found |-> none]
  OBVIOUS
<1>4. begun = [Blank EXCEPT !.courts = courts]
  BY <1>2, <1>3, BlankIs
<1>5. begun.found \subseteq PageDates
  BY <1>2, <1>3
<1>6. WithDates(p) = IF AsksDates(p) THEN [p EXCEPT !.asked = courts, !.dates = begun] ELSE p
  BY <1>1, <1>4 DEF WithDates
<1> QED BY <1>5, <1>6

LEMMA WithTimesFits ==
  ASSUME NEW p, {"range", "dates", "times"} \subseteq DOMAIN p
  PROVE  /\ WithTimes(p).range = p.range /\ WithTimes(p).dates = p.dates
         /\ DOMAIN WithTimes(p) = DOMAIN p
<1>1. PICK begun : begun = [Blank EXCEPT !.courts = QueryCourts(p), !.date = p.date]
  OBVIOUS
<1>2. WithTimes(p) = IF QueryCourts(p) # {} THEN [p EXCEPT !.times = begun] ELSE p
  BY <1>1 DEF WithTimes
<1> QED BY <1>2

\* The query changes: nothing is chosen, and the reads that begin have nothing.
LEMMA RequeriedFits ==
  ASSUME NEW p, {"range", "dates", "times", "asked"} \subseteq DOMAIN p, p.range = NoRange,
         p.dates.found \subseteq PageDates,
         NEW r \in ReadsRow, GotFits(Heeded(r)), Requeried(p, r)
  PROVE  PageFits' /\ GotFits(Heeded(reads))'
<1>1. PICK q : q = Forgotten(p, r)
  OBVIOUS
<1>2. q.range = p.range /\ q.dates = p.dates /\ DOMAIN q = DOMAIN p
  BY <1>1 DEF Forgotten
<1>3. PICK d : d = WithDates(q) /\ d.range = q.range /\ d.dates.found \subseteq PageDates /\ DOMAIN d = DOMAIN q
  BY <1>2, WithDatesFits
<1>4. PICK s : s = WithTimes(d) /\ s.range = d.range /\ s.dates = d.dates /\ DOMAIN s = DOMAIN d
  BY <1>2, <1>3, WithTimesFits
<1>5. screen' = Revalidated(s)
  BY <1>1, <1>3, <1>4 DEF Requeried
<1>6. {"start", "count"} \subseteq DOMAIN s.range
  BY <1>2, <1>3, <1>4 DEF NoRange
<1>7. PageFits'
  BY <1>2, <1>3, <1>4, <1>5, <1>6, NoRangeFits, RevalidatedFits DEF PageFits
<1>8. PICK tasks : tasks = DatesTasks(q) \cup TimesTasks(q) /\ \A t \in tasks : t.got = {}
  BY NewTasksHaveNothing
<1>9. PICK kinds : kinds = {"dates", "times"} /\ "none" \notin kinds
  <2>1. "none" \notin {"dates", "times"}
    OBVIOUS
  <2> QED BY <2>1
<1>10. Heeded(reads') \subseteq Heeded(r) \cup tasks
  BY <1>1, <1>8, <1>9, ReadsHeed DEF Requeried
<1>11. GotFits(Heeded(reads'))
  BY <1>8, <1>10 DEF GotFits
<1> QED BY <1>7, <1>11

LEMMA RefreshFits ==
  ASSUME AvailabilityInv, AvailabilityTyped, Refresh
  PROVE  PageFits' /\ GotFits(Heeded(reads))'
<1>0. screen \in ScreenRow /\ reads \in ReadsRow /\ GotFits(Heeded(reads))
  BY DEF AvailabilityInv, PageInv, ReadsSound, AvailabilityTyped
<1>1. PICK f : f = Forgotten(screen, reads) /\ DOMAIN f = DOMAIN screen
  <2>1. DOMAIN Forgotten(screen, reads) = DOMAIN screen
    BY DEF Forgotten
  <2> QED BY <2>1
<1>2. PICK part, range : part = NotLoaded /\ range = NoRange /\ part.found = {} /\ RangeFits(range)
  BY LoadIs, NoRangeFits
<1>3. PICK asked : asked = ForgetKey(f)
  OBVIOUS
<1>4. screen' = [f EXCEPT !.services = "loading", !.courts = "idle", !.dates = part,
                          !.times = part, !.asked = asked, !.range = range]
  BY <1>1, <1>2, <1>3 DEF Refresh, Reloaded
<1>5. {"dates", "range"} \subseteq DOMAIN f
  BY <1>0, <1>1 DEF ScreenRow
<1>6. screen'.dates = part /\ screen'.range = range
  BY <1>4, <1>5
<1>7. PICK kinds : kinds = {"services", "courts", "dates", "times"} /\ "none" \notin kinds
  <2>1. "none" \notin {"services", "courts", "dates", "times"}
    OBVIOUS
  <2> QED BY <2>1
<1>8. PICK tasks : tasks = {ServicesTask}
  OBVIOUS
<1>t. \A t \in tasks : t.kind = "services"
  BY <1>8, ServicesTaskIs
<1>9. Heeded(reads') \subseteq Heeded(reads) \cup tasks
  BY <1>0, <1>7, <1>8, ReadsHeed DEF Refresh
<1>10. GotFits(Heeded(reads'))
  BY <1>0, <1>t, <1>9 DEF GotFits
<1> QED BY <1>2, <1>6, <1>10 DEF PageFits

LEMMA SelectFits ==
  ASSUME AvailabilityInv, AvailabilityTyped,
         (\E d \in PageDates : SelectDate(d)) \/ (\E c \in PageCourts \cup {AnyCourt} : SelectCourt(c))
  PROVE  PageFits' /\ GotFits(Heeded(reads))'
<1>0. screen \in ScreenRow /\ reads \in ReadsRow /\ GotFits(Heeded(reads)) /\ PageFits
  BY DEF AvailabilityInv, PageInv, ReadsSound, AvailabilityTyped
<1>d. {"range", "dates", "times", "asked"} \subseteq DOMAIN screen
  BY <1>0 DEF ScreenRow
<1>n. PICK none : none = NoRange /\ RangeFits(none)
  BY NoRangeFits
<1>1. ASSUME NEW d \in PageDates, SelectDate(d) PROVE PageFits' /\ GotFits(Heeded(reads))'
  <2>1. PICK p : p = [screen EXCEPT !.date = d, !.range = none]
    OBVIOUS
  <2>2. p.range = none /\ p.dates = screen.dates /\ {"range", "dates", "times"} \subseteq DOMAIN p
    BY <1>d, <2>1
  <2>3. CASE screen' = p /\ UNCHANGED reads
    BY <1>0, <1>n, <2>2, <2>3 DEF PageFits
  <2>4. CASE screen' = WithTimes(p) /\ reads' = Pumped(Enqueued(Cancelled(reads, {"times"}), TimesTasks(p)))
    <3>1. PageFits'
      BY <1>0, <1>n, <2>2, <2>4, WithTimesFits DEF PageFits
    <3>2. PICK tasks : tasks = TimesTasks(p) /\ \A t \in tasks : t.got = {}
      BY NewTasksHaveNothing
    <3>3. PICK kinds : kinds = {"times"} /\ "none" \notin kinds
      <4>1. "none" \notin {"times"}
        OBVIOUS
      <4> QED BY <4>1
    <3>4. Heeded(reads') \subseteq Heeded(reads) \cup tasks
      BY <1>0, <2>4, <3>2, <3>3, ReadsHeed
    <3>5. GotFits(Heeded(reads'))
      BY <1>0, <3>2, <3>4 DEF GotFits
    <3> QED BY <3>1, <3>5
  <2> QED BY <1>1, <1>n, <2>1, <2>3, <2>4 DEF SelectDate
<1>2. ASSUME NEW c, SelectCourt(c) PROVE PageFits' /\ GotFits(Heeded(reads))'
  <2>1. PICK p : p = [screen EXCEPT !.court = c, !.range = none]
    OBVIOUS
  <2>2. p.range = none /\ p.dates = screen.dates /\ {"range", "dates", "times", "asked"} \subseteq DOMAIN p
    BY <1>d, <2>1
  <2>3. CASE screen' = p /\ UNCHANGED reads
    BY <1>0, <1>n, <2>2, <2>3 DEF PageFits
  <2>4. CASE Requeried(p, reads)
    BY <1>0, <1>n, <2>2, <2>4, RequeriedFits DEF PageFits
  <2> QED BY <1>2, <1>n, <2>1, <2>3, <2>4 DEF SelectCourt
<1> QED BY <1>1, <1>2

\* A tap keeps the range in the day.
LEMMA AskedFits ==
  ASSUME NEW range \in RangeRow, RangeFits(range), NEW tile \in Tiles
  PROVE  RangeFits(Asked(range, tile)) /\ (range.count = 0 => Asked(range, tile).start = tile)
<1>1. PICK s, n, k : s = range.start /\ n = range.count /\ k = range.court
  OBVIOUS
<1>2. s \in Tiles /\ n \in 0..MaxSlots /\ s + n - 1 <= LastTile /\ LastTile \in Nat /\ tile \in 0..LastTile
      /\ s \in 0..LastTile /\ n \in 0..4
  BY <1>1, AvailabilityAssumption DEF RangeFits, Tiles, MaxSlots
<1>3. range = [start |-> s, count |-> n, court |-> k]
  BY <1>1 DEF RangeRow
<1>4. ASSUME NEW r, r.start \in 0..LastTile, r.count \in 0..4, r.start + r.count - 1 <= LastTile
      PROVE  RangeFits(r)
  BY <1>4 DEF RangeFits, Tiles, MaxSlots
<1>5. CASE n = 0
  <2>1. PICK any, one : any = AnyCourt /\ one = [start |-> tile, count |-> 1, court |-> any]
    OBVIOUS
  <2>2. Asked(range, tile) = one
    BY <1>1, <1>5, <2>1 DEF Asked
  <2>3. one.start = tile /\ one.count = 1
    BY <2>1
  <2>4. RangeFits(one)
    BY <1>2, <2>3 DEF RangeFits, Tiles, MaxSlots
  <2> QED BY <2>2, <2>3, <2>4
<1>6. CASE n # 0
  <2>1. CASE n = 1 /\ tile = s
    <3>1. range.count = 1 /\ tile = range.start
      BY <1>1, <2>1
    <3>2. PICK none : none = NoRange
      OBVIOUS
    <3>3. Asked(range, tile) = none
      BY <1>1, <1>2, <2>1, <3>2 DEF Asked, MaxSlots
    <3> QED BY <1>1, <1>6, <3>2, <3>3, NoRangeFits
  <2>2. CASE n > 1 /\ tile = s
    <3>1. PICK a, b : a = s + 1 /\ b = n - 1 /\ a \in 0..LastTile /\ b \in 0..4 /\ a + b - 1 <= LastTile
      BY <1>2, <2>2
    <3>2. PICK r : r = [range EXCEPT !.start = a, !.count = b]
      OBVIOUS
    <3>3. Asked(range, tile) = r
      BY <1>1, <1>2, <1>3, <2>2, <3>1, <3>2 DEF Asked, MaxSlots
    <3>4. r.start = a /\ r.count = b
      BY <1>3, <2>2, <3>1, <3>2
    <3>5. RangeFits(r)
      BY <1>4, <3>1, <3>4
    <3> QED BY <1>1, <1>6, <3>3, <3>5
  <2>3. CASE n > 1 /\ tile # s /\ tile = s + n - 1
    <3>1. PICK a, b : a = s /\ b = n - 1 /\ a \in 0..LastTile /\ b \in 0..4 /\ a + b - 1 <= LastTile
      BY <1>2, <2>3
    <3>2. PICK r : r = [range EXCEPT !.count = b]
      OBVIOUS
    <3>3. Asked(range, tile) = r
      BY <1>1, <1>2, <1>3, <2>3, <3>1, <3>2 DEF Asked, MaxSlots
    <3>4. r.start = a /\ r.count = b
      BY <1>3, <2>3, <3>1, <3>2
    <3>5. RangeFits(r)
      BY <1>4, <3>1, <3>4
    <3> QED BY <1>1, <1>6, <3>3, <3>5
  <2>4. CASE n \in 1..3 /\ tile = s - 1
    <3>1. PICK a, b : a = tile /\ b = n + 1 /\ a \in 0..LastTile /\ b \in 0..4 /\ a + b - 1 <= LastTile
      BY <1>2, <2>4
    <3>2. PICK r : r = [range EXCEPT !.start = a, !.count = b]
      OBVIOUS
    <3>3. Asked(range, tile) = r
      BY <1>1, <1>2, <1>3, <2>4, <3>1, <3>2 DEF Asked, MaxSlots
    <3>4. r.start = a /\ r.count = b
      BY <1>3, <2>4, <3>1, <3>2
    <3>5. RangeFits(r)
      BY <1>4, <3>1, <3>4
    <3> QED BY <1>1, <1>6, <3>3, <3>5
  <2>5. CASE n \in 1..3 /\ tile = s + n
    <3>1. PICK a, b : a = s /\ b = n + 1 /\ a \in 0..LastTile /\ b \in 0..4 /\ a + b - 1 <= LastTile
      BY <1>2, <2>5
    <3>2. PICK r : r = [range EXCEPT !.count = b]
      OBVIOUS
    <3>3. Asked(range, tile) = r
      BY <1>1, <1>2, <1>3, <2>5, <3>1, <3>2 DEF Asked, MaxSlots
    <3>4. r.start = a /\ r.count = b
      BY <1>3, <2>5, <3>1, <3>2
    <3>5. RangeFits(r)
      BY <1>4, <3>1, <3>4
    <3> QED BY <1>1, <1>6, <3>3, <3>5
  <2>6. CASE ~(n = 1 /\ tile = s) /\ ~(n > 1 /\ tile = s) /\ ~(n > 1 /\ tile = s + n - 1)
             /\ ~(n \in 1..3 /\ tile = s - 1) /\ ~(n \in 1..3 /\ tile = s + n)
    <3>1. Asked(range, tile) = range
      BY <1>1, <1>2, <1>6, <2>6 DEF Asked, MaxSlots
    <3> QED BY <1>1, <1>6, <3>1
  <2> QED BY <2>1, <2>2, <2>3, <2>4, <2>5, <2>6
<1> QED BY <1>5, <1>6

LEMMA TapFits ==
  ASSUME AvailabilityInv, AvailabilityTyped, NEW tile \in Tiles, Tap(tile)
  PROVE  PageFits'
<1>0. screen \in ScreenRow /\ PageFits /\ screen.range \in RangeRow
  BY DEF AvailabilityInv, PageInv, ScreenRow, AvailabilityTyped
<1>1. PICK options, range : options = Options(screen) /\ range = screen.range
  OBVIOUS
<1>2. PICK asked : asked = Asked(range, tile) /\ asked \in RangeRow /\ RangeFits(asked)
  BY <1>0, <1>1, AskedIs, AskedFits DEF PageFits
<1>3. PICK needed : needed = IF range.count = 0 THEN [asked EXCEPT !.count = MinSlots] ELSE asked
  OBVIOUS
<1>4. PICK k : k = CourtFor(options, needed)
  OBVIOUS
<1>5. PICK q : q = [asked EXCEPT !.court = k]
  OBVIOUS
<1>6. PICK chosen : chosen = Updated(options, range, tile)
  OBVIOUS
<1>7. chosen \in {asked, q, range}
  BY <1>2, <1>3, <1>4, <1>5, <1>6 DEF Updated
<1>8. RangeFits(q) /\ {"start", "count"} \subseteq DOMAIN q
  <2>1. q.start = asked.start /\ q.count = asked.count /\ DOMAIN q = DOMAIN asked
    BY <1>2, <1>5 DEF RangeRow
  <2>2. {"start", "count"} \subseteq DOMAIN asked
    BY <1>2 DEF RangeRow
  <2> QED BY <1>2, <2>1, <2>2 DEF RangeFits
<1>9. RangeFits(chosen) /\ {"start", "count"} \subseteq DOMAIN chosen
  <2>1. {"start", "count"} \subseteq DOMAIN asked /\ {"start", "count"} \subseteq DOMAIN range
    BY <1>0, <1>1, <1>2 DEF RangeRow
  <2> QED BY <1>0, <1>1, <1>2, <1>7, <1>8, <2>1 DEF PageFits
<1>10. PICK p : p = [screen EXCEPT !.range = chosen]
  OBVIOUS
<1>11. p.range = chosen /\ p.dates = screen.dates /\ {"range", "dates"} \subseteq DOMAIN p
  BY <1>0, <1>10 DEF ScreenRow
<1>12. screen' = Revalidated(p)
  BY <1>1, <1>6, <1>10 DEF Tap
<1> QED BY <1>0, <1>9, <1>11, <1>12, RevalidatedFits DEF PageFits

LEMMA AnsweredFits ==
  ASSUME AvailabilityInv, AvailabilityTyped, ReadAnswered
  PROVE  PageFits' /\ GotFits(Heeded(reads))'
<1>0. screen \in ScreenRow /\ reads \in ReadsRow /\ GotFits(Heeded(reads)) /\ PageFits
  BY DEF AvailabilityInv, PageInv, ReadsSound, AvailabilityTyped
<1>d. {"range", "dates", "times", "asked"} \subseteq DOMAIN screen
      /\ {"start", "count"} \subseteq DOMAIN screen.range
  BY <1>0 DEF ScreenRow, RangeRow
<1>1. PICK t, r : t = reads.running /\ r = [reads EXCEPT !.running = NoTask]
  OBVIOUS
<1>2. PICK found : found = t.got \cup Answer(t)
  OBVIOUS
<1>3. /\ t # NoTask
      /\ IF ~Accepted(t) THEN reads' = Pumped(r) /\ UNCHANGED screen
         ELSE IF t.left = {NextPair(t.left)} THEN Finished(t, r, found)
         ELSE /\ reads' = Pumped(Enqueued(r, {[t EXCEPT !.left = @ \ {NextPair(@)}, !.got = found]}))
              /\ UNCHANGED screen
  BY <1>1, <1>2 DEF ReadAnswered
<1>4. /\ t \in TaskRow /\ r \in ReadsRow /\ Heeded(r) = Heeded(reads) \ {t}
      /\ t.current = TRUE => t \in Heeded(reads)
      /\ t.current \in BOOLEAN
  BY <1>1, <1>3, ReadEnds DEF ReadsSound
<1>5. GotFits(Heeded(r)) /\ Heeded(Pumped(r)) \subseteq Heeded(r)
  BY <1>0, <1>4, PumpedHeeds DEF GotFits
<1>6. CASE ~Accepted(t)
  BY <1>0, <1>3, <1>5, <1>6 DEF GotFits, PageFits
<1>f. t.current = TRUE /\ t.kind = "dates" => found \subseteq PageDates
  BY <1>0, <1>2, <1>4, AnswerIs DEF GotFits
<1>7. CASE Accepted(t) /\ t.left # {NextPair(t.left)}
  <2>1. PICK left : left = t.left \ {NextPair(t.left)}
    OBVIOUS
  <2>2. PICK u : u = [t EXCEPT !.left = left, !.got = found]
    OBVIOUS
  <2>3. u.kind = t.kind /\ u.got = found
    BY <1>4, <2>2 DEF TaskRow
  <2>4. reads' = Pumped(Enqueued(r, {u})) /\ screen' = screen
    BY <1>3, <1>7, <2>1, <2>2
  <2>5. PICK tasks : tasks = {u}
    OBVIOUS
  <2>6. Heeded(reads') \subseteq Heeded(r) \cup tasks
    <3>1. PICK kinds : kinds = {}
      OBVIOUS
    <3> QED BY <1>4, <2>4, <2>5, <3>1, ReadsHeed
  <2>7. t.current = TRUE
    BY <1>4, <1>7 DEF Accepted
  <2>8. \A v \in tasks : v.kind = "dates" => v.got \subseteq PageDates
    BY <1>f, <2>3, <2>5, <2>7
  <2>9. GotFits(Heeded(reads'))
    BY <1>5, <2>6, <2>8 DEF GotFits
  <2> QED BY <1>0, <2>4, <2>9 DEF PageFits
<1>8. CASE Accepted(t) /\ t.left = {NextPair(t.left)}
  <2>1. t.current = TRUE /\ Finished(t, r, found)
    BY <1>3, <1>4, <1>8 DEF Accepted
  <2>2. t.kind \in {"services", "courts", "dates", "times"}
    BY <1>4 DEF TaskRow, TaskKinds
  <2>3. CASE t.kind = "services"
    <3>1. PICK kind, none, left : kind = "courts" /\ none = {} /\ left = Pairs({AnyCourt})
      OBVIOUS
    <3>2. PICK u : u = Task(kind, none, FirstDate, left)
      OBVIOUS
    <3>3. u.kind = "courts"
      BY <3>1, <3>2 DEF Task
    <3>4. screen' = [screen EXCEPT !.services = "ready", !.courts = "loading"]
          /\ reads' = Pumped(Enqueued(r, {u}))
      BY <2>1, <2>3, <3>1, <3>2 DEF Finished
    <3>5. PICK tasks : tasks = {u}
      OBVIOUS
    <3>6. Heeded(reads') \subseteq Heeded(r) \cup tasks
      <4>1. PICK kinds : kinds = {}
        OBVIOUS
      <4> QED BY <1>4, <3>4, <3>5, <4>1, ReadsHeed
    <3>7. \A v \in tasks : v.kind = "courts"
      BY <3>3, <3>5
    <3>8. GotFits(Heeded(reads'))
      BY <1>5, <3>6, <3>7 DEF GotFits
    <3>9. screen'.range = screen.range /\ screen'.dates = screen.dates
      BY <1>0, <3>4 DEF ScreenRow
    <3> QED BY <1>0, <3>8, <3>9 DEF PageFits
  <2>4. CASE t.kind = "courts"
    <3>1. PICK place : place = IF screen.catalogued THEN screen.court
                               ELSE CHOOSE c \in PageCourts : \A b \in PageCourts : c <= b
      OBVIOUS
    <3>2. PICK p : p = [screen EXCEPT !.courts = "ready", !.catalogued = TRUE, !.court = place]
      OBVIOUS
    <3>3. Requeried(p, r)
      BY <2>1, <2>4, <3>1, <3>2 DEF Finished
    <3>4. screen.range = NoRange
      BY <1>1, <1>3, <2>1, <2>4, <1>4, ReadEnds, WhileLoading
    <3>5. p.range = NoRange /\ p.dates = screen.dates /\ DOMAIN p = DOMAIN screen
      BY <1>0, <3>2, <3>4 DEF ScreenRow
    <3> QED BY <1>0, <1>d, <1>4, <1>5, <3>3, <3>5, RequeriedFits DEF PageFits
  <2>5. CASE t.kind \in {"dates", "times"}
    <3>1. PICK status : status = "ready"
      OBVIOUS
    <3>2. PICK part : part = [status |-> status, courts |-> t.courts, date |-> t.date, found |-> found]
      OBVIOUS
    <3>3. PICK p : p = [screen EXCEPT ![t.kind] = part]
      OBVIOUS
    <3>4. screen' = Revalidated(p) /\ reads' = Pumped(r)
      BY <2>1, <2>5, <3>1, <3>2, <3>3 DEF Finished
    <3>5. p.range = screen.range /\ DOMAIN p = DOMAIN screen /\ p.dates.found \subseteq PageDates
      <4>1. part.found = found
        BY <3>2
      <4>2. CASE t.kind = "dates"
        BY <1>d, <1>f, <2>1, <3>3, <4>1, <4>2
      <4>3. CASE t.kind = "times"
        BY <1>0, <1>d, <3>3, <4>3 DEF PageFits
      <4> QED BY <2>5, <4>2, <4>3
    <3>6. PageFits'
      BY <1>0, <1>d, <3>4, <3>5, RevalidatedFits DEF PageFits
    <3>7. GotFits(Heeded(reads'))
      BY <1>5, <3>4 DEF GotFits
    <3> QED BY <3>6, <3>7
  <2> QED BY <2>2, <2>3, <2>4, <2>5
<1> QED BY <1>6, <1>7, <1>8

LEMMA FailedFits ==
  ASSUME AvailabilityInv, AvailabilityTyped, ReadFailed
  PROVE  PageFits' /\ GotFits(Heeded(reads))'
<1>0. screen \in ScreenRow /\ reads \in ReadsRow /\ GotFits(Heeded(reads)) /\ PageFits
  BY DEF AvailabilityInv, PageInv, ReadsSound, AvailabilityTyped
<1>1. PICK t, r : t = reads.running /\ r = [reads EXCEPT !.running = NoTask]
  OBVIOUS
<1>2. t # NoTask /\ reads' = Pumped(r)
  BY <1>1 DEF ReadFailed
<1>3. t \in TaskRow /\ Heeded(r) = Heeded(reads) \ {t}
  BY <1>1, <1>2, ReadEnds
<1>4. GotFits(Heeded(reads'))
  BY <1>0, <1>2, <1>3, PumpedHeeds DEF GotFits
<1>5. PICK none, failed : none = {} /\ failed = "error"
  OBVIOUS
<1>6. PICK part : part = [status |-> failed, courts |-> t.courts, date |-> t.date, found |-> none]
  OBVIOUS
<1>7. screen' \in {screen, [screen EXCEPT ![t.kind] = failed], [screen EXCEPT ![t.kind] = part]}
      /\ (screen' = [screen EXCEPT ![t.kind] = failed] /\ screen' # screen
          => t.kind \in {"services", "courts"} \/ screen' = [screen EXCEPT ![t.kind] = part])
  BY <1>1, <1>5, <1>6 DEF ReadFailed
<1>8. t.kind \in {"services", "courts", "dates", "times"}
  BY <1>3 DEF TaskRow, TaskKinds
<1>9. part.found = {}
  BY <1>5, <1>6
<1>10. screen'.range = screen.range /\ (screen'.dates = screen.dates \/ screen'.dates = part)
  <2>1. CASE screen' = screen
    BY <2>1
  <2>2. CASE screen' = [screen EXCEPT ![t.kind] = part]
    BY <1>0, <1>8, <2>2 DEF ScreenRow
  <2>3. CASE screen' = [screen EXCEPT ![t.kind] = failed] /\ t.kind \in {"services", "courts"}
    BY <1>0, <2>3 DEF ScreenRow
  <2> QED BY <1>7, <2>1, <2>2, <2>3
<1> QED BY <1>0, <1>4, <1>9, <1>10 DEF PageFits

LEMMA BusyFits ==
  ASSUME BusyTyped, [AvailabilityNext]_screenVars PROVE BusyTyped'
<1>1. CASE busy' = busy
  BY <1>1 DEF BusyTyped
<1>2. ASSUME NEW c \in PageCourts, NEW d \in PageDates, NEW tile \in Tiles, OthersBook(c, d, tile)
      PROVE  BusyTyped'
  BY <1>2 DEF OthersBook, BusyTyped
<1> QED BY <1>1, <1>2 DEF AvailabilityNext, Refresh, ReadAnswered, ReadFailed, SelectDate, SelectCourt,
           Tap, screenVars

LEMMA AvailabilityTypesHold ==
  ASSUME AvailabilityInv, AvailabilityTyped, [AvailabilityNext]_screenVars PROVE AvailabilityTyped'
<1>1. BusyTyped'
  BY BusyFits DEF AvailabilityTyped
<1>2. PageFits' /\ GotFits(Heeded(reads))'
  <2>1. CASE screen' = screen /\ reads' = reads
    BY <2>1 DEF AvailabilityTyped, PageFits
  <2>2. CASE \E tile \in Tiles : Tap(tile)
    <3>1. PageFits'
      BY <2>2, TapFits
    <3>2. reads' = reads
      BY <2>2 DEF Tap
    <3> QED BY <3>1, <3>2 DEF AvailabilityTyped
  <2> QED BY <2>1, <2>2, RefreshFits, SelectFits, AnsweredFits, FailedFits
          DEF AvailabilityNext, OthersBook, screenVars
<1> QED BY <1>1, <1>2 DEF AvailabilityTyped

LEMMA AvailabilityTypesBegin ==
  ASSUME AvailabilityInit PROVE AvailabilityTyped
<1>1. PICK part, range, none : part = NotLoaded /\ range = NoRange /\ none = {} /\ RangeFits(range)
  BY NoRangeFits
<1>2. screen.range = range /\ screen.dates = part
  BY <1>1 DEF AvailabilityInit
<1>3. part.found = {}
  BY <1>1, LoadIs
<1>4. Heeded(reads) \subseteq {ServicesTask}
  BY DEF AvailabilityInit, Heeded
<1>5. GotFits(Heeded(reads))
  BY <1>4, ServicesTaskIs DEF GotFits
<1>6. BusyTyped
  <2>1. PICK days : days = BusyDays /\ days \subseteq SUBSET Tiles
    BY AvailabilityAssumption DEF Tiles
  <2>2. busy \in [PageCourts -> [PageDates -> days]]
    BY <2>1 DEF AvailabilityInit
  <2> QED BY <2>1, <2>2 DEF BusyTyped
<1> QED BY <1>1, <1>2, <1>3, <1>5, <1>6 DEF AvailabilityTyped, PageFits

\* AvailabilityTypeOK, of every date, court and opening hours: BookingScreen.jsx
\* keeps phases, dates of its strip, slots of its courts and a range in the day.
THEOREM AvailabilityIsTyped == AvailabilitySpec => []AvailabilityTypeOK
<1>1. AvailabilityInit => AvailabilityInv /\ AvailabilityTyped
  BY AvailabilityInitInv, AvailabilityTypesBegin
<1>2. AvailabilityInv /\ AvailabilityTyped /\ [AvailabilityNext]_screenVars
      => (AvailabilityInv /\ AvailabilityTyped)'
  BY AvailabilityStepInv, AvailabilityTypesHold
<1>3. AvailabilityInv /\ AvailabilityTyped => AvailabilityTypeOK
  <2> SUFFICES ASSUME AvailabilityInv, AvailabilityTyped PROVE AvailabilityTypeOK
    OBVIOUS
  <2>1. screen \in ScreenRow /\ reads \in ReadsRow /\ PageFits /\ BusyTyped
        /\ OfThem(screen.times.found, screen.times.courts, screen.times.date)
    BY DEF AvailabilityInv, PageInv, ReadsSound, AvailabilityTyped
  <2>2. screen.dates \in LoadRow /\ screen.times \in LoadRow
    BY <2>1 DEF ScreenRow
  <2>3. screen.dates \in LoadType(PageDates)
    BY <2>1, <2>2 DEF LoadRow, LoadType, PageFits
  <2>4. screen.times.found \subseteq Slot
    BY <2>1 DEF OfThem
  <2>5. screen.times \in LoadType(Slot)
    BY <2>2, <2>4 DEF LoadRow, LoadType
  <2>6. screen.range \in RangeRow /\ RangeFits(screen.range)
    BY <2>1 DEF ScreenRow, PageFits
  <2>7. \A t \in reads.waiting : t.kind \in {"services", "courts", "dates", "times"}
    <3>1. reads.waiting \subseteq TaskRow
      BY <2>1 DEF ReadsRow
    <3> QED BY <3>1 DEF TaskRow, TaskKinds
  <2>8. /\ screen.range.count \in 0..MaxSlots /\ screen.range.start \in Tiles
        /\ screen.range.court \in PageCourts \cup {AnyCourt}
    BY <2>6 DEF RangeRow, RangeFits
  <2>9. /\ screen.services \in Phases /\ screen.courts \in Phases /\ screen.asked \in SUBSET PageCourts
        /\ screen.date \in PageDates /\ screen.court \in PageCourts \cup {AnyCourt}
    BY <2>1 DEF ScreenRow
  <2> QED BY <2>1, <2>3, <2>5, <2>7, <2>8, <2>9 DEF AvailabilityTypeOK, BusyTyped
<1> QED BY <1>1, <1>2, <1>3, PTL DEF AvailabilitySpec

-----------------------------------------------------------------------------
(* MatchCreation.                                                          *)

CourtRow == [status : {"confirmed", "cancelled"}, target : MakerCourts, version : Nat,
             asOf : Nat, record : MakerCourts, deleted : BOOLEAN, moves : Nat,
             started : BOOLEAN]
MakerRow == [pc : {"form", "read", "apply", "reply", "shown"}, details : Details, begun : Nat,
             fresh : MakerCourts, ok : BOOLEAN,
             reply : {"none", "created", "refused", "conflict", "unavailable"},
             at : MakerCourts, match : MatchIds, version : Nat, asOf : Nat]
LinkRow == [state : {"none", "active", "released"}, target : MakerCourts]

\* The active link, if there is one, is where the row is, and of a match.
LinksFollow ==
  /\ \A m \in MatchIds : linked[m].state = "active" =>
       /\ court.status = "confirmed" /\ linked[m].target = court.target /\ made[m] # "none"
  /\ \A m, n \in MatchIds : linked[m].state = "active" /\ linked[n].state = "active" => m = n

\* What a device may rely on: a press precedes what is read after it, and what
\* the row said is so while its version is the same.
MakerKnows(d) ==
  /\ maker[d].pc = "read" => maker[d].begun <= court.moves
  /\ maker[d].pc = "apply" /\ maker[d].ok => maker[d].begun <= court.asOf
  /\ maker[d].pc \in {"reply", "shown"} /\ maker[d].reply = "created" =>
       /\ maker[d].begun <= maker[d].asOf
       /\ made[maker[d].match] # "none"
       /\ maker[d].version <= court.version
       /\ maker[d].version = court.version =>
            linked[maker[d].match].state = "active" /\ maker[d].at = court.target
  /\ maker[d].pc = "shown" => maker[d].reply = "created"

CreationInv ==
  /\ court \in CourtRow /\ court.asOf <= court.moves
  /\ made \in [MatchIds -> Details \cup {"none"}] /\ made[Old] # "none"
  /\ \A m \in MatchIds : m \notin {Old, "made"} => made[m] = "none"
  /\ linked \in [MatchIds -> LinkRow]
  /\ maker \in [MakerDevices -> MakerRow]
  /\ LinksFollow /\ \A d \in MakerDevices : MakerKnows(d)

LEMMA QuietIs ==
  /\ Quiet \in MakerRow /\ Quiet.pc = "form" /\ Quiet.reply = "none"
  /\ AnyPlace \in MakerCourts /\ Old \in MatchIds /\ "made" \in MatchIds
<1>1. PICK x, c : x = (CHOOSE d \in Details : TRUE) /\ c = AnyPlace /\ x \in Details /\ c \in MakerCourts
  BY CreationAssumption DEF AnyPlace
<1>2. Old \in MatchIds /\ "made" \in MatchIds
  BY DEF MatchIds
<1>3. Quiet = [pc |-> "form", details |-> x, begun |-> 0, fresh |-> c, ok |-> FALSE,
               reply |-> "none", at |-> c, match |-> Old, version |-> 0, asOf |-> 0]
  BY <1>1 DEF Quiet
<1>4. Quiet \in MakerRow
  BY ONLY <1>1, <1>2, <1>3 DEF MakerRow
<1> QED BY <1>1, <1>2, <1>3, <1>4

LEMMA CreationInitInv ==
  CreationInit => CreationInv
<1> SUFFICES ASSUME CreationInit PROVE CreationInv
  OBVIOUS
<1>1. PICK x, c : x = (CHOOSE d \in Details : TRUE) /\ c = AnyPlace /\ x \in Details /\ x # "none"
                  /\ c \in MakerCourts
  BY CreationAssumption DEF AnyPlace
<1>2. court = [status |-> "confirmed", target |-> c, version |-> 1, asOf |-> 0,
               record |-> c, deleted |-> FALSE, moves |-> 0, started |-> FALSE]
  BY <1>1 DEF CreationInit
<1>3. court \in CourtRow /\ court.asOf <= court.moves
  BY ONLY <1>1, <1>2 DEF CourtRow
<1>4. made = [m \in MatchIds |-> IF m = Old THEN x ELSE "none"]
      /\ linked = [m \in MatchIds |-> [state |-> "none", target |-> c]]
      /\ maker = [d \in MakerDevices |-> Quiet]
  BY <1>1 DEF CreationInit
<1>5. \A m \in MatchIds : linked[m] \in LinkRow /\ linked[m].state # "active"
  BY <1>1, <1>4 DEF LinkRow
<1>6. linked \in [MatchIds -> LinkRow] /\ LinksFollow
  BY <1>4, <1>5 DEF LinksFollow
<1>7. \A d \in MakerDevices : MakerKnows(d)
  BY <1>4, QuietIs DEF MakerKnows
<1> QED BY <1>1, <1>3, <1>4, <1>6, <1>7, QuietIs DEF CreationInv

\* A reader, or a press that reads first, refreshes the row and its link.
LEMMA RefreshEffect ==
  ASSUME CreationInv, RefreshRow, made' = made
  PROVE  /\ court' \in CourtRow /\ court'.asOf <= court'.moves /\ linked' \in [MatchIds -> LinkRow]
         /\ LinksFollow' /\ court'.moves = court.moves /\ court.asOf <= court'.asOf
         /\ court'.status = "confirmed" => court'.asOf = court.moves
         /\ court.version <= court'.version
         /\ court'.version = court.version =>
              court'.target = court.target /\ \A m \in MatchIds :
                linked[m].state = "active" => linked'[m].state = "active"
<1>1. /\ court \in CourtRow /\ court.asOf <= court.moves /\ linked \in [MatchIds -> LinkRow]
      /\ LinksFollow
  BY DEF CreationInv
<1>2. /\ court.version \in Nat /\ court.asOf \in Nat /\ court.moves \in Nat
      /\ court.record \in MakerCourts /\ court.target \in MakerCourts
      /\ court.status \in {"confirmed", "cancelled"}
  BY <1>1 DEF CourtRow
<1>3. /\ DOMAIN linked' = MatchIds
      /\ \A m \in MatchIds :
           /\ linked[m].state # "active" => linked'[m] = linked[m]
           /\ linked[m].state = "active" /\ court'.status = "cancelled" =>
                linked'[m] = [linked[m] EXCEPT !.state = "released"]
           /\ linked[m].state = "active" /\ court'.status # "cancelled" =>
                linked'[m] = [linked[m] EXCEPT !.target = court'.target]
  BY DEF RefreshRow, Follows
<1>4. \/ court' = court /\ court.status = "cancelled"
      \/ /\ court.status = "confirmed"
         /\ court' = [court EXCEPT !.status = "cancelled", !.version = court.version + 1,
                                   !.asOf = court.moves]
      \/ /\ court.status = "confirmed"
         /\ court' = [court EXCEPT !.target = court.record, !.version = court.version + 1,
                                   !.asOf = court.moves]
      \/ court.status = "confirmed" /\ court' = [court EXCEPT !.asOf = court.moves]
  BY <1>2 DEF RefreshRow, Refreshed
<1>5. court' \in CourtRow
  <2>1. PICK v, a, t, status : /\ v = court.version + 1 /\ a = court.moves /\ t = court.record
                              /\ v \in Nat /\ a \in Nat /\ t \in MakerCourts
                              /\ status = "cancelled" /\ status \in {"confirmed", "cancelled"}
    BY <1>2
  <2>2. CASE court' = court
    BY <1>1, <2>2
  <2>3. CASE court' = [court EXCEPT !.status = status, !.version = v, !.asOf = a]
    BY ONLY <1>1, <2>1, <2>3 DEF CourtRow
  <2>4. CASE court' = [court EXCEPT !.target = t, !.version = v, !.asOf = a]
    BY ONLY <1>1, <2>1, <2>4 DEF CourtRow
  <2>5. CASE court' = [court EXCEPT !.asOf = a]
    BY ONLY <1>1, <2>1, <2>5 DEF CourtRow
  <2> QED BY <1>4, <2>1, <2>2, <2>3, <2>4, <2>5
<1>6. /\ court'.moves = court.moves /\ court.asOf <= court'.asOf /\ court'.asOf <= court'.moves
      /\ court'.status = "confirmed" => court'.asOf = court.moves /\ court.status = "confirmed"
      /\ court.version <= court'.version
      /\ court'.version = court.version =>
           court'.target = court.target /\ court'.status = court.status
  <2>1. DOMAIN court = {"status", "target", "version", "asOf", "record", "deleted", "moves",
                        "started"}
    BY <1>1 DEF CourtRow
  <2>2. CASE court' = court /\ court.status = "cancelled"
    BY <1>1, <1>2, <2>2
  <2>3. CASE /\ court.status = "confirmed"
             /\ court' = [court EXCEPT !.status = "cancelled", !.version = court.version + 1,
                                       !.asOf = court.moves]
    <3>1. /\ court'.status = "cancelled" /\ court'.version = court.version + 1
          /\ court'.asOf = court.moves /\ court'.moves = court.moves
      BY <2>1, <2>3
    <3> QED BY <1>1, <1>2, <3>1
  <2>4. CASE /\ court.status = "confirmed"
             /\ court' = [court EXCEPT !.target = court.record, !.version = court.version + 1,
                                       !.asOf = court.moves]
    <3>1. /\ court'.status = court.status /\ court'.version = court.version + 1
          /\ court'.asOf = court.moves /\ court'.moves = court.moves
      BY <2>1, <2>4
    <3> QED BY <1>1, <1>2, <2>4, <3>1
  <2>5. CASE court.status = "confirmed" /\ court' = [court EXCEPT !.asOf = court.moves]
    <3>1. /\ court'.status = court.status /\ court'.version = court.version
          /\ court'.asOf = court.moves /\ court'.moves = court.moves /\ court'.target = court.target
      BY <2>1, <2>5
    <3> QED BY <1>1, <1>2, <2>5, <3>1
  <2> QED BY <1>4, <2>2, <2>3, <2>4, <2>5
<1>7. court'.target \in MakerCourts /\ court'.status \in {"confirmed", "cancelled"}
  BY <1>5 DEF CourtRow
<1>8. \A m \in MatchIds :
        /\ linked[m] \in LinkRow /\ linked'[m] \in LinkRow
        /\ linked'[m].state = "active" => /\ linked[m].state = "active"
                                         /\ court'.status # "cancelled"
                                         /\ linked'[m].target = court'.target
        /\ linked[m].state = "active" /\ court'.status # "cancelled" => linked'[m].state = "active"
  BY <1>1, <1>3, <1>7 DEF LinkRow
<1>9. linked' \in [MatchIds -> LinkRow]
  BY <1>8 DEF RefreshRow
<1>10. LinksFollow'
  BY <1>1, <1>7, <1>8 DEF LinksFollow
<1>11. court'.version = court.version => \A m \in MatchIds :
         linked[m].state = "active" => linked'[m].state = "active"
  BY <1>1, <1>6, <1>8 DEF LinksFollow
<1> QED BY <1>5, <1>6, <1>9, <1>10, <1>11

\* A device is not surprised by what the row and the links become.
RowGoesOn ==
  /\ court.moves <= court'.moves /\ court.asOf <= court'.asOf /\ court.version <= court'.version
  /\ court'.version = court.version =>
       court'.target = court.target /\ \A m \in MatchIds :
         linked[m].state = "active" => linked'[m].state = "active"
  /\ \A m \in MatchIds : made[m] # "none" => made'[m] # "none"

LEMMA MakerStaysInformed ==
  ASSUME CreationInv, court' \in CourtRow, RowGoesOn, NEW d \in MakerDevices, maker'[d] = maker[d]
  PROVE  MakerKnows(d)'
<1>1. /\ maker[d].begun \in Nat /\ maker[d].version \in Nat /\ maker[d].asOf \in Nat
      /\ maker[d].match \in MatchIds /\ MakerKnows(d)
  BY DEF CreationInv, MakerRow
<1>2. /\ court.moves \in Nat /\ court.asOf \in Nat /\ court.version \in Nat
      /\ court'.moves \in Nat /\ court'.asOf \in Nat /\ court'.version \in Nat
  BY DEF CreationInv, CourtRow
<1> QED BY <1>1, <1>2 DEF MakerKnows, RowGoesOn

\* A device that remembers nothing, or was told no match, may be told of any.
LEMMA MakerStartsOver ==
  ASSUME CreationInv, NEW d \in MakerDevices, NEW r,
         r \in {"refused", "conflict", "unavailable"}, Reply(d, r),
         court' \in CourtRow, RowGoesOn
  PROVE  maker' \in [MakerDevices -> MakerRow] /\ \A e \in MakerDevices : MakerKnows(e)'
<1>1. PICK q : q = [Quiet EXCEPT !.pc = "reply", !.reply = r]
  OBVIOUS
<1>2. q \in MakerRow /\ q.pc = "reply" /\ q.reply = r
  BY <1>1, QuietIs DEF MakerRow
<1>3. maker' = [maker EXCEPT ![d] = q] /\ maker \in [MakerDevices -> MakerRow]
  BY <1>1 DEF Reply, CreationInv
<1>4. maker' \in [MakerDevices -> MakerRow] /\ maker'[d] = q
      /\ \A e \in MakerDevices \ {d} : maker'[e] = maker[e]
  BY ONLY <1>2, <1>3
<1>5. MakerKnows(d)'
  BY <1>2, <1>4 DEF MakerKnows
<1> QED BY <1>4, <1>5, MakerStaysInformed

\* A link is only made where neither side has one.
LEMMA LinkEffect ==
  ASSUME CreationInv, NEW m \in MatchIds, Activable, linked' = LinkConfirmed(m), court' = court,
         made'[m] # "none", \A n \in MatchIds : made[n] # "none" => made'[n] # "none"
  PROVE  /\ linked' \in [MatchIds -> LinkRow] /\ LinksFollow' /\ RowGoesOn
         /\ linked'[m].state = "active"
<1>1. PICK link : link = [state |-> "active", target |-> court.target]
  OBVIOUS
<1>2. court.target \in MakerCourts /\ court.version \in Nat /\ court.asOf \in Nat /\ court.moves \in Nat
  BY DEF CreationInv, CourtRow
<1>3. link \in LinkRow /\ link.state = "active" /\ link.target = court.target
  BY <1>1, <1>2 DEF LinkRow
<1>4. linked \in [MatchIds -> LinkRow] /\ linked' = [linked EXCEPT ![m] = link]
  BY <1>1 DEF CreationInv, LinkConfirmed
<1>5. linked' \in [MatchIds -> LinkRow] /\ linked'[m] = link
      /\ \A n \in MatchIds \ {m} : linked'[n] = linked[n]
  BY ONLY m \in MatchIds, <1>3, <1>4
<1>6. court.status = "confirmed" /\ \A n \in MatchIds : linked[n].state # "active"
  BY DEF Activable, Linkable, ActiveLinks
<1>7. LinksFollow'
  BY <1>3, <1>5, <1>6 DEF LinksFollow
<1>8. RowGoesOn
  BY <1>2, <1>6 DEF RowGoesOn
<1> QED BY <1>3, <1>5, <1>7, <1>8

\* The record and the clock: the row and its links stay.
LEMMA CalendarKeeps ==
  ASSUME CreationInv, StaffAct \/ GameStarts
  PROVE  CreationInv'
<1>1. court \in CourtRow /\ court.moves \in Nat /\ court.asOf \in Nat /\ court.version \in Nat
      /\ court.asOf <= court.moves
  BY DEF CreationInv, CourtRow
<1>2. UNCHANGED <<made, linked, maker>>
  BY DEF StaffAct, GameStarts
<1>3. \/ \E c \in MakerCourts : court' = [court EXCEPT !.record = c, !.moves = court.moves + 1]
      \/ court' = [court EXCEPT !.deleted = TRUE, !.moves = court.moves + 1]
      \/ court' = [court EXCEPT !.started = TRUE]
  BY DEF StaffAct, GameStarts
<1>4. PICK n : n = court.moves + 1 /\ n \in Nat
  BY <1>1
<1>b. PICK b : b = TRUE /\ b \in BOOLEAN
  BY Zenon
<1>5. DOMAIN court = {"status", "target", "version", "asOf", "record", "deleted", "moves", "started"}
  BY <1>1 DEF CourtRow
<1>6. court' \in CourtRow
  <2>1. ASSUME NEW c \in MakerCourts, court' = [court EXCEPT !.record = c, !.moves = n]
        PROVE  court' \in CourtRow
    BY ONLY c \in MakerCourts, <1>1, <1>4, <2>1 DEF CourtRow
  <2>2. ASSUME court' = [court EXCEPT !.deleted = b, !.moves = n] PROVE court' \in CourtRow
    BY ONLY <1>1, <1>4, <1>b, <2>2 DEF CourtRow
  <2>3. ASSUME court' = [court EXCEPT !.started = b] PROVE court' \in CourtRow
    BY ONLY <1>1, <1>b, <2>3 DEF CourtRow
  <2> QED BY <1>3, <1>4, <1>b, <2>1, <2>2, <2>3
<1>7. /\ court'.status = court.status /\ court'.target = court.target
      /\ court'.version = court.version /\ court'.asOf = court.asOf
      /\ court'.moves = court.moves \/ court'.moves = court.moves + 1
  BY <1>3, <1>5
<1>8. RowGoesOn /\ court'.asOf <= court'.moves
  BY <1>1, <1>2, <1>7 DEF RowGoesOn
<1>9. LinksFollow'
  BY <1>2, <1>7 DEF CreationInv, LinksFollow
<1>10. \A d \in MakerDevices : MakerKnows(d)'
  BY <1>2, <1>6, <1>8, MakerStaysInformed
<1> QED BY <1>2, <1>6, <1>8, <1>9, <1>10 DEF CreationInv

LEMMA OthersKeep ==
  ASSUME CreationInv, OthersRefresh
  PROVE  CreationInv'
<1>1. RefreshRow /\ made' = made /\ maker' = maker
  BY DEF OthersRefresh
<1>2. /\ court' \in CourtRow /\ court'.asOf <= court'.moves /\ linked' \in [MatchIds -> LinkRow]
      /\ LinksFollow' /\ RowGoesOn
  <2>1. court.moves \in Nat
    BY DEF CreationInv, CourtRow
  <2> QED BY <1>1, <2>1, RefreshEffect DEF RowGoesOn
<1>3. \A d \in MakerDevices : MakerKnows(d)'
  BY <1>1, <1>2, MakerStaysInformed
<1> QED BY <1>1, <1>2, <1>3 DEF CreationInv

LEMMA LinkOldKeeps ==
  ASSUME CreationInv, LinkOld
  PROVE  CreationInv'
<1>1. Activable /\ linked' = LinkConfirmed(Old) /\ court' = court /\ made' = made /\ maker' = maker
  BY DEF LinkOld
<1>2. linked' \in [MatchIds -> LinkRow] /\ LinksFollow' /\ RowGoesOn
  BY <1>1, QuietIs, LinkEffect DEF CreationInv
<1>3. court' \in CourtRow
  BY <1>1 DEF CreationInv
<1>4. \A d \in MakerDevices : MakerKnows(d)'
  BY <1>1, <1>2, <1>3, MakerStaysInformed
<1> QED BY <1>1, <1>2, <1>3, <1>4 DEF CreationInv

LEMMA ReadKeeps ==
  ASSUME CreationInv, NEW d \in MakerDevices, NEW read \in {"fresh", "stale"}, ReadCourt(d, read)
  PROVE  CreationInv'
<1>1. maker[d].pc = "read" /\ made' = made /\ maker[d] \in MakerRow
      /\ maker[d].begun <= court.moves /\ maker[d].begun \in Nat
  BY DEF ReadCourt, CreationInv, MakerKnows, MakerRow
<1>2. CASE read = "fresh"
  <2>1. RefreshRow
    BY <1>2 DEF ReadCourt
  <2>2. /\ court' \in CourtRow /\ court'.asOf <= court'.moves /\ linked' \in [MatchIds -> LinkRow]
        /\ LinksFollow' /\ RowGoesOn
        /\ court'.status = "confirmed" => court'.asOf = court.moves
    <3>1. court.moves \in Nat
      BY DEF CreationInv, CourtRow
    <3> QED BY <1>1, <2>1, <3>1, RefreshEffect DEF RowGoesOn
  <2>3. PICK c, ok, q : /\ c = court'.target /\ ok = (court'.status = "confirmed")
                       /\ q = [maker[d] EXCEPT !.pc = "apply", !.fresh = c, !.ok = ok]
                       /\ c \in MakerCourts /\ ok \in BOOLEAN
    BY <2>2 DEF CourtRow
  <2>4. maker' = [maker EXCEPT ![d] = q]
    BY <1>2, <2>3 DEF ReadCourt, FreshEnough
  <2>5. q \in MakerRow /\ q.pc = "apply" /\ q.begun = maker[d].begun /\ q.ok = ok
    BY <1>1, <2>3 DEF MakerRow
  <2>6. /\ maker' \in [MakerDevices -> MakerRow] /\ maker'[d] = q
        /\ \A e \in MakerDevices \ {d} : maker'[e] = maker[e]
    BY <2>4, <2>5 DEF CreationInv
  <2>7. q.ok => maker'[d].begun <= court'.asOf
    <3>1. q.ok => court'.status = "confirmed"
      BY <2>3, <2>5, Zenon
    <3>2. court'.status = "confirmed" => q.begun <= court'.asOf
      BY <1>1, <2>2, <2>5
    <3> QED BY <2>6, <3>1, <3>2, Zenon
  <2>8. maker'[d].pc = "apply" /\ (maker'[d].ok <=> q.ok)
    BY <2>5, <2>6, Zenon
  <2>9. MakerKnows(d)'
    BY <2>7, <2>8 DEF MakerKnows
  <2>10. \A e \in MakerDevices \ {d} : MakerKnows(e)'
    BY <2>2, <2>6, <1>1, MakerStaysInformed
  <2>11. \A e \in MakerDevices : MakerKnows(e)'
    BY <2>9, <2>10, Zenon
  <2>12. CreationInv /\ made' = made
    BY <1>1
  <2> QED BY <2>12, <2>2, <2>6, <2>11 DEF CreationInv
<1>3. CASE read = "stale"
  <2>1. court' = court /\ linked' = linked /\ Reply(d, "unavailable")
    BY <1>3 DEF ReadCourt, FreshEnough
  <2>2. court' \in CourtRow /\ RowGoesOn
    BY <1>1, <2>1 DEF RowGoesOn, CreationInv, CourtRow
  <2>3. maker' \in [MakerDevices -> MakerRow] /\ \A e \in MakerDevices : MakerKnows(e)'
    BY <2>1, <2>2, MakerStartsOver
  <2> QED BY <1>1, <2>1, <2>3 DEF CreationInv, LinksFollow
<1> QED BY <1>2, <1>3

\* The match is answered as the transaction saw its court.
LEMMA CreatedIsInformed ==
  ASSUME CreationInv, NEW d \in MakerDevices, NEW m \in MatchIds, Created(d, m),
         court' = court, RowGoesOn, maker[d].begun <= court.asOf,
         made'[m] # "none", linked'[m].state = "active"
  PROVE  maker' \in [MakerDevices -> MakerRow] /\ \A e \in MakerDevices : MakerKnows(e)'
<1>1. PICK begun, c, v, a, q :
        /\ begun = maker[d].begun /\ c = court.target /\ v = court.version /\ a = court.asOf
        /\ begun \in Nat /\ c \in MakerCourts /\ v \in Nat /\ a \in Nat
        /\ q = [Quiet EXCEPT !.pc = "reply", !.reply = "created", !.match = m, !.begun = begun,
                             !.at = c, !.version = v, !.asOf = a]
  BY DEF CreationInv, MakerRow, CourtRow
<1>2. /\ q \in MakerRow /\ q.pc = "reply" /\ q.reply = "created" /\ q.match = m
      /\ q.begun = begun /\ q.at = c /\ q.version = v /\ q.asOf = a
  BY <1>1, QuietIs DEF MakerRow
<1>3. maker' = [maker EXCEPT ![d] = q] /\ maker \in [MakerDevices -> MakerRow]
  BY <1>1 DEF Created, CreationInv
<1>4. maker' \in [MakerDevices -> MakerRow] /\ maker'[d] = q
      /\ \A e \in MakerDevices \ {d} : maker'[e] = maker[e]
  BY ONLY d \in MakerDevices, <1>2, <1>3
<1>5. MakerKnows(d)'
  BY <1>1, <1>2, <1>4 DEF MakerKnows
<1>6. court' \in CourtRow
  BY DEF CreationInv
<1> QED BY <1>4, <1>5, <1>6, MakerStaysInformed

LEMMA CommitKeeps ==
  ASSUME CreationInv, NEW d \in MakerDevices, CommitCreation(d)
  PROVE  CreationInv'
<1>1. PICK m : m = MatchIdOf(d) /\ m = "made" /\ m \in MatchIds
  BY QuietIs DEF MatchIdOf
<1>2. /\ maker[d].pc = "apply" /\ court' = court /\ court' \in CourtRow
      /\ maker[d].ok => maker[d].begun <= court.asOf
      /\ court.asOf \in Nat /\ court.version \in Nat /\ court.moves \in Nat
  BY DEF CommitCreation, CreationInv, CourtRow, MakerKnows
<1>3. ASSUME NEW r \in {"refused", "conflict"}, Reply(d, r), made' = made, linked' = linked
      PROVE  CreationInv'
  <2>1. RowGoesOn
    BY <1>2, <1>3 DEF RowGoesOn
  <2>2. maker' \in [MakerDevices -> MakerRow] /\ \A e \in MakerDevices : MakerKnows(e)'
    BY <1>2, <1>3, <2>1, MakerStartsOver
  <2> QED BY <1>2, <1>3, <2>2 DEF CreationInv, LinksFollow
<1>4. ASSUME maker[d].ok, NEW x \in ActiveLinks, Created(d, x), made' = made, linked' = linked
      PROVE  CreationInv'
  <2>1. RowGoesOn /\ x \in MatchIds /\ linked[x].state = "active" /\ made[x] # "none"
    BY <1>2, <1>4 DEF RowGoesOn, ActiveLinks, CreationInv, LinksFollow
  <2>2. maker' \in [MakerDevices -> MakerRow] /\ \A e \in MakerDevices : MakerKnows(e)'
    BY <1>2, <1>4, <2>1, CreatedIsInformed
  <2> QED BY <1>2, <1>4, <2>2 DEF CreationInv, LinksFollow
<1>5. ASSUME maker[d].ok, Activable, made' = Inserted(m, maker[d].details),
             linked' = LinkConfirmed(m), Created(d, m)
      PROVE  CreationInv'
  <2>1. PICK x : x = maker[d].details /\ x \in Details /\ x # "none"
    BY CreationAssumption DEF CreationInv, MakerRow
  <2>2. made' = [made EXCEPT ![m] = x] /\ made \in [MatchIds -> Details \cup {"none"}]
    BY <1>5, <2>1 DEF Inserted, CreationInv
  <2>3. made' \in [MatchIds -> Details \cup {"none"}] /\ made'[m] = x
        /\ \A n \in MatchIds \ {m} : made'[n] = made[n]
    BY ONLY <1>1, <2>1, <2>2
  <2>4. /\ \A n \in MatchIds : made[n] # "none" => made'[n] # "none"
        /\ made'[m] # "none" /\ made'[Old] # "none"
        /\ \A n \in MatchIds : n \notin {Old, "made"} => made'[n] = "none"
    BY <1>1, <2>1, <2>3, QuietIs DEF CreationInv
  <2>5. linked' \in [MatchIds -> LinkRow] /\ LinksFollow' /\ RowGoesOn /\ linked'[m].state = "active"
    BY <1>1, <1>2, <1>5, <2>4, LinkEffect
  <2>6. maker' \in [MakerDevices -> MakerRow] /\ \A e \in MakerDevices : MakerKnows(e)'
    BY <1>1, <1>2, <1>5, <2>4, <2>5, CreatedIsInformed
  <2> QED BY <1>2, <2>3, <2>4, <2>5, <2>6 DEF CreationInv
<1>6. Activable <=> Linkable /\ ActiveLinks = {}
  BY DEF Activable
<1> QED BY <1>1, <1>3, <1>4, <1>5, <1>6 DEF CommitCreation

\* The row, the links and the matches stay; one device moves.
LEMMA DeviceKeeps ==
  ASSUME CreationInv, NEW d \in MakerDevices,
         (\E x \in Details : Press(d, x)) \/ Aborts(d) \/ Hear(d) \/ Lose(d)
  PROVE  CreationInv'
<1>1. court' = court /\ made' = made /\ linked' = linked
  BY DEF Press, Aborts, Hear, Lose
<1>2. court' \in CourtRow /\ RowGoesOn
  BY <1>1 DEF RowGoesOn, CreationInv, CourtRow
<1>3. maker \in [MakerDevices -> MakerRow] /\ maker[d] \in MakerRow /\ MakerKnows(d)
      /\ court.moves \in Nat
  BY DEF CreationInv, CourtRow
<1>4. ASSUME NEW q \in MakerRow, maker' = [maker EXCEPT ![d] = q],
             \/ q.pc = "form"
             \/ q.pc = "read" /\ q.begun = court.moves
             \/ /\ q = [maker[d] EXCEPT !.pc = "shown"]
                /\ maker[d].pc = "reply" /\ maker[d].reply = "created"
      PROVE  maker' \in [MakerDevices -> MakerRow] /\ \A e \in MakerDevices : MakerKnows(e)'
  <2>1. maker' \in [MakerDevices -> MakerRow] /\ maker'[d] = q
        /\ \A e \in MakerDevices \ {d} : maker'[e] = maker[e]
    BY ONLY d \in MakerDevices, q \in MakerRow, <1>3, <1>4
  <2>2. CASE q.pc = "form"
    BY <2>1, <2>2, <1>2, MakerStaysInformed DEF MakerKnows
  <2>3. CASE q.pc = "read" /\ q.begun = court.moves
    <3>1. MakerKnows(d)'
      BY <1>1, <1>3, <2>1, <2>3 DEF MakerKnows
    <3> QED BY <1>2, <2>1, <3>1, MakerStaysInformed
  <2>4. CASE q = [maker[d] EXCEPT !.pc = "shown"] /\ maker[d].pc = "reply" /\ maker[d].reply = "created"
    <3>1. /\ q.pc = "shown" /\ q.reply = "created" /\ q.begun = maker[d].begun
          /\ q.asOf = maker[d].asOf /\ q.match = maker[d].match /\ q.version = maker[d].version
          /\ q.at = maker[d].at
      BY <1>3, <2>4 DEF MakerRow
    <3>2. MakerKnows(d)'
      BY <1>1, <1>3, <2>1, <2>4, <3>1 DEF MakerKnows
    <3> QED BY <1>2, <2>1, <3>2, MakerStaysInformed
  <2> QED BY <1>4, <2>2, <2>3, <2>4
<1>5. maker' \in [MakerDevices -> MakerRow] /\ \A e \in MakerDevices : MakerKnows(e)'
  <2>1. ASSUME NEW x \in Details, Press(d, x)
        PROVE  maker' \in [MakerDevices -> MakerRow] /\ \A e \in MakerDevices : MakerKnows(e)'
    <3>1. PICK n, q : n = court.moves /\ n \in Nat
                      /\ q = [maker[d] EXCEPT !.pc = "read", !.details = x, !.begun = n]
      BY <1>3
    <3>2. q \in MakerRow /\ q.pc = "read" /\ q.begun = n
      BY <1>3, <3>1 DEF MakerRow
    <3>3. maker' = [maker EXCEPT ![d] = q]
      BY <2>1, <3>1 DEF Press
    <3> QED BY <1>4, <3>1, <3>2, <3>3
  <2>2. CASE Aborts(d)
    BY <1>2, <2>2, MakerStartsOver DEF Aborts
  <2>3. CASE Hear(d) /\ maker[d].reply = "created"
    <3>1. PICK q : q = [maker[d] EXCEPT !.pc = "shown"]
      OBVIOUS
    <3>2. q \in MakerRow
      BY <1>3, <3>1 DEF MakerRow
    <3>3. maker' = [maker EXCEPT ![d] = q] /\ maker[d].pc = "reply"
      BY <1>3, <2>3, <3>1 DEF Hear
    <3> QED BY <1>4, <2>3, <3>1, <3>2, <3>3
  <2>4. CASE Lose(d) \/ (Hear(d) /\ maker[d].reply # "created")
    <3>1. maker' = [maker EXCEPT ![d] = Quiet]
      BY <1>3, <2>4 DEF Hear, Lose
    <3> QED BY <1>4, <3>1, QuietIs
  <2> QED BY <2>1, <2>2, <2>3, <2>4
<1> QED BY <1>1, <1>2, <1>5 DEF CreationInv, LinksFollow

LEMMA CreationStepInv ==
  CreationInv /\ [CreationNext]_creationVars => CreationInv'
<1> SUFFICES ASSUME CreationInv, [CreationNext]_creationVars PROVE CreationInv'
  OBVIOUS
<1>1. CASE UNCHANGED creationVars
  BY <1>1 DEF creationVars, CreationInv, LinksFollow, MakerKnows
<1> QED BY <1>1, CalendarKeeps, OthersKeep, LinkOldKeeps, ReadKeeps, CommitKeeps, DeviceKeeps
        DEF CreationNext

\* The reservation carries one match at a time, where its row is, and the owner
\* is told of that one, at a court the calendar gave it after he pressed.
THEOREM CreationIsAlwaysTrue == CreationSpec => []CreationIsTrue
<1>1. CreationInv => CreationIsTrue
  <2> SUFFICES ASSUME CreationInv PROVE CreationIsTrue
    OBVIOUS
  <2>1. Cardinality(ActiveLinks) <= 1
    <3>1. CASE ActiveLinks = {}
      BY <3>1, FS_EmptySet
    <3>2. CASE ActiveLinks # {}
      <4>1. PICK m : m \in ActiveLinks
        BY <3>2
      <4>2. ActiveLinks = {m}
        BY <4>1 DEF ActiveLinks, CreationInv, LinksFollow
      <4> QED BY <4>2, FS_Singleton
    <3> QED BY <3>1, <3>2
  <2>2. Cardinality({m \in MatchIds \ {Old} : made[m] # "none"}) <= 1
    <3>1. PICK new : new = {m \in MatchIds \ {Old} : made[m] # "none"}
      OBVIOUS
    <3>2. PICK the : the = "made"
      OBVIOUS
    <3>3. \A m \in new : m = the
      BY <3>1, <3>2 DEF CreationInv
    <3>4. new = {} \/ new = {the}
      BY ONLY <3>3
    <3>5. Cardinality({}) = 0 /\ Cardinality({the}) = 1
      BY ONLY FS_EmptySet, FS_Singleton
    <3>6. Cardinality(new) <= 1
      BY ONLY <3>4, <3>5
    <3> QED BY <3>1, <3>6
  <2>3. \A m \in ActiveLinks : court.status = "confirmed" /\ linked[m].target = court.target
    BY DEF ActiveLinks, CreationInv, LinksFollow
  <2>4. ASSUME NEW d \in MakerDevices, maker[d].pc = "shown"
        PROVE  /\ maker[d].asOf >= maker[d].begun
               /\ made[maker[d].match] # "none"
               /\ maker[d].version = court.version =>
                    /\ linked[maker[d].match].state = "active"
                    /\ maker[d].at = court.target
    BY <2>4 DEF CreationInv, MakerKnows, MakerRow
  <2> QED BY <2>1, <2>2, <2>3, <2>4 DEF CreationIsTrue
<1> QED BY <1>1, CreationInitInv, CreationStepInv, PTL DEF CreationSpec

\* The row has a version more than the moves it has followed, at most, and says
\* what the record is when it was read after the last move.
VersionsFit ==
  /\ court.moves <= MaxMoves
  /\ 1 <= court.version /\ court.version <= court.asOf + 1
  /\ court.status = "confirmed" /\ court.asOf = court.moves =>
       court.record = court.target /\ court.deleted = FALSE

LEMMA VersionsStay ==
  ASSUME CreationInv, VersionsFit, [CreationNext]_creationVars PROVE VersionsFit'
<1>0. court \in CourtRow /\ court.asOf <= court.moves
  BY DEF CreationInv
<1>1. CASE UNCHANGED court
  BY <1>1 DEF VersionsFit
<1>2. CASE StaffAct
  <2>1. ASSUME NEW c \in MakerCourts, court' = [court EXCEPT !.record = c, !.moves = @ + 1]
        PROVE  VersionsFit'
    <3>1. /\ court'.moves = court.moves + 1 /\ court'.version = court.version
          /\ court'.asOf = court.asOf
      BY <1>0, <2>1 DEF CourtRow
    <3>2. /\ court.moves \in Nat /\ court.asOf \in Nat /\ court.version \in Nat
          /\ court.moves < MaxMoves /\ court.asOf <= court.moves /\ MaxMoves \in Nat
      BY <1>0, <1>2, CreationAssumption DEF CourtRow, StaffAct
    <3>3. court'.moves <= MaxMoves /\ court'.asOf # court'.moves
      BY <3>1, <3>2
    <3> QED BY <3>1, <3>3 DEF VersionsFit
  <2>2. ASSUME court' = [court EXCEPT !.deleted = TRUE, !.moves = @ + 1]
        PROVE  VersionsFit'
    <3>1. /\ court'.moves = court.moves + 1 /\ court'.version = court.version
          /\ court'.asOf = court.asOf
      BY <1>0, <2>2 DEF CourtRow
    <3>2. /\ court.moves \in Nat /\ court.asOf \in Nat /\ court.version \in Nat
          /\ court.moves < MaxMoves /\ court.asOf <= court.moves /\ MaxMoves \in Nat
      BY <1>0, <1>2, CreationAssumption DEF CourtRow, StaffAct
    <3>3. court'.moves <= MaxMoves /\ court'.asOf # court'.moves
      BY <3>1, <3>2
    <3> QED BY <3>1, <3>3 DEF VersionsFit
  <2> QED BY <1>2, <2>1, <2>2 DEF StaffAct
<1>3. CASE GameStarts
  <2>1. /\ court'.moves = court.moves /\ court'.version = court.version /\ court'.asOf = court.asOf
        /\ court'.status = court.status /\ court'.record = court.record
        /\ court'.target = court.target /\ court'.deleted = court.deleted
    BY <1>0, <1>3 DEF GameStarts, CourtRow
  <2> QED BY <2>1 DEF VersionsFit
<1>4. CASE court' = Refreshed(court)
  <2>1. CASE court.status = "cancelled"
    BY <1>1, <1>4, <2>1 DEF Refreshed
  <2>2. CASE court.status # "cancelled" /\ court.deleted
    <3>1. /\ court'.status = "cancelled" /\ court'.version = court.version + 1
          /\ court'.asOf = court.moves /\ court'.moves = court.moves
      BY <1>0, <1>4, <2>2 DEF Refreshed, CourtRow
    <3>2. court.asOf < court.moves
      BY <1>0, <2>2 DEF VersionsFit, CourtRow
    <3> QED BY <1>0, <3>1, <3>2 DEF VersionsFit, CourtRow
  <2>3. CASE court.status # "cancelled" /\ ~court.deleted /\ court.record # court.target
    <3>1. /\ court'.version = court.version + 1 /\ court'.deleted = FALSE
          /\ court'.asOf = court.moves /\ court'.moves = court.moves
          /\ court'.record = court.record /\ court'.target = court.record
      BY <1>0, <1>4, <2>3 DEF Refreshed, CourtRow
    <3>2. court.asOf < court.moves
      BY <1>0, <2>3 DEF VersionsFit, CourtRow
    <3> QED BY <1>0, <3>1, <3>2 DEF VersionsFit, CourtRow
  <2>4. CASE court.status # "cancelled" /\ ~court.deleted /\ court.record = court.target
    <3>1. /\ court'.version = court.version /\ court'.deleted = FALSE
          /\ court'.asOf = court.moves /\ court'.moves = court.moves
          /\ court'.record = court.record /\ court'.target = court.record
      BY <1>0, <1>4, <2>4 DEF Refreshed, CourtRow
    <3> QED BY <1>0, <3>1 DEF VersionsFit, CourtRow
  <2> QED BY <2>1, <2>2, <2>3, <2>4
<1>5. ASSUME NEW d \in MakerDevices, NEW read, ReadCourt(d, read) PROVE UNCHANGED court \/ court' = Refreshed(court)
  BY <1>5 DEF ReadCourt, RefreshRow
<1>6. CASE CreationNext
  BY <1>1, <1>2, <1>3, <1>4, <1>5, <1>6
     DEF CreationNext, OthersRefresh, RefreshRow, LinkOld, Press, CommitCreation, Aborts, Hear, Lose
<1> QED BY <1>1, <1>6 DEF creationVars

\* CreationTypeOK, of every set of devices, details and courts: a row has at most
\* a version more than the moves it followed.
THEOREM CreationIsTyped == CreationSpec => []CreationTypeOK
<1>1. CreationInit => VersionsFit
  <2> SUFFICES ASSUME CreationInit PROVE VersionsFit
    OBVIOUS
  <2>1. /\ court.moves = 0 /\ court.version = 1 /\ court.asOf = 0 /\ court.record = court.target
        /\ court.deleted = FALSE
    BY DEF CreationInit
  <2> QED BY <2>1, CreationAssumption DEF VersionsFit
<1>2. CreationInv /\ VersionsFit => CreationTypeOK
  <2> SUFFICES ASSUME CreationInv, VersionsFit PROVE CreationTypeOK
    OBVIOUS
  <2>1. /\ court.status \in {"confirmed", "cancelled"} /\ court.target \in MakerCourts
        /\ court.version \in 1..(MaxMoves + 1) /\ court.asOf \in 0..court.moves
    BY CreationAssumption DEF CreationInv, VersionsFit, CourtRow
  <2>2. \A d \in MakerDevices :
          /\ maker[d].pc \in {"form", "read", "apply", "reply", "shown"}
          /\ maker[d].reply \in {"none", "created", "refused", "conflict", "unavailable"}
    BY DEF CreationInv, MakerRow
  <2> QED BY <2>1, <2>2 DEF CreationInv, LinkRow, CreationTypeOK
<1> QED BY <1>1, <1>2, CreationInitInv, CreationStepInv, VersionsStay, PTL DEF CreationSpec

-----------------------------------------------------------------------------
(* MatchChat.                                                              *)

SendRow == [pc : {"unsent", "waits", "done"}, match : ChatMatches \cup {NoChat}, try : Nat,
            told : {"none", "sent", "closed", "not found", "unavailable"}]
AttemptRow == [send : Sends, try : Nat,
               answer : {"none", "sent", "closed", "not found", "unavailable"}]
ListRow == [match : ChatMatches, background : BOOLEAN, answer : {"none", "found", "rejected"},
            found : SUBSET Sends]
ViewRow == [match : ChatMatches \cup {NoChat}, shown : SUBSET Sends, loading : BOOLEAN,
            busy : Sends \cup {NoChat}]

\* A message is stored in the match it was written in, if anywhere.
StoredOnce(s) ==
  /\ \A m \in ChatMatches : s \in messages[m] => m = send[s].match
  /\ (\E m \in ChatMatches : s \in messages[m]) => intents[s] = 1
  /\ (\A m \in ChatMatches : s \notin messages[m]) => intents[s] = 0
  /\ send[s].pc = "unsent" => /\ \A m \in ChatMatches : s \notin messages[m]
                              /\ send[s].told = "none"
  /\ send[s].pc # "unsent" => send[s].match \in ChatMatches

\* An answer about a message is so, and stays so: the match that had ended
\* takes no message any more.
IsSo(s, answer) ==
  /\ answer = "sent" => send[s].match \in ChatMatches /\ s \in messages[send[s].match]
  /\ answer = "closed" => /\ send[s].match \in ChatMatches /\ chat[send[s].match].closed = TRUE
                          /\ s \notin messages[send[s].match]

AttemptHolds(a) == send[a.send].pc # "unsent" /\ IsSo(a.send, a.answer)

ListHolds ==
  list # NoList => /\ list \in ListRow /\ list.match = view.match
                   /\ list.found \subseteq messages[list.match]

ViewHolds ==
  /\ view \in ViewRow
  /\ view.match = NoChat => view.shown = {}
  /\ view.match # NoChat => view.shown \subseteq messages[view.match]

ChatInv ==
  /\ chat \in [ChatMatches -> [closed : BOOLEAN, member : BOOLEAN]]
  /\ messages \in [ChatMatches -> SUBSET Sends] /\ intents \in [Sends -> Nat]
  /\ send \in [Sends -> SendRow] /\ sending \subseteq AttemptRow
  /\ \A s \in Sends : StoredOnce(s) /\ IsSo(s, send[s].told)
  /\ \A a \in sending : AttemptHolds(a)
  /\ ListHolds /\ ViewHolds

LEMMA ChatInitInv ==
  ChatInit => ChatInv
<1> SUFFICES ASSUME ChatInit PROVE ChatInv
  OBVIOUS
<1>1. PICK row, open, z : /\ row = [pc |-> "unsent", match |-> NoChat, try |-> 0, told |-> "none"]
                          /\ open = [closed |-> FALSE, member |-> TRUE] /\ z = 0
  OBVIOUS
<1>2. row \in SendRow /\ row.pc = "unsent" /\ row.told = "none"
  BY <1>1 DEF SendRow, NoChat
<1>3. open \in [closed : BOOLEAN, member : BOOLEAN]
  BY <1>1
<1>4. /\ chat = [m \in ChatMatches |-> open] /\ messages = [m \in ChatMatches |-> {}]
      /\ intents = [i \in Sends |-> z] /\ send = [s \in Sends |-> row]
      /\ sending = {} /\ list = NoList /\ view = Empty
  BY <1>1 DEF ChatInit
<1>5. Empty \in ViewRow /\ Empty.match = NoChat /\ Empty.shown = {}
  BY DEF Empty, ViewRow
<1>6. /\ chat \in [ChatMatches -> [closed : BOOLEAN, member : BOOLEAN]]
      /\ messages \in [ChatMatches -> SUBSET Sends] /\ intents \in [Sends -> Nat]
      /\ send \in [Sends -> SendRow]
  BY <1>1, <1>2, <1>3, <1>4
<1>7. \A s \in Sends : StoredOnce(s) /\ IsSo(s, send[s].told)
  BY <1>1, <1>2, <1>4 DEF StoredOnce, IsSo
<1>8. ViewHolds
  BY <1>4, <1>5 DEF ViewHolds
<1>9. ListHolds
  BY <1>4 DEF ListHolds
<1> QED BY <1>4, <1>6, <1>7, <1>8, <1>9 DEF ChatInv

\* The transaction that stores a message.
LEMMA ServeSendKeeps ==
  ASSUME ChatInv, NEW a \in sending, ServeSend(a)
  PROVE  ChatInv'
<1>1. PICK s, m : /\ s = a.send /\ m = send[s].match /\ s \in Sends /\ m \in ChatMatches
                  /\ send[s].pc # "unsent" /\ StoredOnce(s)
  BY DEF ChatInv, AttemptHolds, AttemptRow, StoredOnce
<1>2. /\ chat' = chat /\ send' = send /\ view' = view /\ list' = list /\ a \in AttemptRow
  BY DEF ServeSend, ChatInv
<1>3. PICK answer : /\ answer \in {"sent", "closed", "not found", "unavailable"}
                    /\ sending' \subseteq sending \cup {[a EXCEPT !.answer = answer]}
                    /\ \/ messages' = messages /\ intents' = intents
                       \/ /\ s \notin messages[m] /\ ~ChatRefuses(m)
                          /\ answer = "sent" /\ StoreMessage(m, s)
                    /\ answer = "sent" => s \in messages'[m]
                    /\ answer = "closed" => s \notin messages[m] /\ chat[m].closed = TRUE /\ messages' = messages
  <2>1. CASE Replayed(m, s) /\ AnswersSend(a, "sent") /\ UNCHANGED <<messages, intents>>
    <3>1. s \in messages'[m] /\ messages' = messages /\ intents' = intents
      BY <2>1 DEF Replayed
    <3>2. sending' \subseteq sending \cup {[a EXCEPT !.answer = "sent"]}
      BY <2>1 DEF AnswersSend
    <3> QED BY <3>1, <3>2
  <2>2. CASE ~Replayed(m, s) /\ ChatRefuses(m) /\ AnswersSend(a, Refusal(m)) /\ UNCHANGED <<messages, intents>>
    <3>1. s \notin messages[m] /\ messages' = messages /\ intents' = intents
      BY <2>2 DEF Replayed
    <3>2. sending' \subseteq sending \cup {[a EXCEPT !.answer = Refusal(m)]}
      BY <2>2 DEF AnswersSend
    <3>3. Refusal(m) = "not found" \/ (Refusal(m) = "closed" /\ chat[m].closed)
      BY <2>2, Zenon DEF Refusal, ChatRefuses
    <3>4. chat[m].closed \in BOOLEAN
      BY <1>1 DEF ChatInv
    <3>5. Refusal(m) = "not found" \/ (Refusal(m) = "closed" /\ chat[m].closed = TRUE)
      BY <3>3, <3>4
    <3> QED BY <3>1, <3>2, <3>5
  <2>3. CASE ~Replayed(m, s) /\ ~ChatRefuses(m) /\ AnswersSend(a, "sent") /\ StoreMessage(m, s)
    <3>1. s \notin messages[m] /\ s \in messages'[m]
      BY <1>1, <2>3 DEF Replayed, StoreMessage, ChatInv
    <3>2. sending' \subseteq sending \cup {[a EXCEPT !.answer = "sent"]}
      BY <2>3 DEF AnswersSend
    <3> QED BY <2>3, <3>1, <3>2
  <2>4. CASE AnswersSend(a, "unavailable") /\ UNCHANGED <<messages, intents>>
    <3>1. sending' \subseteq sending \cup {[a EXCEPT !.answer = "unavailable"]}
      BY <2>4 DEF AnswersSend
    <3> QED BY <2>4, <3>1
  <2> QED BY <1>1, <2>1, <2>2, <2>3, <2>4 DEF ServeSend
<1>4. /\ [a EXCEPT !.answer = answer] \in AttemptRow
      /\ [a EXCEPT !.answer = answer].send = s /\ [a EXCEPT !.answer = answer].answer = answer
  BY <1>1, <1>2, <1>3 DEF AttemptRow
<1>5. CASE messages' = messages /\ intents' = intents
  <2>1. \A x : \A k \in Sends : IsSo(k, x) => IsSo(k, x)'
    BY <1>2, <1>5 DEF IsSo
  <2>2. IsSo(s, answer)'
    BY <1>1, <1>2, <1>3, <1>5 DEF IsSo
  <2>3. \A b \in sending' : AttemptHolds(b)' /\ b \in AttemptRow
    <3>1. \A b \in sending : AttemptHolds(b)' /\ b \in AttemptRow
      BY <1>2, <2>1 DEF ChatInv, AttemptHolds, AttemptRow
    <3>2. AttemptHolds([a EXCEPT !.answer = answer])'
      BY <1>1, <1>2, <1>4, <2>2 DEF AttemptHolds
    <3> QED BY <1>3, <1>4, <3>1, <3>2
  <2>4. \A k \in Sends : StoredOnce(k)' /\ IsSo(k, send[k].told)'
    BY <1>2, <1>5 DEF ChatInv, StoredOnce, IsSo
  <2>5. ListHolds' /\ ViewHolds'
    BY <1>2, <1>5 DEF ChatInv, ListHolds, ViewHolds
  <2> QED BY <1>2, <1>5, <2>3, <2>4, <2>5 DEF ChatInv
<1>6. CASE s \notin messages[m] /\ ~ChatRefuses(m) /\ answer = "sent" /\ StoreMessage(m, s)
  <2>1. /\ messages' \in [ChatMatches -> SUBSET Sends] /\ messages'[m] = messages[m] \cup {s}
        /\ \A n \in ChatMatches \ {m} : messages'[n] = messages[n]
    BY <1>1, <1>6 DEF StoreMessage, ChatInv
  <2>2. /\ intents' \in [Sends -> Nat] /\ intents'[s] = intents[s] + 1
        /\ \A k \in Sends \ {s} : intents'[k] = intents[k]
    BY <1>1, <1>6 DEF StoreMessage, ChatInv
  <2>3. \A n \in ChatMatches : s \notin messages[n]
    BY <1>1, <1>6 DEF StoredOnce
  <2>4. ~(chat[m].closed = TRUE)
    BY <1>6 DEF ChatRefuses
  <2>5. \A x : \A k \in Sends : IsSo(k, x) => IsSo(k, x)'
    BY <1>1, <1>2, <2>1, <2>4 DEF IsSo, ChatInv, SendRow, NoChat
  <2>6. IsSo(s, "sent")'
    BY <1>1, <1>2, <2>1 DEF IsSo
  <2>7. \A b \in sending' : AttemptHolds(b)' /\ b \in AttemptRow
    <3>1. \A b \in sending : AttemptHolds(b)' /\ b \in AttemptRow
      BY <1>2, <2>5 DEF ChatInv, AttemptHolds, AttemptRow
    <3>2. AttemptHolds([a EXCEPT !.answer = answer])'
      BY <1>1, <1>2, <1>4, <1>6, <2>6 DEF AttemptHolds
    <3> QED BY <1>3, <1>4, <3>1, <3>2
  <2>8. StoredOnce(s)'
    BY <1>1, <1>2, <2>1, <2>2, <2>3 DEF StoredOnce, ChatInv
  <2>9. ASSUME NEW k \in Sends \ {s} PROVE StoredOnce(k)'
    <3>1. \A n \in ChatMatches : k \in messages'[n] <=> k \in messages[n]
      BY <2>1
    <3> QED BY <1>2, <2>2, <3>1 DEF ChatInv, StoredOnce
  <2>10. \A k \in Sends : IsSo(k, send[k].told)'
    BY <1>2, <2>5 DEF ChatInv
  <2>11. \A n \in ChatMatches : messages[n] \subseteq messages'[n]
    BY <2>1
  <2>12. ListHolds' /\ ViewHolds'
    BY <1>2, <2>11 DEF ChatInv, ListHolds, ViewHolds, ListRow, ViewRow
  <2> QED BY <1>2, <2>1, <2>2, <2>7, <2>8, <2>9, <2>10, <2>12 DEF ChatInv
<1> QED BY <1>3, <1>5, <1>6

\* The match ends, or the player joins or leaves it.
LEMMA MatchMoves ==
  ASSUME ChatInv, NEW m \in ChatMatches, EndMatch(m) \/ JoinOrLeave(m)
  PROVE  ChatInv'
<1>1. UNCHANGED <<messages, intents, send, sending, view, list>>
  BY DEF EndMatch, JoinOrLeave
<1>2. /\ chat' \in [ChatMatches -> [closed : BOOLEAN, member : BOOLEAN]]
      /\ \A n \in ChatMatches : chat[n].closed = TRUE => chat'[n].closed = TRUE
  <2>1. CASE EndMatch(m)
    <3>1. PICK row : row = [chat[m] EXCEPT !.closed = TRUE] /\ chat' = [chat EXCEPT ![m] = row]
      BY <2>1 DEF EndMatch
    <3>2. row \in [closed : BOOLEAN, member : BOOLEAN] /\ row.closed = TRUE
      BY <3>1 DEF ChatInv
    <3> QED BY <3>1, <3>2 DEF ChatInv
  <2>2. CASE JoinOrLeave(m)
    <3>1. PICK b, row : /\ b = ~chat[m].member /\ row = [chat[m] EXCEPT !.member = b]
                        /\ b \in BOOLEAN /\ chat' = [chat EXCEPT ![m] = row]
      BY <2>2 DEF JoinOrLeave
    <3>2. row \in [closed : BOOLEAN, member : BOOLEAN] /\ row.closed = chat[m].closed
      BY <3>1 DEF ChatInv
    <3> QED BY <3>1, <3>2 DEF ChatInv
  <2> QED BY <2>1, <2>2
<1>3. \A x : \A k \in Sends : IsSo(k, x) => IsSo(k, x)'
  BY <1>1, <1>2 DEF IsSo
<1>4. \A k \in Sends : StoredOnce(k)' /\ IsSo(k, send[k].told)'
  BY <1>1, <1>3 DEF ChatInv, StoredOnce
<1>5. \A a \in sending : AttemptHolds(a)'
  BY <1>1, <1>3 DEF ChatInv, AttemptHolds, AttemptRow
<1>6. ListHolds' /\ ViewHolds'
  BY <1>1 DEF ChatInv, ListHolds, ViewHolds
<1> QED BY <1>1, <1>2, <1>4, <1>5, <1>6 DEF ChatInv

\* The screen asks for messages, gets them, or is left.
LEMMA ScreenKeeps ==
  ASSUME ChatInv, \/ \E m \in ChatMatches : LoadMessages(m)
                  \/ PollMessages \/ ServeList \/ ReceiveList \/ CloseDetails
  PROVE  ChatInv'
<1>1. UNCHANGED <<serverVars, send, sending>>
  BY DEF LoadMessages, PollMessages, ServeList, ReceiveList, CloseDetails
<1>2. /\ \A k \in Sends : StoredOnce(k)' /\ IsSo(k, send[k].told)'
      /\ \A a \in sending : AttemptHolds(a)'
  BY <1>1 DEF ChatInv, StoredOnce, IsSo, AttemptHolds, serverVars
<1>3. ListHolds' /\ ViewHolds'
  <2>1. ASSUME NEW m \in ChatMatches, NEW back \in BOOLEAN
        PROVE  [match |-> m, background |-> back, answer |-> "none", found |-> {}] \in ListRow
    BY DEF ListRow
  <2>2. CASE \E m \in ChatMatches : LoadMessages(m)
    <3>1. PICK m \in ChatMatches : LoadMessages(m)
      BY <2>2
    <3>2. list' \in ListRow /\ list'.match = m /\ list'.found = {}
      BY <3>1, <2>1 DEF LoadMessages, Ask
    <3>3. view' \in ViewRow /\ view'.match = m /\ view'.shown = {}
      BY <3>1 DEF LoadMessages, ChatInv, ViewHolds, ViewRow
    <3> QED BY <3>2, <3>3, ChatAssumption DEF ListHolds, ViewHolds, NoChat
  <2>3. CASE PollMessages
    <3>1. view' = view /\ view.match \in ChatMatches
      BY <2>3 DEF PollMessages, ChatInv, ViewHolds, ViewRow
    <3>2. list' \in ListRow /\ list'.match = view.match /\ list'.found = {}
      BY <2>3, <3>1, <2>1 DEF PollMessages, Ask
    <3> QED BY <1>1, <3>1, <3>2 DEF ListHolds, ViewHolds, ChatInv, serverVars
  <2>4. CASE ServeList
    <3>1. view' = view /\ messages' = messages /\ list # NoList
      BY <1>1, <2>4 DEF ServeList, serverVars
    <3>2. list \in ListRow /\ list.match = view.match /\ list.found \subseteq messages[list.match]
      BY <3>1 DEF ChatInv, ListHolds
    <3>3. messages[list.match] \in SUBSET Sends
      BY <3>2 DEF ChatInv, ListRow
    <3>4. list' \in ListRow /\ list'.match = list.match /\ list'.found \subseteq messages[list.match]
      <4>1. \/ list' = [list EXCEPT !.answer = "found", !.found = messages[list.match]]
            \/ list' = [list EXCEPT !.answer = "rejected"]
        BY <2>4 DEF ServeList
      <4>2. CASE list' = [list EXCEPT !.answer = "found", !.found = messages[list.match]]
        BY <3>2, <3>3, <4>2 DEF ListRow
      <4>3. CASE list' = [list EXCEPT !.answer = "rejected"]
        BY <3>2, <4>3 DEF ListRow
      <4> QED BY <4>1, <4>2, <4>3
    <3> QED BY <3>1, <3>2, <3>4 DEF ListHolds, ViewHolds, ChatInv
  <2>5. CASE ReceiveList
    <3>1. /\ list \in ListRow /\ list.match = view.match /\ list.found \subseteq messages[list.match]
          /\ list' = NoList /\ messages' = messages
      BY <1>1, <2>5 DEF ReceiveList, ChatInv, ListHolds, serverVars
    <3>2. view \in ViewRow /\ view.match \in ChatMatches /\ view.shown \subseteq messages[view.match]
          /\ view.match # NoChat
      BY <3>1, ChatAssumption DEF ChatInv, ViewHolds, ListRow, NoChat
    <3>3. PICK shown, loading :
            /\ loading = (view.loading /\ list.background)
            /\ view' = [view EXCEPT !.shown = shown, !.loading = loading]
            /\ shown \subseteq messages[view.match]
      <4>1. PICK loading : loading = (view.loading /\ list.background)
        OBVIOUS
      <4>2. PICK shown : shown = IF list.background THEN view.shown \cup list.found ELSE list.found
        OBVIOUS
      <4>3. \/ view' = [view EXCEPT !.shown = shown, !.loading = loading]
            \/ view' = [view EXCEPT !.loading = loading]
        BY <2>5, <4>1, <4>2, Zenon DEF ReceiveList
      <4>4. shown \subseteq messages[view.match]
        BY <3>1, <3>2, <4>2
      <4>5. view = [view EXCEPT !.shown = view.shown]
        BY <3>2 DEF ViewRow
      <4>6. CASE view' = [view EXCEPT !.loading = loading]
        <5>1. view' = [view EXCEPT !.shown = view.shown, !.loading = loading]
          BY <3>2, <4>6 DEF ViewRow
        <5> QED BY <3>2, <4>1, <5>1
      <4> QED BY <4>1, <4>3, <4>4, <4>6
    <3>4. loading \in BOOLEAN /\ shown \in SUBSET Sends
      BY <3>2, <3>3 DEF ChatInv
    <3>5. view' \in ViewRow /\ view'.match = view.match /\ view'.shown = shown
      BY <3>2, <3>3, <3>4 DEF ViewRow
    <3> QED BY <3>1, <3>2, <3>3, <3>5 DEF ListHolds, ViewHolds
  <2>6. CASE CloseDetails
    <3>1. Empty \in ViewRow /\ Empty.match = NoChat /\ Empty.shown = {}
      BY DEF Empty, ViewRow
    <3> QED BY <2>6, <3>1 DEF CloseDetails, ListHolds, ViewHolds
  <2> QED BY <2>2, <2>3, <2>4, <2>5, <2>6
<1> QED BY <1>1, <1>2, <1>3 DEF ChatInv, serverVars

\* The player is told how his message fared.
LEMMA TellKeeps ==
  ASSUME ChatInv, NEW s \in Sends, NEW answer \in {"sent", "closed", "not found", "unavailable"},
         send[s].pc = "waits", IsSo(s, answer), Tell(s, answer), sending' \subseteq sending,
         UNCHANGED <<serverVars, list>>
  PROVE  ChatInv'
<1>1. PICK row : row = [send[s] EXCEPT !.pc = "done", !.told = answer] /\ send' = [send EXCEPT ![s] = row]
  BY DEF Tell
<1>2. row \in SendRow /\ row.pc = "done" /\ row.told = answer /\ row.match = send[s].match
  BY <1>1 DEF ChatInv, SendRow
<1>3. /\ send' \in [Sends -> SendRow] /\ send'[s] = row
      /\ \A k \in Sends \ {s} : send'[k] = send[k]
  BY <1>1, <1>2 DEF ChatInv
<1>4. UNCHANGED <<chat, messages, intents, list>>
  BY DEF serverVars
<1>5. \A x : \A k \in Sends : IsSo(k, x) => IsSo(k, x)'
  BY <1>2, <1>3, <1>4 DEF IsSo
<1>6. StoredOnce(s)' /\ \A k \in Sends \ {s} : StoredOnce(k)'
  BY <1>2, <1>3, <1>4 DEF StoredOnce, ChatInv
<1>7. IsSo(s, send[s].told)' /\ \A k \in Sends \ {s} : IsSo(k, send[k].told)'
  BY <1>2, <1>3, <1>5 DEF ChatInv
<1>8. \A a \in sending : AttemptHolds(a)'
  <2> SUFFICES ASSUME NEW a \in sending PROVE AttemptHolds(a)'
    OBVIOUS
  <2>1. a.send \in Sends /\ AttemptHolds(a)
    BY DEF ChatInv, AttemptRow
  <2>2. send'[a.send].pc # "unsent"
    BY <1>2, <1>3, <2>1 DEF AttemptHolds
  <2> QED BY <1>5, <2>1, <2>2 DEF AttemptHolds
<1>9. ViewHolds' /\ view'.match = view.match
  <2>1. view \in ViewRow /\ send[s].match \in ChatMatches
    BY DEF ChatInv, ViewHolds, StoredOnce
  <2>2. PICK shown, held :
          /\ shown = IF answer = "sent" /\ IsOpen(send[s].match) THEN view.shown \cup {s} ELSE view.shown
          /\ held = IF view.busy = s THEN NoChat ELSE view.busy
    OBVIOUS
  <2>3. view' = [view EXCEPT !.shown = shown, !.busy = held]
    BY <2>2 DEF Tell
  <2>4. shown \in SUBSET Sends /\ held \in Sends \cup {NoChat}
    BY <2>1, <2>2 DEF ViewRow
  <2>5. view' \in ViewRow /\ view'.match = view.match /\ view'.shown = shown
    BY <2>1, <2>3, <2>4 DEF ViewRow
  <2>6. shown = view.shown \/ (answer = "sent" /\ view.match = send[s].match /\ shown = view.shown \cup {s})
    BY <2>2 DEF IsOpen
  <2> QED BY <1>4, <2>1, <2>5, <2>6, ChatAssumption DEF ChatInv, ViewHolds, IsSo, NoChat
<1>10. ListHolds'
  BY <1>4, <1>9 DEF ChatInv, ListHolds
<1> QED BY <1>3, <1>4, <1>6, <1>7, <1>8, <1>9, <1>10 DEF ChatInv

\* A message is written, or sent again.
LEMMA SendingKeeps ==
  ASSUME ChatInv, NEW s \in Sends, NEW row \in SendRow, NEW n \in Nat,
         row.pc = "waits", row.told = "none" \/ row.told = send[s].told, row.match \in ChatMatches,
         send[s].pc # "unsent" => row.match = send[s].match,
         send' = [send EXCEPT ![s] = row], sending' = sending \cup {Attempt(s, n)},
         UNCHANGED <<serverVars, list>>, ViewHolds', view'.match = view.match
  PROVE  ChatInv'
<1>1. /\ send' \in [Sends -> SendRow] /\ send'[s] = row
      /\ \A k \in Sends \ {s} : send'[k] = send[k]
  BY DEF ChatInv
<1>2. UNCHANGED <<chat, messages, intents, list>>
  BY DEF serverVars
<1>3. \A k \in Sends : send[k].pc # "unsent" => send'[k].match = send[k].match /\ send'[k].pc # "unsent"
  BY <1>1 
<1>4. \A x : \A k \in Sends : IsSo(k, x) /\ send[k].pc # "unsent" => IsSo(k, x)'
  BY <1>2, <1>3 DEF IsSo
<1>5. StoredOnce(s)' /\ \A k \in Sends \ {s} : StoredOnce(k)'
  BY <1>1, <1>2, <1>3 DEF ChatInv, StoredOnce
<1>6. IsSo(s, send[s].told)' /\ \A k \in Sends \ {s} : IsSo(k, send[k].told)'
  <2>1. IsSo(s, send[s].told)'
    <3>1. CASE row.told = "none"
      BY <1>1, <3>1 DEF IsSo
    <3>2. CASE row.told = send[s].told /\ send[s].pc # "unsent"
      BY <1>1, <1>4, <3>2 DEF ChatInv
    <3>3. CASE row.told = send[s].told /\ send[s].pc = "unsent"
      BY <1>1, <3>3 DEF ChatInv, StoredOnce, IsSo
    <3> QED BY <3>1, <3>2, <3>3
  <2>2. ASSUME NEW k \in Sends \ {s} PROVE IsSo(k, send[k].told)'
    BY <1>1, <1>2 DEF ChatInv, IsSo
  <2> QED BY <2>1, <2>2
<1>7. /\ Attempt(s, n) \in AttemptRow /\ Attempt(s, n).send = s
      /\ Attempt(s, n).answer = "none"
  BY DEF Attempt, AttemptRow
<1>8. \A a \in sending' : AttemptHolds(a)' /\ a \in AttemptRow
  <2>1. ASSUME NEW a \in sending PROVE AttemptHolds(a)' /\ a \in AttemptRow
    <3>1. a.send \in Sends /\ AttemptHolds(a) /\ a \in AttemptRow
      BY DEF ChatInv, AttemptRow
    <3> QED BY <1>3, <1>4, <3>1 DEF AttemptHolds
  <2>2. AttemptHolds(Attempt(s, n))'
    BY <1>1, <1>7 DEF AttemptHolds, IsSo
  <2> QED BY <1>7, <2>1, <2>2
<1>9. ListHolds'
  BY <1>2 DEF ChatInv, ListHolds
<1> QED BY <1>1, <1>2, <1>5, <1>6, <1>8, <1>9 DEF ChatInv

LEMMA SendTextKeeps ==
  ASSUME ChatInv, NEW s \in Sends, SendText(s)
  PROVE  ChatInv'
<1>0. PICK n : n = 1 /\ n \in Nat
  OBVIOUS
<1>1. PICK row : row = [pc |-> "waits", match |-> view.match, try |-> n, told |-> "none"]
  OBVIOUS
<1>2. view \in ViewRow /\ view.match \in ChatMatches
  BY DEF SendText, ChatInv, ViewHolds, ViewRow
<1>3. row \in SendRow /\ row.pc = "waits" /\ row.told = "none" /\ row.match \in ChatMatches
  BY <1>0, <1>1, <1>2 DEF SendRow
<1>4. view' \in ViewRow /\ view'.match = view.match /\ view'.shown = view.shown
  BY <1>2 DEF SendText, ViewRow
<1>5. ViewHolds' /\ view'.match = view.match
  BY <1>4 DEF SendText, ChatInv, ViewHolds, serverVars
<1>6. /\ send[s].pc = "unsent" /\ send' = [send EXCEPT ![s] = row]
      /\ sending' = sending \cup {Attempt(s, n)} /\ UNCHANGED <<serverVars, list>>
  BY <1>0, <1>1 DEF SendText
<1> QED BY <1>0, <1>3, <1>5, <1>6, SendingKeeps

LEMMA ResendKeeps ==
  ASSUME ChatInv, NEW s \in Sends, RetrySend(s)
  PROVE  ChatInv'
<1>1. CASE send[s].try < ChatTries
  <2>1. PICK n, row : n = send[s].try + 1 /\ row = [send[s] EXCEPT !.try = n]
    OBVIOUS
  <2>10. send[s] \in SendRow /\ StoredOnce(s) /\ send[s].pc = "waits"
    BY DEF RetrySend, ChatInv
  <2>11. send[s].match \in ChatMatches
    BY <2>10 DEF StoredOnce
  <2>2. send[s] \in SendRow /\ send[s].pc = "waits" /\ n \in Nat /\ send[s].match \in ChatMatches
    <3>1. send[s].try \in Nat
      BY <2>10 DEF SendRow
    <3> QED BY <2>1, <2>10, <2>11, <3>1
  <2>3. row \in SendRow /\ row.pc = "waits" /\ row.told = send[s].told /\ row.match = send[s].match
    BY <2>1, <2>2 DEF SendRow
  <2>4. /\ send' = [send EXCEPT ![s] = row] /\ sending' = sending \cup {Attempt(s, n)}
        /\ view' = view /\ UNCHANGED <<serverVars, list>>
    BY <1>1, <2>1 DEF RetrySend
  <2>5. ViewHolds'
    BY <2>4 DEF ChatInv, ViewHolds, serverVars
  <2> QED BY <2>2, <2>3, <2>4, <2>5, SendingKeeps
<1>2. CASE ~(send[s].try < ChatTries)
  <2>1. /\ send[s].pc = "waits" /\ Tell(s, "unavailable") /\ sending' = sending
        /\ UNCHANGED <<serverVars, list>>
    BY <1>2 DEF RetrySend
  <2>2. IsSo(s, "unavailable")
    BY DEF IsSo
  <2> QED BY <2>1, <2>2, TellKeeps
<1> QED BY <1>1, <1>2

LEMMA ReceiveSendKeeps ==
  ASSUME ChatInv, NEW a \in sending, ReceiveSend(a)
  PROVE  ChatInv'
<1>1. PICK s, answer : s = a.send /\ answer = a.answer
  OBVIOUS
<1>2. s \in Sends /\ answer \in {"sent", "closed", "not found", "unavailable"} /\ IsSo(s, answer)
  BY <1>1 DEF ReceiveSend, ChatInv, AttemptHolds, AttemptRow
<1>3. send[s].pc = "waits" /\ Tell(s, answer) /\ sending' \subseteq sending /\ UNCHANGED <<serverVars, list>>
  BY <1>1 DEF ReceiveSend
<1> QED BY <1>2, <1>3, TellKeeps

LEMMA ChatStep ==
  ChatInv /\ [ChatNext]_chatVars => ChatInv'
<1> SUFFICES ASSUME ChatInv, [ChatNext]_chatVars PROVE ChatInv'
  OBVIOUS
<1>1. CASE UNCHANGED chatVars
  BY <1>1 DEF chatVars, ChatInv, StoredOnce, IsSo, AttemptHolds, ListHolds, ViewHolds
<1> QED BY <1>1, ServeSendKeeps, MatchMoves, ScreenKeeps, SendTextKeeps, ResendKeeps, ReceiveSendKeeps
        DEF ChatNext

\* Through lost answers and repeated requests a message is stored and told once,
\* what the player was told of it is so, and the screen shows the open match.
THEOREM ChatIsAlwaysTrue == ChatSpec => []ChatIsTrue
<1>1. ChatInv => ChatIsTrue
  <2> SUFFICES ASSUME ChatInv PROVE ChatIsTrue
    OBVIOUS
  <2>1. ASSUME NEW id \in Sends
        PROVE  intents[id] = Cardinality({m \in ChatMatches : id \in messages[m]}) /\ intents[id] <= 1
    <3>1. PICK in : in = {m \in ChatMatches : id \in messages[m]}
      OBVIOUS
    <3>2. CASE in = {}
      <4>1. intents[id] = 0
        BY <3>1, <3>2 DEF ChatInv, StoredOnce
      <4>2. Cardinality(in) = 0
        BY ONLY <3>2, FS_EmptySet
      <4> QED BY <3>1, <4>1, <4>2
    <3>3. CASE in # {}
      <4>1. intents[id] = 1 /\ in = {send[id].match}
        BY <3>1, <3>3 DEF ChatInv, StoredOnce
      <4>2. Cardinality(in) = 1
        BY ONLY <4>1, FS_Singleton
      <4> QED BY <3>1, <4>1, <4>2
    <3> QED BY <3>2, <3>3
  <2>2. DOMAIN intents = Sends
    BY DEF ChatInv
  <2>3. \A s \in Sends : /\ send[s].told = "sent" => s \in messages[send[s].match]
                         /\ send[s].told = "closed" => s \notin messages[send[s].match]
    BY DEF ChatInv, IsSo
  <2>4. view.shown \subseteq (IF view.match = NoChat THEN {} ELSE messages[view.match])
    BY DEF ChatInv, ViewHolds
  <2> QED BY <2>1, <2>2, <2>3, <2>4 DEF ChatIsTrue
<1> QED BY <1>1, ChatInitInv, ChatStep, PTL DEF ChatSpec

\* No message is sent more often than the client may.
TriesFit ==
  /\ \A s \in Sends : send[s].try <= ChatTries /\ (send[s].pc = "waits" => 1 <= send[s].try)
  /\ \A a \in sending : a.try \in 1..ChatTries

LEMMA TriesStay ==
  ASSUME ChatInv, TriesFit, [ChatNext]_chatVars PROVE TriesFit'
<1>0. send \in [Sends -> SendRow] /\ sending \subseteq AttemptRow /\ ChatTries \in Nat \ {0}
      /\ \A s \in Sends : send[s].try \in Nat
  BY ChatAssumption DEF ChatInv, SendRow
<1>1. CASE UNCHANGED <<send, sending>>
  BY <1>1 DEF TriesFit
<1>2. ASSUME NEW a \in sending, ServeSend(a) PROVE TriesFit'
  <2>1. send' = send /\ \E answer : AnswersSend(a, answer)
    BY <1>2 DEF ServeSend
  <2>2. PICK answer : AnswersSend(a, answer)
    BY <2>1
  <2>3. PICK b : b = [a EXCEPT !.answer = answer]
    OBVIOUS
  <2>4. b.try = a.try /\ sending' \subseteq sending \cup {b}
    BY <1>0, <2>2, <2>3 DEF AnswersSend, AttemptRow
  <2> QED BY <2>1, <2>4 DEF TriesFit
<1>3. ASSUME NEW s \in Sends, NEW answer, Tell(s, answer), sending' \subseteq sending PROVE TriesFit'
  <2>1. \A r \in Sends : send'[r].try = send[r].try /\ (send'[r].pc = "waits" => send[r].pc = "waits")
    BY <1>0, <1>3 DEF Tell, SendRow
  <2> QED BY <1>3, <2>1 DEF TriesFit
<1>4. ASSUME NEW a \in sending, ReceiveSend(a) PROVE TriesFit'
  <2>1. a.send \in Sends /\ sending' \subseteq sending /\ Tell(a.send, a.answer)
    BY <1>0, <1>4 DEF ReceiveSend, AttemptRow
  <2> QED BY <1>3, <2>1
<1>5. ASSUME NEW s \in Sends, SendText(s) PROVE TriesFit'
  <2>1. PICK row : row = [pc |-> "waits", match |-> view.match, try |-> 1, told |-> "none"]
    OBVIOUS
  <2>2. send' = [send EXCEPT ![s] = row] /\ row.try = 1
    BY <1>5, <2>1 DEF SendText
  <2>3. PICK a : a = Attempt(s, 1)
    OBVIOUS
  <2>4. a.try = 1 /\ sending' = sending \cup {a}
    BY <1>5, <2>3 DEF SendText, Attempt
  <2> QED BY <1>0, <2>2, <2>4 DEF TriesFit
<1>6. ASSUME NEW s \in Sends, RetrySend(s) PROVE TriesFit'
  <2>1. CASE send[s].try < ChatTries
    <3>1. PICK next, a : next = send[s].try + 1 /\ a = Attempt(s, next)
      OBVIOUS
    <3>2. send' = [send EXCEPT ![s].try = next] /\ sending' = sending \cup {a} /\ a.try = next
      BY <1>0, <1>6, <2>1, <3>1 DEF RetrySend, Attempt
    <3>3. next \in 1..ChatTries
      BY <1>0, <2>1, <3>1
    <3>4. \A r \in Sends : send'[r].try = (IF r = s THEN next ELSE send[r].try)
                           /\ send'[r].pc = send[r].pc
      BY <1>0, <3>2 DEF SendRow
    <3> QED BY <1>0, <3>2, <3>3, <3>4 DEF TriesFit
  <2>2. CASE ~(send[s].try < ChatTries)
    BY <1>3, <1>6, <2>2 DEF RetrySend
  <2> QED BY <2>1, <2>2
<1> QED BY <1>1, <1>2, <1>4, <1>5, <1>6
    DEF ChatNext, chatVars, EndMatch, JoinOrLeave, LoadMessages, PollMessages, ServeList, ReceiveList, CloseDetails

\* ChatTypeOK, of every set of matches and sends, and of every bound of tries.
THEOREM ChatIsTyped == ChatSpec => []ChatTypeOK
<1>1. ChatInit => TriesFit
  <2> SUFFICES ASSUME ChatInit PROVE TriesFit
    OBVIOUS
  <2>1. \A s \in Sends : send[s].pc = "unsent" /\ send[s].try = 0
    BY DEF ChatInit
  <2> QED BY <2>1, ChatAssumption DEF ChatInit, TriesFit
<1>2. ChatInv /\ TriesFit => ChatTypeOK
  <2> SUFFICES ASSUME ChatInv, TriesFit PROVE ChatTypeOK
    OBVIOUS
  <2>1. \A m \in ChatMatches :
          chat[m].closed \in BOOLEAN /\ chat[m].member \in BOOLEAN /\ messages[m] \subseteq DOMAIN intents
    BY DEF ChatInv
  <2>2. \A a \in sending : a.send \in Sends
    BY DEF ChatInv, AttemptRow
  <2>3. view.match \in ChatMatches \cup {NoChat} /\ view.loading \in BOOLEAN
    BY DEF ChatInv, ViewHolds, ViewRow
  <2> QED BY <2>1, <2>2, <2>3 DEF ChatInv, TriesFit, ListHolds, ChatTypeOK
<1> QED BY <1>1, <1>2, ChatInitInv, ChatStep, TriesStay, PTL DEF ChatSpec

-----------------------------------------------------------------------------
(* NotificationCentre.                                                     *)

Seen == {"none", "unread", "read"}

\* A tap: its notification, the snapshot of its statement, its answer.
TapSound(t) ==
  /\ tap[t].pc \in {"idle", "sent", "marking", "answered", "read", "failed", "unavailable"}
  /\ tap[t].pc # "idle" => tap[t].note \in Notes
  /\ tap[t].pc = "answered" =>
       tap[t].answer \in {"read", "failed"} /\ notes[tap[t].note] = "read"
  /\ tap[t].pc = "failed" => notes[tap[t].note] = "read"
  /\ tap[t].pc = "read" => /\ centre.items[tap[t].note] = "read"
                           /\ load.pc = "served" => load.found[tap[t].note] = "read"

\* What the page shows, or is about to, as read is read.
PageShows ==
  /\ \A n \in Notes : centre.items[n] = "read" => notes[n] = "read"
  /\ load.pc = "served" => \A n \in Notes : load.found[n] = "read" => notes[n] = "read"

NotesInv ==
  /\ notes \in [Notes -> Seen]
  /\ load = NoLoad \/ load = [pc |-> "sent"]
     \/ \E found \in [Notes -> Seen] : load = [pc |-> "served", found |-> found]
  /\ DOMAIN tap = Taps
  /\ \E items \in [Notes -> Seen] : centre = [items |-> items, unread |-> Unread(items)]
  /\ PageShows /\ \A t \in Taps : TapSound(t)

\* One notification less to read.
LEMMA OneLessUnread ==
  ASSUME NEW items \in [Notes -> Seen], NEW n \in Notes
  PROVE  /\ Unread(items) \in Nat
         /\ Unread([items EXCEPT ![n] = "read"]) =
              IF items[n] = "unread" THEN Unread(items) - 1 ELSE Unread(items)
         /\ items[n] = "unread" => Unread(items) > 0
<1> DEFINE U == {k \in Notes : items[k] = "unread"}
           V == {k \in Notes : [items EXCEPT ![n] = "read"][k] = "unread"}
<1>1. IsFiniteSet(U) /\ Cardinality(U) \in Nat
  <2>1. U \subseteq Notes
    OBVIOUS
  <2> QED BY <2>1, NotesAssumption, FS_Subset, FS_CardinalityType
<1>2. V = U \ {n}
  OBVIOUS
<1>3. n \in U <=> items[n] = "unread"
  OBVIOUS
<1>4. Unread(items) = Cardinality(U) /\ Unread([items EXCEPT ![n] = "read"]) = Cardinality(V)
  BY DEF Unread
<1> HIDE DEF U, V
<1>5. CASE n \in U
  <2>1. Cardinality(V) = Cardinality(U) - 1
    BY <1>1, <1>2, <1>5, FS_RemoveElement
  <2>2. Cardinality(U) # 0
    BY <1>1, <1>5, FS_EmptySet
  <2> QED BY <1>1, <1>3, <1>4, <1>5, <2>1, <2>2
<1>6. CASE n \notin U
  <2>1. V = U
    BY <1>2, <1>6
  <2> QED BY <1>1, <1>3, <1>4, <1>6, <2>1
<1> QED BY <1>5, <1>6

LEMMA NotesInitInv ==
  NotesInit => NotesInv
<1> SUFFICES ASSUME NotesInit PROVE NotesInv
  OBVIOUS
<1>1. PICK items : items = [n \in Notes |-> "none"]
  OBVIOUS
<1>2. items \in [Notes -> Seen] /\ \A n \in Notes : items[n] = "none"
  BY <1>1 DEF Seen
<1>3. Unread(items) = 0
  <2>1. {n \in Notes : items[n] = "unread"} = {}
    BY <1>2
  <2> QED BY <2>1, FS_EmptySet DEF Unread
<1>4. notes = items /\ load = NoLoad /\ centre = [items |-> items, unread |-> Unread(items)]
  BY <1>1, <1>3 DEF NotesInit
<1>5. tap = [t \in Taps |-> [pc |-> "idle"]]
  BY DEF NotesInit
<1>6. \A t \in Taps : TapSound(t)
  BY <1>5 DEF TapSound
<1>7. PageShows
  BY <1>2, <1>4 DEF PageShows, NoLoad
<1> QED BY <1>2, <1>4, <1>5, <1>6, <1>7 DEF NotesInv

LEMMA NotesStepInv ==
  NotesInv /\ [NotesNext]_notesVars => NotesInv'
<1> SUFFICES ASSUME NotesInv, [NotesNext]_notesVars PROVE NotesInv'
  OBVIOUS
<1> USE DEF NotesInv, NoLoad
<1>1. ASSUME NEW n \in Notes, Notify(n) PROVE NotesInv'
  <2>1. \A k \in Notes : notes[k] = "read" => notes'[k] = "read"
    BY <1>1 DEF Notify
  <2>2. notes' \in [Notes -> Seen] /\ UNCHANGED <<tap, load, centre>>
    BY <1>1 DEF Notify, Seen
  <2> QED BY <2>1, <2>2 DEF PageShows, TapSound, Unread
<1>2. ASSUME NEW n \in Notes, MarkUnheard(n) PROVE NotesInv'
  <2>1. \A k \in Notes : notes[k] = "read" => notes'[k] = "read"
    BY <1>2 DEF MarkUnheard
  <2>2. notes' \in [Notes -> Seen] /\ UNCHANGED <<tap, load, centre>>
    BY <1>2 DEF MarkUnheard, Seen
  <2> QED BY <2>1, <2>2 DEF PageShows, TapSound, Unread
<1>3. ASSUME NEW n \in Notes, NEW t \in Taps, ViewNotification(t, n) PROVE NotesInv'
  BY <1>3 DEF ViewNotification, PageShows, TapSound, Unread
<1>4. ASSUME NEW t \in Taps, BeginMark(t) PROVE NotesInv'
  BY <1>4 DEF BeginMark, PageShows, TapSound, Unread
<1>5. ASSUME NEW t \in Taps, EndMark(t) PROVE NotesInv'
  <2>1. tap[t].pc = "marking" /\ tap[t].note \in Notes
    BY <1>5 DEF EndMark, TapSound
  <2>2. \A k \in Notes : notes[k] = "read" => notes'[k] = "read"
    BY <1>5 DEF EndMark
  <2>3. notes' \in [Notes -> Seen] /\ notes'[tap[t].note] = "read" /\ UNCHANGED <<load, centre>>
    BY <1>5, <2>1 DEF EndMark, Seen
  <2>4. PICK a \in {"read", "failed"} :
          tap' = [tap EXCEPT ![t] = [pc |-> "answered", note |-> @.note, answer |-> a]]
    BY <1>5 DEF EndMark, AnswerOf
  <2>5. \A s \in Taps : TapSound(s)'
    BY <2>1, <2>2, <2>3, <2>4 DEF TapSound
  <2> QED BY <2>2, <2>3, <2>4, <2>5 DEF PageShows, Unread
<1>6. ASSUME NEW t \in Taps, ReceiveMark(t) PROVE NotesInv'
  <2>1. PICK k : k = tap[t].note /\ k \in Notes /\ notes[k] = "read"
                 /\ tap[t].pc = "answered" /\ tap[t].answer \in {"read", "failed"}
    BY <1>6 DEF ReceiveMark, TapSound
  <2>2. tap' = [tap EXCEPT ![t] = [pc |-> tap[t].answer, note |-> k]] /\ notes' = notes
    BY <1>6, <2>1 DEF ReceiveMark, TapBecomes
  <2>3. CASE tap[t].answer = "failed"
    BY <1>6, <2>1, <2>2, <2>3 DEF ReceiveMark, PageShows, TapSound, Unread
  <2>4. CASE tap[t].answer = "read"
    <3>1. PICK items \in [Notes -> Seen] : centre = [items |-> items, unread |-> Unread(items)]
      OBVIOUS
    <3>2. PICK next : next = [items EXCEPT ![k] = "read"]
      OBVIOUS
    <3>3. next \in [Notes -> Seen] /\ next[k] = "read" /\ \A n \in Notes \ {k} : next[n] = items[n]
      BY <2>1, <3>2 DEF Seen
    <3>4. load' = NoLoad /\ centre' = [items |-> next, unread |-> UnreadAfter(k)]
      BY <1>6, <2>1, <2>4, <3>1, <3>2 DEF ReceiveMark, OvertakenByMark
    <3>5. UnreadAfter(k) = Unread(next)
      BY <2>1, <3>1, <3>2, OneLessUnread DEF UnreadAfter
    <3>6. centre' = [items |-> next, unread |-> Unread(next)]
      BY <3>4, <3>5
    <3>7. \A s \in Taps : TapSound(s)'
      BY <2>1, <2>2, <2>4, <3>1, <3>3, <3>4 DEF TapSound
    <3>8. PageShows'
      BY <2>1, <2>2, <3>1, <3>3, <3>4 DEF PageShows
    <3> QED BY <2>2, <3>3, <3>4, <3>6, <3>7, <3>8 DEF Unread
  <2> QED BY <2>1, <2>3, <2>4
<1>7. ASSUME NEW t \in Taps, RepeatMark(t) PROVE NotesInv'
  <2>1. PICK pc \in {"sent", "unavailable"} :
          tap' = [tap EXCEPT ![t] = [pc |-> pc, note |-> @.note]]
    BY <1>7 DEF RepeatMark, TapBecomes
  <2>2. tap[t].pc # "idle" /\ UNCHANGED <<notes, load, centre>>
    BY <1>7 DEF RepeatMark
  <2>3. \A s \in Taps : TapSound(s)'
    BY <2>1, <2>2 DEF TapSound
  <2> QED BY <2>1, <2>2, <2>3 DEF PageShows, Unread
<1>8. CASE LoadNotifications
  <2>1. load' = [pc |-> "sent"] /\ UNCHANGED <<notes, tap, centre>>
    BY <1>8 DEF LoadNotifications
  <2>2. load'.pc # "served"
    BY <2>1
  <2>3. PageShows' /\ \A t \in Taps : TapSound(t)'
    BY <2>1, <2>2 DEF PageShows, TapSound
  <2> QED BY <2>1, <2>3 DEF Unread
<1>9. CASE ServeLoad
  <2>1. load' = [pc |-> "served", found |-> notes] /\ UNCHANGED <<notes, tap, centre>>
    BY <1>9 DEF ServeLoad
  <2> QED BY <2>1 DEF PageShows, TapSound, Unread
<1>10. CASE ReceiveLoad
  <2>1. load' = NoLoad /\ UNCHANGED <<notes, tap>>
    BY <1>10 DEF ReceiveLoad
  <2>2. CASE centre' = centre
    BY <2>1, <2>2 DEF PageShows, TapSound, Unread
  <2>3. CASE load.pc = "served" /\ centre' = [items |-> load.found, unread |-> Unread(load.found)]
    <3>1. PICK found \in [Notes -> Seen] : load = [pc |-> "served", found |-> found]
      BY <2>3
    <3>2. centre' = [items |-> found, unread |-> Unread(found)]
      BY <2>3, <3>1
    <3> QED BY <2>1, <3>1, <3>2 DEF PageShows, TapSound, Unread
  <2> QED BY <1>10, <2>2, <2>3 DEF ReceiveLoad
<1>11. CASE UNCHANGED notesVars
  BY <1>11 DEF notesVars, PageShows, TapSound, Unread
<1> QED BY <1>1, <1>2, <1>3, <1>4, <1>5, <1>6, <1>7, <1>8, <1>9, <1>10, <1>11 DEF NotesNext

\* Badge, page and rows agree through double taps, repeats and loads that
\* overtake one another.
THEOREM NotesAreAlwaysTrue == NotesSpec => []NotesAreTrue
<1>1. NotesInv => NotesAreTrue
  <2> SUFFICES ASSUME NotesInv PROVE NotesAreTrue
    OBVIOUS
  <2>1. PICK items : centre = [items |-> items, unread |-> Unread(items)]
    BY DEF NotesInv
  <2>2. centre.unread = Unread(centre.items)
    BY <2>1
  <2> QED BY <2>2 DEF NotesInv, PageShows, TapSound, NotesAreTrue
<1> QED BY <1>1, NotesInitInv, NotesStepInv, PTL DEF NotesSpec

\* NotesTypeOK, of every set of notes and taps.
THEOREM NotesAreTyped == NotesSpec => []NotesTypeOK
<1>1. NotesInv => NotesTypeOK
  <2> SUFFICES ASSUME NotesInv PROVE NotesTypeOK
    OBVIOUS
  <2>1. load.pc \in {"idle", "sent", "served"}
    BY DEF NotesInv, NoLoad
  <2>2. \A n \in Notes : {notes[n], centre.items[n]} \subseteq {"none", "unread", "read"}
    BY DEF NotesInv, Seen
  <2> QED BY <2>1, <2>2 DEF NotesInv, TapSound, NotesTypeOK
<1> QED BY <1>1, NotesInitInv, NotesStepInv, PTL DEF NotesSpec

-----------------------------------------------------------------------------
(* ProfilePhoto.                                                           *)

Stowed == UNION {Renditions(a) : a \in Assets}
ChangePcs == {"unused", "upload", "put", "activate", "delete", "remove", "undo", "answered"}
ChangeRow == [pc : ChangePcs, version : Nat, todo : SUBSET Stowed,
              answer : {"none", "unheard", "failed", "done"}]

\* The recorded assets before the change.
Older(r) == {a \in Assets : 0 < assets[a] /\ assets[a] < change[r].version}

\* An asset is recorded by its own request and once; a request that removes has
\* what is stored of the older assets to remove, and nothing else, and one that
\* is done has left none of it.
ChangeSound(r) ==
  /\ change[r].pc \in {"unused", "upload", "put", "activate", "delete"} =>
       assets[r] = 0 /\ change[r].answer = "none"
  /\ change[r].pc = "activate" => Renditions(r) \subseteq objects
  /\ change[r].pc = "undo" =>
       /\ change[r].todo = Renditions(r) /\ change[r].answer \in {"none", "unheard"}
       /\ assets[r] > 0 => change[r].answer = "unheard"
  /\ change[r].pc = "remove" =>
       /\ change[r].answer = "none" /\ change[r].version <= photo.version
       /\ \A x \in change[r].todo : \E a \in Older(r) : x \in Renditions(a)
       /\ \A a \in Older(r) : Renditions(a) \cap objects \subseteq change[r].todo
  /\ change[r].answer = "done" =>
       /\ change[r].pc = "answered" /\ change[r].version <= photo.version
       /\ \A a \in Older(r) : Renditions(a) \cap objects = {}

\* The pointer and the ledger.
PhotoTyped ==
  /\ photo \in [version : Nat, active : Assets \cup {Nothing}]
  /\ assets \in [Assets -> Nat] /\ \A a \in Assets : assets[a] <= photo.version
  /\ photo.active # Nothing => assets[photo.active] = photo.version /\ photo.version > 0
  /\ photo.active = Nothing =>
       \A a \in Assets : assets[a] > 0 => assets[a] < photo.version
  /\ change \in [ChangeIds -> ChangeRow] /\ objects \subseteq Stowed

ActiveStored ==
  photo.active # Nothing =>
    \/ Renditions(photo.active) \subseteq objects
    \/ photo.active \in ChangeIds /\ change[photo.active].answer = "unheard"

PageFollows ==
  /\ ownProfile \in [shown : Nat, busy : ChangeIds \cup {Nothing}, read : SUBSET Nat, floor : Nat]
  /\ ownProfile.floor <= photo.version
  /\ \A version \in ownProfile.read : version >= ownProfile.floor

PhotoInv ==
  PhotoTyped /\ ActiveStored /\ PageFollows /\ \A r \in ChangeIds : ChangeSound(r)

LEMMA RenditionsDiffer ==
  /\ \A a, b : a # b => Renditions(a) \cap Renditions(b) = {}
  /\ \A a \in Assets : Renditions(a) \subseteq Stowed
  /\ Nothing \notin Assets /\ OldPhoto \in Assets /\ ChangeIds \subseteq Assets
  /\ OldPhoto \notin ChangeIds /\ ChangeIds \subseteq Nat
<1>1. \A a, b : a # b => Renditions(a) \cap Renditions(b) = {}
  BY DEF Renditions
<1>2. \A a \in Assets : Renditions(a) \subseteq Stowed
  BY DEF Stowed
<1>3. /\ Nothing \notin Assets /\ OldPhoto \in Assets /\ ChangeIds \subseteq Assets
      /\ OldPhoto \notin ChangeIds /\ ChangeIds \subseteq Nat
  BY PhotoAssumption DEF Nothing, Assets, OldPhoto, ChangeIds
<1> QED BY <1>1, <1>2, <1>3

LEMMA PhotoInitInv ==
  PhotoInit => PhotoInv
<1> SUFFICES ASSUME PhotoInit PROVE PhotoInv
  OBVIOUS
<1>1. PICK z, row : z = 0 /\ z \in Nat
                    /\ row = [pc |-> "unused", version |-> 0, todo |-> {}, answer |-> "none"]
  OBVIOUS
<1>2. row \in ChangeRow /\ row.pc = "unused" /\ row.answer = "none"
  BY <1>1 DEF ChangeRow, ChangePcs
<1>3. change = [r \in ChangeIds |-> row]
  BY <1>1 DEF PhotoInit
<1>4. PhotoTyped /\ ActiveStored /\ photo.version \in Nat /\ \A r \in ChangeIds : assets[r] = 0
  <2>1. CASE /\ photo = [version |-> 0, active |-> Nothing]
             /\ assets = [a \in Assets |-> 0] /\ objects = {}
    <3>1. photo.version = 0 /\ photo.active = Nothing /\ photo \in [version : Nat, active : Assets \cup {Nothing}]
      BY <2>1
    <3>2. assets \in [Assets -> Nat] /\ \A a \in Assets : assets[a] = 0
      BY <2>1
    <3> QED BY <1>2, <1>3, <2>1, <3>1, <3>2, RenditionsDiffer DEF PhotoTyped, ActiveStored
  <2>2. CASE /\ photo = [version |-> 1, active |-> OldPhoto]
             /\ assets = [a \in Assets |-> IF a = OldPhoto THEN 1 ELSE 0] /\ objects = Renditions(OldPhoto)
    <3>1. photo.version = 1 /\ photo.active = OldPhoto /\ photo \in [version : Nat, active : Assets \cup {Nothing}]
      BY <2>2, RenditionsDiffer
    <3>2. assets \in [Assets -> Nat] /\ \A a \in Assets : assets[a] = IF a = OldPhoto THEN 1 ELSE 0
      BY <2>2
    <3>3. objects = Renditions(OldPhoto) /\ objects \subseteq Stowed
      BY <2>2, RenditionsDiffer
    <3>4. \A a \in Assets : assets[a] <= photo.version
      BY <3>1, <3>2
    <3>5. photo.active # Nothing /\ assets[photo.active] = photo.version /\ photo.version > 0
      BY <3>1, <3>2, RenditionsDiffer
    <3>6. change \in [ChangeIds -> ChangeRow]
      BY <1>2, <1>3
    <3>7. \A r \in ChangeIds : assets[r] = 0
      BY <3>2, RenditionsDiffer
    <3>8. ActiveStored
      BY <3>1, <3>3 DEF ActiveStored
    <3> QED BY <3>1, <3>2, <3>3, <3>4, <3>5, <3>6, <3>7, <3>8 DEF PhotoTyped
  <2> QED BY <2>1, <2>2 DEF PhotoInit
<1>5. \A r \in ChangeIds : ChangeSound(r)
  BY <1>2, <1>3, <1>4 DEF ChangeSound
<1>6. PageFollows
  BY <1>4 DEF PhotoInit, PageFollows
<1> QED BY <1>4, <1>5, <1>6 DEF PhotoInv

\* The other requests are not disturbed by one that records a new asset,
\* writes an asset that is not recorded, or removes others.
LEMMA OthersStaySound ==
  ASSUME PhotoInv, NEW r \in ChangeIds, NEW q \in ChangeIds, q # r,
         change'[q] = change[q], photo'.version \in Nat, photo.version <= photo'.version,
         assets' \in [Assets -> Nat], \A a \in Assets \ {r} : assets'[a] = assets[a],
         assets'[r] = assets[r] \/ (assets[r] = 0 /\ assets'[r] > photo.version),
         \A x \in objects' : x \in objects \/ (x \in Renditions(r) /\ assets[r] = 0),
         change[q].pc = "activate" => Renditions(q) \subseteq objects'
  PROVE  ChangeSound(q)'
<1>1. /\ change[q].version \in Nat /\ photo.version \in Nat /\ q \in Assets /\ r \in Assets
      /\ \A a \in Assets : assets[a] \in Nat /\ assets'[a] \in Nat
      /\ ChangeSound(q)
  BY RenditionsDiffer DEF PhotoInv, PhotoTyped, ChangeRow
<1>2. assets'[q] = assets[q]
  BY <1>1
<1>3. change[q].version <= photo.version => Older(q)' = Older(q)
  <2> SUFFICES ASSUME change[q].version <= photo.version, NEW a \in Assets
               PROVE  (0 < assets'[a] /\ assets'[a] < change[q].version)
                        <=> (0 < assets[a] /\ assets[a] < change[q].version)
    BY DEF Older
  <2> QED BY <1>1
<1>4. \A a \in Older(q) : Renditions(a) \cap objects' \subseteq objects
  BY <1>1, RenditionsDiffer DEF Older
<1>5. change[q].version <= photo.version => change[q].version <= photo'.version
  BY <1>1
<1>6. (change[q].pc = "remove" => 
         /\ change[q].answer = "none" /\ change[q].version <= photo.version
         /\ \A x \in change[q].todo : \E a \in Older(q) : x \in Renditions(a)
         /\ \A a \in Older(q) : Renditions(a) \cap objects \subseteq change[q].todo)'
  BY <1>1, <1>3, <1>4, <1>5 DEF ChangeSound
<1>7. (change[q].answer = "done" =>
         /\ change[q].pc = "answered" /\ change[q].version <= photo.version
         /\ \A a \in Older(q) : Renditions(a) \cap objects = {})'
  BY <1>1, <1>3, <1>4, <1>5 DEF ChangeSound
<1> QED BY <1>1, <1>2, <1>6, <1>7 DEF ChangeSound

\* A request goes on and touches neither the rows nor the storage.
LEMMA ChangeGoesOn ==
  ASSUME PhotoInv, NEW r \in ChangeIds, NEW row \in ChangeRow,
         change' = [change EXCEPT ![r] = row], UNCHANGED <<photo, assets>>,
         \A x \in objects' : x \in objects \/ (x \in Renditions(r) /\ assets[r] = 0),
         objects \subseteq objects', ChangeSound(r)', PageFollows',
         photo.active = r => row.answer = change[r].answer
  PROVE  PhotoInv'
<1>1. /\ change' \in [ChangeIds -> ChangeRow] /\ change'[r] = row
      /\ \A q \in ChangeIds \ {r} : change'[q] = change[q]
  BY DEF PhotoInv, PhotoTyped
<1>2. objects' \subseteq Stowed
  BY RenditionsDiffer DEF PhotoInv, PhotoTyped
<1>3. PhotoTyped'
  BY <1>1, <1>2 DEF PhotoInv, PhotoTyped
<1>4. ActiveStored'
  BY <1>1 DEF PhotoInv, ActiveStored
<1>5. ASSUME NEW q \in ChangeIds, q # r PROVE ChangeSound(q)'
  <2>1. photo'.version \in Nat /\ photo.version <= photo'.version /\ assets' \in [Assets -> Nat]
        /\ (change[q].pc = "activate" => Renditions(q) \subseteq objects')
    BY DEF PhotoInv, PhotoTyped, ChangeSound
  <2> QED BY <1>1, <1>5, <2>1, OthersStaySound
<1> QED BY <1>3, <1>4, <1>5 DEF PhotoInv

\* What a step of a request does to its own row.
LEMMA OwnRow ==
  ASSUME PhotoInv, NEW r \in ChangeIds
  PROVE  /\ change[r] \in ChangeRow /\ ChangeSound(r) /\ r \in Assets /\ photo.version \in Nat
         /\ assets[r] \in Nat /\ Renditions(r) \in SUBSET Stowed
         /\ photo.active = r => assets[r] > 0
BY RenditionsDiffer DEF PhotoInv, PhotoTyped

LEMMA BeginKeeps ==
  ASSUME PhotoInv, NEW r \in ChangeIds, NEW pc \in {"upload", "delete"}, BeginChange(r, pc)
  PROVE  PhotoInv'
<1>1. PICK row : row = [change[r] EXCEPT !.pc = pc]
  OBVIOUS
<1>2. row \in ChangeRow /\ row.pc = pc /\ row.answer = change[r].answer
  BY <1>1, OwnRow DEF ChangeRow, ChangePcs
<1>3. change' = [change EXCEPT ![r] = row] /\ UNCHANGED <<photo, assets, objects>>
  BY <1>1 DEF BeginChange
<1>4. assets[r] = 0 /\ change[r].answer = "none" /\ change'[r] = row
  BY <1>3, OwnRow DEF BeginChange, ChangeAt, ChangeSound, PhotoInv, PhotoTyped
<1>5. ChangeSound(r)'
  BY <1>2, <1>3, <1>4 DEF ChangeSound
<1>6. PageFollows'
  <2>1. ownProfile' = [ownProfile EXCEPT !.busy = r, !.read = {}, !.floor = photo.version]
    BY DEF BeginChange, ReadAfterBegin
  <2>2. photo.version \in Nat
    BY OwnRow
  <2>3. /\ ownProfile' \in [shown : Nat, busy : ChangeIds \cup {Nothing}, read : SUBSET Nat, floor : Nat]
        /\ ownProfile'.floor = photo.version /\ ownProfile'.read = {}
    BY <2>1, <2>2 DEF PhotoInv, PageFollows
  <2> QED BY <1>3, <2>2, <2>3 DEF PageFollows
<1> QED BY <1>2, <1>3, <1>5, <1>6, ChangeGoesOn

LEMMA PageStays ==
  ASSUME PhotoInv, UNCHANGED <<photo, ownProfile>>
  PROVE  PageFollows'
BY DEF PhotoInv, PageFollows

\* The steps before the transactions, and those that fail.
LEMMA EarlyStepKeeps ==
  ASSUME PhotoInv, NEW r \in ChangeIds, ReadNextGeneration(r) \/ PutObjects(r) \/ PutFails(r) \/ ClearFails(r)
  PROVE  PhotoInv'
<1>1. UNCHANGED <<photo, assets, ownProfile>> /\ change[r].pc \in {"upload", "put", "delete"}
  BY DEF ReadNextGeneration, PutObjects, PutFails, ClearFails, ChangeAt
<1>2. /\ assets[r] = 0 /\ change[r].answer = "none" /\ photo.active # r
      /\ change[r] \in ChangeRow /\ photo.version \in Nat
  BY <1>1, OwnRow DEF ChangeSound
<1>3. PICK n : n = photo.version + 1 /\ n \in Nat
  BY <1>2
<1>4. PICK row : /\ \/ row = [change[r] EXCEPT !.pc = "put", !.version = n] /\ objects' = objects
                    \/ row = [change[r] EXCEPT !.pc = "activate"] /\ objects' = objects \cup Renditions(r)
                    \/ /\ row = [change[r] EXCEPT !.pc = "answered", !.answer = "failed"]
                       /\ objects' = objects \/ \E left \in SUBSET Renditions(r) : objects' = objects \cup left
                 /\ change' = [change EXCEPT ![r] = row]
  <2>1. CASE ReadNextGeneration(r)
    BY <1>3, <2>1 DEF ReadNextGeneration
  <2>2. CASE PutObjects(r)
    BY <2>2 DEF PutObjects
  <2>3. CASE PutFails(r)
    BY <2>3 DEF PutFails
  <2>4. CASE ClearFails(r)
    BY <2>4 DEF ClearFails
  <2> QED BY <2>1, <2>2, <2>3, <2>4
<1>5. /\ row \in ChangeRow /\ row.answer \in {"none", "failed"}
      /\ row.pc \in {"put", "activate", "answered"} /\ (row.pc # "answered" => row.answer = "none")
      /\ row.pc = "activate" => Renditions(r) \subseteq objects'
  <2>1. CASE row = [change[r] EXCEPT !.pc = "put", !.version = n]
    BY <1>2, <1>3, <2>1 DEF ChangeRow, ChangePcs
  <2>2. CASE row = [change[r] EXCEPT !.pc = "activate"] /\ objects' = objects \cup Renditions(r)
    BY <1>2, <2>2 DEF ChangeRow, ChangePcs
  <2>3. CASE row = [change[r] EXCEPT !.pc = "answered", !.answer = "failed"]
    BY <1>2, <2>3 DEF ChangeRow, ChangePcs
  <2> QED BY <1>4, <2>1, <2>2, <2>3
<1>6. objects \subseteq objects' /\ \A x \in objects' : x \in objects \/ x \in Renditions(r)
  BY <1>4
<1>7. change'[r] = row
  BY <1>4, <1>5 DEF PhotoInv, PhotoTyped
<1>8. ChangeSound(r)'
  BY <1>1, <1>2, <1>5, <1>7 DEF ChangeSound
<1>9. UNCHANGED <<photo, assets>> /\ PageFollows'
  BY <1>1, PageStays
<1> QED BY <1>2, <1>4, <1>5, <1>6, <1>8, <1>9, ChangeGoesOn

LEMMA ActivateFailsKeeps ==
  ASSUME PhotoInv, NEW r \in ChangeIds, ActivateFails(r)
  PROVE  PhotoInv'
<1>1. PICK row : row = [change[r] EXCEPT !.pc = "undo", !.todo = Renditions(r)]
  OBVIOUS
<1>2. /\ change[r] \in ChangeRow /\ assets[r] = 0 /\ change[r].answer = "none" /\ photo.active # r
      /\ Renditions(r) \in SUBSET Stowed
  BY OwnRow DEF ActivateFails, ChangeAt, ChangeSound
<1>3. /\ row \in ChangeRow /\ row.pc = "undo" /\ row.todo = Renditions(r) /\ row.answer = "none"
  BY <1>1, <1>2 DEF ChangeRow, ChangePcs
<1>4. change' = [change EXCEPT ![r] = row] /\ UNCHANGED <<photo, assets, objects, ownProfile>>
  BY <1>1 DEF ActivateFails
<1>5. change'[r] = row
  BY <1>4, <1>3 DEF PhotoInv, PhotoTyped
<1>6. ChangeSound(r)'
  BY <1>2, <1>3, <1>4, <1>5 DEF ChangeSound
<1> QED BY <1>2, <1>3, <1>4, <1>6, PageStays, ChangeGoesOn

\* What a transaction leaves to remove.
LEMMA ToRemoveIs ==
  ASSUME NEW recorded \in SUBSET Assets, NEW kept
  PROVE  /\ ToRemove(recorded, kept) \in SUBSET Stowed
         /\ \A x \in ToRemove(recorded, kept) : \E a \in recorded \ {kept} : x \in Renditions(a)
         /\ \A a \in recorded \ {kept} : Renditions(a) \subseteq ToRemove(recorded, kept)
BY RenditionsDiffer DEF ToRemove

\* The pointer goes on to a new version.
LEMMA PageAfterCommit ==
  ASSUME PhotoInv, ownProfile' = ownProfile, photo'.version \in Nat, photo.version <= photo'.version
  PROVE  PageFollows'
<1>1. ownProfile.floor \in Nat /\ photo.version \in Nat /\ ownProfile.floor <= photo.version
  BY DEF PhotoInv, PhotoTyped, PageFollows
<1> QED BY <1>1 DEF PhotoInv, PageFollows

LEMMA ActivateKeeps ==
  ASSUME PhotoInv, NEW r \in ChangeIds, Activate(r)
  PROVE  PhotoInv'
<1>1. PICK v : v = change[r].version /\ v = photo.version + 1 /\ v \in Nat
  BY OwnRow DEF Activate, ChangeRow
<1>2. /\ change[r] \in ChangeRow /\ assets[r] = 0 /\ change[r].answer = "none"
      /\ Renditions(r) \subseteq objects /\ r \in Assets /\ Renditions(r) \in SUBSET Stowed
      /\ photo.version \in Nat /\ r # Nothing
  BY OwnRow, RenditionsDiffer DEF Activate, ChangeAt, ChangeSound
<1>3. /\ photo' = [version |-> v, active |-> r] /\ assets' = [assets EXCEPT ![r] = v]
      /\ UNCHANGED <<objects, ownProfile>>
  BY <1>1 DEF Activate
<1>4. photo'.version = v /\ photo'.active = r /\ photo' \in [version : Nat, active : Assets \cup {Nothing}]
  BY <1>1, <1>2, <1>3
<1>5. /\ assets' \in [Assets -> Nat] /\ assets'[r] = v
      /\ \A a \in Assets \ {r} : assets'[a] = assets[a] /\ assets[a] \in Nat /\ assets[a] < v
  BY <1>1, <1>2, <1>3 DEF PhotoInv, PhotoTyped
<1>6. PICK todo : todo = ToRemove(RecordedAssets \cup {r}, r)
  OBVIOUS
<1>7. /\ todo \in SUBSET Stowed
      /\ \A x \in todo : \E a \in RecordedAssets \ {r} : x \in Renditions(a)
      /\ \A a \in RecordedAssets \ {r} : Renditions(a) \subseteq todo
  <2>1. RecordedAssets \cup {r} \in SUBSET Assets
    BY <1>2 DEF RecordedAssets
  <2> QED BY <1>6, <2>1, ToRemoveIs
<1>8. PICK row : /\ \/ row = [change[r] EXCEPT !.pc = "remove", !.todo = todo]
                    \/ row = [change[r] EXCEPT !.pc = "undo", !.todo = Renditions(r), !.answer = "unheard"]
                 /\ change' = [change EXCEPT ![r] = row]
  <2>1. PICK kept : kept = [change[r] EXCEPT !.pc = "remove", !.todo = todo]
    OBVIOUS
  <2>2. PICK unsure : unsure = [change[r] EXCEPT !.pc = "undo", !.todo = Renditions(r), !.answer = "unheard"]
    OBVIOUS
  <2>3. change' = [change EXCEPT ![r] = kept] \/ change' = [change EXCEPT ![r] = unsure]
    BY <1>6, <2>1, <2>2 DEF Activate
  <2> QED BY <2>1, <2>2, <2>3
<1>9. /\ row \in ChangeRow /\ row.version = v
      /\ \/ row.pc = "remove" /\ row.todo = todo /\ row.answer = "none"
         \/ row.pc = "undo" /\ row.todo = Renditions(r) /\ row.answer = "unheard"
  <2>1. CASE row = [change[r] EXCEPT !.pc = "remove", !.todo = todo]
    BY <1>1, <1>2, <1>7, <2>1 DEF ChangeRow, ChangePcs
  <2>2. CASE row = [change[r] EXCEPT !.pc = "undo", !.todo = Renditions(r), !.answer = "unheard"]
    BY <1>1, <1>2, <2>2 DEF ChangeRow, ChangePcs
  <2> QED BY <1>8, <2>1, <2>2
<1>10. /\ change' \in [ChangeIds -> ChangeRow] /\ change'[r] = row
       /\ \A q \in ChangeIds \ {r} : change'[q] = change[q]
  BY <1>8, <1>9 DEF PhotoInv, PhotoTyped
<1>11. PhotoTyped'
  <2>1. \A a \in Assets : assets'[a] <= v
    BY <1>1, <1>5
  <2>2. v > 0
    BY <1>1, <1>2
  <2>3. objects' \subseteq Stowed
    BY <1>3 DEF PhotoInv, PhotoTyped
  <2> QED BY <1>2, <1>4, <1>5, <1>10, <2>1, <2>2, <2>3 DEF PhotoTyped
<1>12. ActiveStored'
  BY <1>2, <1>3, <1>4 DEF ActiveStored
<1>13. Older(r)' = RecordedAssets \ {r}
  BY <1>1, <1>5, <1>9, <1>10 DEF Older, RecordedAssets
<1>14. ChangeSound(r)'
  <2>1. v <= photo'.version
    BY <1>1, <1>4
  <2> QED BY <1>7, <1>9, <1>10, <1>13, <2>1 DEF ChangeSound
<1>15. ASSUME NEW q \in ChangeIds, q # r PROVE ChangeSound(q)'
  <2>1. /\ photo'.version \in Nat /\ photo.version <= photo'.version
        /\ assets[r] = 0 /\ assets'[r] > photo.version
    BY <1>1, <1>2, <1>4, <1>5
  <2>2. change[q].pc = "activate" => Renditions(q) \subseteq objects'
    BY <1>3 DEF PhotoInv, ChangeSound
  <2> QED BY <1>3, <1>5, <1>10, <1>15, <2>1, <2>2, OthersStaySound
<1>16. PageFollows'
  BY <1>1, <1>2, <1>3, <1>4, PageAfterCommit
<1> QED BY <1>11, <1>12, <1>14, <1>15, <1>16 DEF PhotoInv

LEMMA ClearKeeps ==
  ASSUME PhotoInv, NEW r \in ChangeIds, Clear(r)
  PROVE  PhotoInv'
<1>1. /\ change[r] \in ChangeRow /\ assets[r] = 0 /\ change[r].answer = "none"
      /\ r \in Assets /\ photo.version \in Nat /\ photo \in [version : Nat, active : Assets \cup {Nothing}]
  BY OwnRow DEF Clear, ChangeAt, ChangeSound, PhotoInv, PhotoTyped
<1>2. UNCHANGED <<assets, objects, ownProfile>> /\ photo' = Cleared
  BY DEF Clear
<1>3. /\ photo' \in [version : Nat, active : Assets \cup {Nothing}] /\ photo'.active = Nothing
      /\ photo.version <= photo'.version
      /\ \/ photo'.version = photo.version + 1
         \/ photo'.version = photo.version /\ photo.active = Nothing
  <2>1. PICK n : n = photo.version + 1 /\ n \in Nat
    BY <1>1
  <2>2. \/ photo' = [version |-> n, active |-> Nothing]
        \/ photo' = photo /\ photo.active = Nothing
    BY <1>2, <2>1 DEF Cleared
  <2> QED BY <1>1, <2>1, <2>2
<1>4. PICK v : v = photo'.version /\ v \in Nat
  BY <1>3
<1>5. \A a \in Assets : assets[a] \in Nat /\ (assets[a] > 0 => assets[a] < v) /\ assets[a] <= v
  BY <1>1, <1>3, <1>4 DEF PhotoInv, PhotoTyped
<1>6. PICK todo : todo = ToRemove(RecordedAssets, Nothing)
  OBVIOUS
<1>7. /\ todo \in SUBSET Stowed
      /\ \A x \in todo : \E a \in RecordedAssets : x \in Renditions(a)
      /\ \A a \in RecordedAssets : Renditions(a) \subseteq todo
  <2>1. RecordedAssets \in SUBSET Assets /\ Nothing \notin RecordedAssets
    BY RenditionsDiffer DEF RecordedAssets
  <2> QED BY <1>6, <2>1, ToRemoveIs
<1>8. PICK row : /\ \/ row = [change[r] EXCEPT !.pc = "remove", !.version = v, !.todo = todo]
                    \/ row = [change[r] EXCEPT !.pc = "answered", !.answer = "failed"]
                 /\ change' = [change EXCEPT ![r] = row]
  <2>1. PICK kept : kept = [change[r] EXCEPT !.pc = "remove", !.version = v, !.todo = todo]
    OBVIOUS
  <2>2. PICK failed : failed = [change[r] EXCEPT !.pc = "answered", !.answer = "failed"]
    OBVIOUS
  <2>3. change' = [change EXCEPT ![r] = kept] \/ change' = [change EXCEPT ![r] = failed]
    BY <1>2, <1>4, <1>6, <2>1, <2>2 DEF Clear
  <2> QED BY <2>1, <2>2, <2>3
<1>9. /\ row \in ChangeRow
      /\ \/ row.pc = "remove" /\ row.todo = todo /\ row.answer = "none" /\ row.version = v
         \/ row.pc = "answered" /\ row.answer = "failed"
  <2>1. CASE row = [change[r] EXCEPT !.pc = "remove", !.version = v, !.todo = todo]
    BY <1>1, <1>4, <1>7, <2>1 DEF ChangeRow, ChangePcs
  <2>2. CASE row = [change[r] EXCEPT !.pc = "answered", !.answer = "failed"]
    BY <1>1, <2>2 DEF ChangeRow, ChangePcs
  <2> QED BY <1>8, <2>1, <2>2
<1>10. /\ change' \in [ChangeIds -> ChangeRow] /\ change'[r] = row
       /\ \A q \in ChangeIds \ {r} : change'[q] = change[q]
  BY <1>8, <1>9 DEF PhotoInv, PhotoTyped
<1>11. PhotoTyped'
  BY <1>2, <1>3, <1>4, <1>5, <1>10 DEF PhotoInv, PhotoTyped
<1>12. ActiveStored'
  BY <1>3 DEF ActiveStored
<1>13. ChangeSound(r)'
  <2>1. CASE row.pc = "remove" /\ row.todo = todo /\ row.answer = "none" /\ row.version = v
    <3>1. Older(r)' = RecordedAssets
      BY <1>2, <1>5, <1>10, <2>1 DEF Older, RecordedAssets
    <3>2. v <= photo'.version
      BY <1>4
    <3> QED BY <1>7, <1>10, <2>1, <3>1, <3>2 DEF ChangeSound
  <2>2. CASE row.pc = "answered" /\ row.answer = "failed"
    BY <1>10, <2>2 DEF ChangeSound
  <2> QED BY <1>9, <2>1, <2>2
<1>14. ASSUME NEW q \in ChangeIds, q # r PROVE ChangeSound(q)'
  <2>1. photo'.version \in Nat /\ photo.version <= photo'.version /\ assets' \in [Assets -> Nat]
    BY <1>2, <1>3 DEF PhotoInv, PhotoTyped
  <2>2. change[q].pc = "activate" => Renditions(q) \subseteq objects'
    BY <1>2 DEF PhotoInv, ChangeSound
  <2> QED BY <1>2, <1>10, <1>14, <2>1, <2>2, OthersStaySound
<1>15. PageFollows'
  BY <1>2, <1>3, <1>4, PageAfterCommit
<1> QED BY <1>11, <1>12, <1>13, <1>14, <1>15 DEF PhotoInv

LEMMA RemoveKeeps ==
  ASSUME PhotoInv, NEW r \in ChangeIds, NEW gone \in SUBSET change[r].todo, NEW allGone \in BOOLEAN,
         RemoveObjects(r, gone, allGone)
  PROVE  PhotoInv'
<1>1. /\ UNCHANGED <<photo, assets, ownProfile>> /\ objects' = objects \ gone
      /\ change[r].pc \in {"remove", "undo"}
  BY DEF RemoveObjects
<1>2. /\ change[r] \in ChangeRow /\ ChangeSound(r) /\ r \in Assets /\ photo.version \in Nat
  BY OwnRow
<1>3. PICK answer : /\ change' = [change EXCEPT ![r] = [change[r] EXCEPT !.pc = "answered", !.todo = {},
                                                                     !.answer = answer]]
                    /\ answer = IF change[r].answer # "none" THEN change[r].answer
                                ELSE IF ChangeAt(r, "remove") /\ allGone THEN "done" ELSE "failed"
  BY DEF RemoveObjects
<1>4. /\ change[r].answer = "unheard" => answer = "unheard"
      /\ answer \in {"unheard", "failed", "done"}
      /\ answer = "done" => change[r].pc = "remove" /\ gone = change[r].todo \cap objects
  <2>1. change[r].answer \in {"none", "unheard"}
    BY <1>1, <1>2 DEF ChangeSound
  <2>2. answer = "done" => change[r].pc = "remove" /\ allGone
    BY <1>3, <2>1 DEF ChangeAt
  <2>3. allGone => gone = change[r].todo \cap objects
    BY DEF RemoveObjects
  <2> QED BY <1>3, <2>1, <2>2, <2>3
<1>5. PICK row : row = [change[r] EXCEPT !.pc = "answered", !.todo = {}, !.answer = answer]
  OBVIOUS
<1>6. /\ row \in ChangeRow /\ row.pc = "answered" /\ row.answer = answer /\ row.version = change[r].version
  BY <1>2, <1>4, <1>5 DEF ChangeRow, ChangePcs
<1>7. /\ change' \in [ChangeIds -> ChangeRow] /\ change'[r] = row
      /\ \A q \in ChangeIds \ {r} : change'[q] = change[q]
  BY <1>3, <1>5, <1>6 DEF PhotoInv, PhotoTyped
<1>8. PhotoTyped'
  BY <1>1, <1>7 DEF PhotoInv, PhotoTyped
\* What is removed is of an older asset, or of the request's own.
<1>9. \A b \in Assets \ {r} :
        ~(assets[b] > 0) \/ assets[b] >= photo.version => Renditions(b) \cap gone = {}
  <2> SUFFICES ASSUME NEW b \in Assets, b # r, ~(assets[b] > 0) \/ assets[b] >= photo.version
               PROVE  Renditions(b) \cap gone = {}
    OBVIOUS
  <2>1. CASE change[r].pc = "undo"
    BY <1>2, <2>1, RenditionsDiffer DEF ChangeSound
  <2>2. CASE change[r].pc = "remove"
    <3>1. b \notin Older(r)
      BY <1>2, <2>2 DEF ChangeSound, Older, PhotoInv, PhotoTyped, ChangeRow
    <3>2. \A x \in gone : \E a \in Older(r) : x \in Renditions(a)
      BY <1>2, <2>2 DEF ChangeSound
    <3> QED BY <3>1, <3>2, RenditionsDiffer
  <2> QED BY <1>1, <2>1, <2>2
<1>10. ActiveStored'
  <2> SUFFICES ASSUME photo.active # Nothing
               PROVE  \/ Renditions(photo.active) \subseteq objects'
                      \/ photo.active \in ChangeIds /\ change'[photo.active].answer = "unheard"
    BY <1>1 DEF ActiveStored
  <2>1. photo.active \in Assets /\ assets[photo.active] = photo.version /\ photo.version > 0
    BY DEF PhotoInv, PhotoTyped
  <2>2. CASE photo.active \in ChangeIds /\ change[photo.active].answer = "unheard"
    BY <1>4, <1>6, <1>7, <2>2
  <2>3. CASE Renditions(photo.active) \subseteq objects /\ photo.active # r
    <3>1. Renditions(photo.active) \cap gone = {}
      BY <1>2, <1>9, <2>1, <2>3
    <3> QED BY <1>1, <2>3, <3>1
  <2>4. CASE Renditions(photo.active) \subseteq objects /\ photo.active = r
    <3>1. CASE change[r].pc = "undo"
      <4>1. change[r].answer = "unheard"
        BY <1>2, <2>1, <2>4, <3>1 DEF ChangeSound
      <4> QED BY <1>4, <1>6, <1>7, <2>4, <4>1
    <3>2. CASE change[r].pc = "remove"
      <4>1. r \notin Older(r)
        BY <1>2, <2>1, <2>4, <3>2 DEF ChangeSound, Older, ChangeRow
      <4>2. \A x \in gone : \E a \in Older(r) : x \in Renditions(a)
        BY <1>2, <3>2 DEF ChangeSound
      <4>3. Renditions(r) \cap gone = {}
        BY <4>1, <4>2, RenditionsDiffer
      <4> QED BY <1>1, <2>4, <4>3
    <3> QED BY <1>1, <3>1, <3>2
  <2> QED BY <2>2, <2>3, <2>4 DEF PhotoInv, ActiveStored
<1>11. ChangeSound(r)'
  <2>1. CASE answer = "done"
    <3>1. change[r].pc = "remove" /\ gone = change[r].todo \cap objects
      BY <1>4, <2>1
    <3>2. Older(r)' = Older(r)
      BY <1>1, <1>6, <1>7 DEF Older
    <3>3. \A a \in Older(r) : Renditions(a) \cap objects' = {}
      BY <1>1, <1>2, <3>1 DEF ChangeSound
    <3>4. change[r].version <= photo.version
      BY <1>2, <3>1 DEF ChangeSound
    <3> QED BY <1>1, <1>6, <1>7, <2>1, <3>2, <3>3, <3>4 DEF ChangeSound
  <2>2. CASE answer # "done"
    BY <1>6, <1>7, <2>2 DEF ChangeSound
  <2> QED BY <2>1, <2>2
<1>12. ASSUME NEW q \in ChangeIds, q # r PROVE ChangeSound(q)'
  <2>1. photo'.version \in Nat /\ photo.version <= photo'.version /\ assets' \in [Assets -> Nat]
    BY <1>1, <1>2 DEF PhotoInv, PhotoTyped
  <2>2. change[q].pc = "activate" => Renditions(q) \subseteq objects'
    <3> SUFFICES ASSUME change[q].pc = "activate" PROVE Renditions(q) \subseteq objects'
      OBVIOUS
    <3>1. assets[q] = 0 /\ Renditions(q) \subseteq objects /\ q \in Assets
      BY RenditionsDiffer DEF PhotoInv, ChangeSound
    <3>2. Renditions(q) \cap gone = {}
      BY <1>9, <1>12, <3>1
    <3> QED BY <1>1, <3>1, <3>2
  <2>3. \A x \in objects' : x \in objects
    BY <1>1
  <2> QED BY <1>1, <1>7, <1>12, <2>1, <2>2, <2>3, OthersStaySound
<1>13. PageFollows'
  BY <1>1, PageStays
<1> QED BY <1>8, <1>10, <1>11, <1>12, <1>13 DEF PhotoInv

\* The page hears and gives up.
LEMMA PageKeeps ==
  ASSUME PhotoInv, ReceiveChange \/ GiveUpChange \/ ServeProfile \/ ReceiveProfile
  PROVE  PhotoInv'
<1>1. UNCHANGED <<photo, assets, objects, change>>
  BY DEF ReceiveChange, GiveUpChange, ServeProfile, ReceiveProfile
<1>2. /\ photo.version \in Nat /\ ownProfile.floor \in Nat /\ ownProfile.floor <= photo.version
      /\ ownProfile \in [shown : Nat, busy : ChangeIds \cup {Nothing}, read : SUBSET Nat, floor : Nat]
  BY DEF PhotoInv, PhotoTyped, PageFollows
<1>3. PageFollows'
  <2>1. CASE ReceiveChange
    <3>1. PICK shown : /\ shown = IF change[ownProfile.busy].answer = "done"
                                  THEN change[ownProfile.busy].version ELSE ownProfile.shown
                       /\ ownProfile' = [ownProfile EXCEPT !.busy = Nothing, !.shown = shown]
      BY <2>1 DEF ReceiveChange
    <3>2. shown \in Nat
      BY <1>2, <2>1, <3>1 DEF ReceiveChange, PhotoInv, PhotoTyped, ChangeRow
    <3> QED BY <1>1, <1>2, <3>1, <3>2 DEF PhotoInv, PageFollows
  <2>2. CASE GiveUpChange
    BY <1>1, <1>2, <2>2 DEF GiveUpChange, PhotoInv, PageFollows
  <2>3. CASE ServeProfile
    <3>1. PICK read : read = {photo.version}
      OBVIOUS
    <3>2. ownProfile' = [ownProfile EXCEPT !.read = read] /\ read \in SUBSET Nat
      BY <1>2, <2>3, <3>1 DEF ServeProfile
    <3> QED BY <1>1, <1>2, <3>1, <3>2 DEF PhotoInv, PageFollows
  <2>4. CASE ReceiveProfile
    <3>1. PICK version \in ownProfile.read : ownProfile' = [ownProfile EXCEPT !.read = {}, !.shown = version]
      BY <2>4 DEF ReceiveProfile
    <3>2. version \in Nat
      BY <1>2, <3>1
    <3> QED BY <1>1, <1>2, <3>1, <3>2 DEF PhotoInv, PageFollows
  <2> QED BY <2>1, <2>2, <2>3, <2>4
<1> QED BY <1>1, <1>3 DEF PhotoInv, PhotoTyped, ActiveStored, ChangeSound, Older

LEMMA PhotoStep ==
  PhotoInv /\ [PhotoNext]_photoVars => PhotoInv'
<1> SUFFICES ASSUME PhotoInv, [PhotoNext]_photoVars PROVE PhotoInv'
  OBVIOUS
<1>1. CASE UNCHANGED photoVars
  BY <1>1 DEF photoVars, PhotoInv, PhotoTyped, ActiveStored, PageFollows, ChangeSound, Older
<1> QED BY <1>1, BeginKeeps, EarlyStepKeeps, ActivateFailsKeeps, ActivateKeeps, ClearKeeps, RemoveKeeps,
           PageKeeps DEF PhotoNext

\* The active photo is the asset of its version and is stored, a confirmed change
\* left nothing older, and a page that changes it never falls back.
THEOREM PhotoIsAlwaysTrue == PhotoSpec => []PhotoIsTrue
<1>1. PhotoInv => PhotoIsTrue
  <2> SUFFICES ASSUME PhotoInv PROVE PhotoIsTrue
    OBVIOUS
  <2>1. ASSUME NEW r \in ChangeIds, NEW a \in RecordedAssets,
               change[r].answer = "done" /\ assets[a] < change[r].version
        PROVE  Renditions(a) \cap objects = {}
    <3>1. a \in Older(r)
      BY <2>1 DEF Older, RecordedAssets, PhotoInv, PhotoTyped
    <3> QED BY <2>1, <3>1 DEF PhotoInv, ChangeSound
  <2> QED BY <2>1 DEF PhotoInv, PhotoTyped, ActiveStored, PageFollows, PhotoIsTrue
<1> QED BY <1>1, PhotoInitInv, PhotoStep, PTL DEF PhotoSpec

\* PhotoTypeOK, of every number of changes.
THEOREM PhotoIsTyped == PhotoSpec => []PhotoTypeOK
<1>1. PhotoInv => PhotoTypeOK
  BY DEF PhotoInv, PhotoTyped, PageFollows, ChangeRow, Stowed, PhotoTypeOK
<1> QED BY <1>1, PhotoInitInv, PhotoStep, PTL DEF PhotoSpec

-----------------------------------------------------------------------------
(* The five of them.                                                       *)

\* What a player reads, of free times, a match, a chat, his notifications or
\* his photo, is what the server keeps, and what he was told he did, he did.
THEOREM FeedsAreAlwaysTrue ==
  ChatSpec /\ NotesSpec /\ PhotoSpec /\ AvailabilitySpec /\ CreationSpec => []FeedsAreTrue
<1>1. ChatIsTrue /\ NotesAreTrue /\ PhotoIsTrue /\ AvailabilityIsTrue /\ CreationIsTrue <=> FeedsAreTrue
  BY DEF FeedsAreTrue
<1> QED BY <1>1, ChatIsAlwaysTrue, NotesAreAlwaysTrue, PhotoIsAlwaysTrue, AvailabilityIsAlwaysTrue,
           CreationIsAlwaysTrue, PTL
=============================================================================
