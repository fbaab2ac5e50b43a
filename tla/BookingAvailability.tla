-------------------------- MODULE BookingAvailability --------------------------
(* The booking page: it loads services, then courts, then free dates and free *)
(* times, one read at a time, while the player changes the date or the court, *)
(* pulls to refresh and taps half-hours (src/components/BookingScreen.jsx,    *)
(* src/lib/privateBookingSlotSelection.js).  What comes after the choice is   *)
(* switched off in this build: PAYMENT_PROVIDER_READY is false.               *)
EXTENDS Integers

CONSTANTS PageCourts,    \* ids of the courts, positive
          PageDates,     \* the dates of the strip
          Durations,     \* the rental services, by their length in half-hours
          LastTile,      \* a day has the half-hours 0..LastTile
          BusyDays,      \* what may be taken on the days of a court at first
          MaxChoices,    \* bound: changes of date or court, and refreshes
          MaxOthers      \* bound: bookings and cancellations of others

ASSUME AvailabilityAssumption ==
  /\ PageCourts \subseteq Nat \ {0} /\ PageCourts # {}
  /\ Durations \subseteq Nat \ {0} /\ Durations # {}
  /\ LastTile \in Nat /\ "today" \in PageDates
  /\ BusyDays \subseteq SUBSET (0..LastTile)

AnyCourt == 0
MinSlots == 2
MaxSlots == 4
NoRange == [start |-> 0, count |-> 0, court |-> AnyCourt]
NoTask == [kind |-> "none"]
FirstDate == "today"   \* the first of the strip

VARIABLES screen,     \* the state and the refs of the component
          reads,    \* the scheduler of reads: the one that runs, those that wait
          busy,     \* external: the half-hours taken, by court and date
          budget    \* what is left of the bounds

screenVars == <<screen, reads, busy, budget>>

Tiles == 0..LastTile
Slot == [start : Tiles, len : Durations, court : PageCourts, date : PageDates]
Phases == {"idle", "loading", "ready", "error"}

\* The reads of a run, one per service and court; service by service.
Pairs(courts) == Durations \X courts
NextPair(left) ==
  CHOOSE a \in left : \A b \in left : a[1] < b[1] \/ (a[1] = b[1] /\ a[2] <= b[2])
Task(kind, courts, date, left) ==
  [kind |-> kind, courts |-> courts, date |-> date, left |-> left,
   got |-> {}, current |-> TRUE]

\* Where a read of one service on one court finds room on a date.
Starts(len, court, date) ==
  {s \in Tiles : s + len - 1 \in Tiles
                 /\ (s..(s + len - 1)) \cap busy[court][date] = {}}

-------------------------------------------------------------------------------
(* The scheduler.                                                             *)

\* A foreground read goes before a background one; one read runs at a time.
Pumped(r) ==
  IF r.running # NoTask \/ r.waiting = {} THEN r
  ELSE LET urgent == {t \in r.waiting : t.kind # "dates"}
           next == CHOOSE t \in r.waiting : urgent = {} \/ t \in urgent
       IN [running |-> next, waiting |-> r.waiting \ {next}]

\* The cleanup of effects: their reads are no longer current; one that waits
\* is settled as cancelled, one that runs goes on, and is not listened to.
Cancelled(r, kinds) ==
  [waiting |-> {t \in r.waiting : t.kind \notin kinds},
   running |-> IF r.running.kind \in kinds THEN [r.running EXCEPT !.current = FALSE]
               ELSE r.running]
Pending(r, kind) ==
  \E t \in r.waiting \cup {r.running} : t.kind = kind /\ t.current
Enqueued(r, tasks) == [r EXCEPT !.waiting = @ \cup tasks]

\* mutant of Accepted: what a replaced effect had asked for is taken too
AcceptedLate(task) == task.kind # "none"

\* if (!active) return: a result is taken only by the effect that asked for it.
Accepted(task) == task.current

-------------------------------------------------------------------------------
(* What the page shows.                                                       *)

QueryCourts(p) ==
  IF p.courts # "ready" THEN {}
  ELSE IF p.court = AnyCourt THEN PageCourts ELSE {p.court}

DatesAreCurrent(p) == p.dates.courts = QueryCourts(p)
TimesAreCurrent(p) == p.times.courts = QueryCourts(p) /\ p.times.date = p.date

\* backendTimeSlots
Options(p) ==
  LET dateless == DatesAreCurrent(p)
                 /\ \/ p.dates.status = "error"
                    \/ p.dates.status = "ready" /\ p.date \notin p.dates.found
  IN IF TimesAreCurrent(p) /\ ~dateless THEN p.times.found ELSE {}

\* availabilityPhase
Phase(p) ==
  LET failed == \/ "error" \in {p.services, p.courts}
                \/ p.dates.status = "error" /\ DatesAreCurrent(p)
                \/ p.times.status = "error" /\ TimesAreCurrent(p)
      ready == /\ p.services = "ready" /\ p.courts = "ready"
               /\ p.dates.status = "ready" /\ DatesAreCurrent(p)
               /\ p.times.status = "ready" /\ TimesAreCurrent(p)
  IN CASE failed -> "error"
       [] ~failed /\ ready -> IF p.dates.found = {} THEN "empty" ELSE "success"
       [] OTHER -> "loading"

-------------------------------------------------------------------------------
(* The choice of half-hours.                                                  *)

Covering(options, range) ==
  {o \in options : o.start = range.start /\ o.len >= range.count}
FirstOffer(options, range) ==
  CHOOSE o \in Covering(options, range) :
    \A q \in Covering(options, range) :
      o.len < q.len \/ (o.len = q.len /\ o.court <= q.court)

\* mutant of CourtFor: the court of the first half-hour is kept
CourtForKept(options, range) ==
  IF range.court # AnyCourt THEN range.court ELSE FirstOffer(options, range).court

\* findPrivateBookingRangeOption: the preferred court if it can, else the first.
CourtFor(options, range) ==
  IF \E o \in Covering(options, range) : o.court = range.court
  THEN range.court ELSE FirstOffer(options, range).court

\* The choice is offered as a whole, on one court.
Fits(options, range) == Covering(options, range) # {}

TilesOf(range) == range.start..(range.start + range.count - 1)

\* The range that a tap asks for, before the look at what is offered; the same
\* range where the tap is refused (a gap, or the maximum).
Asked(range, tile) ==
  LET end == range.start + range.count IN
  CASE range.count = 0 -> [start |-> tile, count |-> 1, court |-> AnyCourt]
    [] range.count = 1 /\ tile = range.start -> NoRange
    [] range.count > 1 /\ tile = range.start ->
         [range EXCEPT !.start = @ + 1, !.count = @ - 1]
    [] range.count > 1 /\ tile = end - 1 -> [range EXCEPT !.count = @ - 1]
    [] range.count \in 1..(MaxSlots - 1) /\ tile = range.start - 1 ->
         [range EXCEPT !.start = tile, !.count = @ + 1]
    [] range.count \in 1..(MaxSlots - 1) /\ tile = end ->
         [range EXCEPT !.count = @ + 1]
    [] OTHER -> range

\* updatePrivateBookingRange: a new range needs room for the minimum.
Updated(options, range, tile) ==
  LET asked == Asked(range, tile)
      needed == IF range.count = 0 THEN [asked EXCEPT !.count = MinSlots] ELSE asked
  IN IF asked \in {range, NoRange} THEN asked
     ELSE IF Fits(options, needed)
          THEN [asked EXCEPT !.court = CourtFor(options, needed)]
     ELSE range

\* The effect that keeps the range among the options, once times are ready.
Revalidated(p) ==
  IF p.range = NoRange \/ p.times.status # "ready" THEN p
  ELSE IF ~Fits(Options(p), p.range) THEN [p EXCEPT !.range = NoRange]
  ELSE [p EXCEPT !.range.court = CourtFor(Options(p), p.range)]

-------------------------------------------------------------------------------
(* The effects that load.                                                     *)

NotLoaded == [status |-> "idle", courts |-> {}, date |-> FirstDate, found |-> {}]
Blank == [NotLoaded EXCEPT !.status = "loading"]

\* mutant of ForgetKey: a refresh keeps the key of the last dates
ForgetKeyNot(p) == p.asked

\* datesRequestKeyRef.current = ''
ForgetKey(p) == {}

\* loadServices
Reloaded(p) ==
  [p EXCEPT !.services = "loading", !.courts = "idle", !.dates = NotLoaded,
            !.times = NotLoaded, !.asked = ForgetKey(p), !.range = NoRange]
ServicesTask == Task("services", {}, FirstDate, {<<0, AnyCourt>>})

\* The dates effect runs again: a run that was not settled forgets its key, and
\* what was asked for already is not asked for again.
Forgotten(p, r) == [p EXCEPT !.asked = IF Pending(r, "dates") THEN {} ELSE @]
AsksDates(p) == QueryCourts(p) # {} /\ p.asked # QueryCourts(p)
WithDates(p) ==
  IF AsksDates(p)
  THEN [p EXCEPT !.asked = QueryCourts(p), !.dates = [Blank EXCEPT !.courts = QueryCourts(p)]]
  ELSE p
\* The times effect has no such memory.
WithTimes(p) ==
  IF QueryCourts(p) # {}
  THEN [p EXCEPT !.times = [Blank EXCEPT !.courts = QueryCourts(p), !.date = p.date]]
  ELSE p
DatesTasks(p) ==
  IF AsksDates(p)
  THEN {Task("dates", QueryCourts(p), FirstDate, Pairs(QueryCourts(p)))} ELSE {}
TimesTasks(p) ==
  IF QueryCourts(p) # {}
  THEN {Task("times", QueryCourts(p), p.date, Pairs(QueryCourts(p)))} ELSE {}

\* Both effects run, of dates and of times, on a new query.
Requeried(p, r) ==
  LET cleaned == Forgotten(p, r) IN
  /\ screen' = Revalidated(WithTimes(WithDates(cleaned)))
  /\ reads' = Pumped(Enqueued(Cancelled(r, {"dates", "times"}),
                              DatesTasks(cleaned) \cup TimesTasks(cleaned)))

AvailabilityInit ==
  /\ busy \in [PageCourts -> [PageDates -> BusyDays]]
  /\ screen = [services |-> "loading", courts |-> "idle", dates |-> NotLoaded,
             times |-> NotLoaded, asked |-> {}, date |-> FirstDate,
             court |-> AnyCourt, catalogued |-> FALSE, range |-> NoRange]
  /\ reads = [running |-> ServicesTask, waiting |-> {}]
  /\ budget = [choices |-> MaxChoices, others |-> MaxOthers]

Choose == budget.choices > 0 /\ budget' = [budget EXCEPT !.choices = @ - 1]

\* loadServices, by a pull.
Refresh ==
  /\ Choose
  /\ screen' = Reloaded(Forgotten(screen, reads))
  /\ reads' = Pumped(Enqueued(Cancelled(reads, {"services", "courts", "dates", "times"}),
                              {ServicesTask}))
  /\ UNCHANGED busy

SelectDate(d) ==
  /\ Choose
  /\ ~(screen.dates.status = "ready" /\ DatesAreCurrent(screen) /\ d \notin screen.dates.found)
  /\ LET p == [screen EXCEPT !.date = d, !.range = NoRange] IN
     IF d = screen.date THEN screen' = p /\ UNCHANGED reads
     ELSE /\ screen' = WithTimes(p)
          /\ reads' = Pumped(Enqueued(Cancelled(reads, {"times"}), TimesTasks(p)))
  /\ UNCHANGED busy

SelectCourt(c) ==
  /\ Choose
  /\ screen.courts = "ready"
  /\ LET p == [screen EXCEPT !.court = c, !.range = NoRange] IN
     IF c = screen.court THEN screen' = p /\ UNCHANGED reads
     ELSE Requeried(p, reads)
  /\ UNCHANGED busy

\* getSlotState: the half-hour is free, selected or incompatible.
Tappable(tile) ==
  /\ Phase(screen) = "success"
  /\ \/ tile \in TilesOf(screen.range)
     \/ \E o \in Options(screen) : o.len >= MinSlots /\ tile \in o.start..(o.start + o.len - 1)

\* handleSelectSlot
Tap(tile) ==
  /\ Tappable(tile)
  /\ screen' = Revalidated([screen EXCEPT !.range = Updated(Options(screen), @, tile)])
  /\ UNCHANGED <<reads, busy, budget>>

\* external: what the read that runs is answered.
Answer(t) ==
  LET pair == NextPair(t.left) IN
  CASE t.kind = "dates" -> {d \in PageDates : Starts(pair[1], pair[2], d) # {}}
    [] t.kind = "times" ->
         {[start |-> s, len |-> pair[1], court |-> pair[2], date |-> t.date] :
            s \in Starts(pair[1], pair[2], t.date)}
    [] OTHER -> {}

\* A run ends: its state is set, and the effects that depend on it run.
Finished(t, r, found) ==
  CASE t.kind = "services" ->
         /\ screen' = [screen EXCEPT !.services = "ready", !.courts = "loading"]
         /\ reads' = Pumped(Enqueued(r, {Task("courts", {}, FirstDate, Pairs({AnyCourt}))}))
    [] t.kind = "courts" ->
         Requeried([screen EXCEPT !.courts = "ready", !.catalogued = TRUE,
                      !.court = IF screen.catalogued THEN @
                                ELSE CHOOSE c \in PageCourts : \A b \in PageCourts : c <= b], r)
    [] t.kind \in {"dates", "times"} ->
         /\ screen' = Revalidated([screen EXCEPT ![t.kind] =
                      [status |-> "ready", courts |-> t.courts, date |-> t.date, found |-> found]])
         /\ reads' = Pumped(r)

\* The read that runs is answered.
ReadAnswered ==
  LET t == reads.running
      r == [reads EXCEPT !.running = NoTask]
      found == t.got \cup Answer(t)
  IN /\ t # NoTask
     /\ IF ~Accepted(t) THEN reads' = Pumped(r) /\ UNCHANGED screen
        ELSE IF t.left = {NextPair(t.left)} THEN Finished(t, r, found)
        ELSE /\ reads' = Pumped(Enqueued(r, {[t EXCEPT !.left = @ \ {NextPair(@)}, !.got = found]}))
             /\ UNCHANGED screen
     /\ UNCHANGED <<busy, budget>>

\* The read fails, times out, or answers what does not parse: the run ends.
ReadFailed ==
  LET t == reads.running IN
  /\ t # NoTask
  /\ screen' = IF ~Accepted(t) THEN screen
             ELSE IF t.kind \in {"services", "courts"} THEN [screen EXCEPT ![t.kind] = "error"]
             ELSE [screen EXCEPT ![t.kind] =
                     [status |-> "error", courts |-> t.courts, date |-> t.date, found |-> {}]]
  /\ reads' = Pumped([reads EXCEPT !.running = NoTask])
  /\ UNCHANGED <<busy, budget>>

\* external: somebody takes or gives back a half-hour.
OthersBook(c, d, tile) ==
  /\ budget.others > 0
  /\ busy' = [busy EXCEPT ![c][d] = IF tile \in @ THEN @ \ {tile} ELSE @ \cup {tile}]
  /\ budget' = [budget EXCEPT !.others = @ - 1]
  /\ UNCHANGED <<screen, reads>>

AvailabilityNext ==
  \/ Refresh \/ ReadAnswered \/ ReadFailed
  \/ \E d \in PageDates : SelectDate(d)
  \/ \E c \in PageCourts \cup {AnyCourt} : SelectCourt(c)
  \/ \E tile \in Tiles : Tap(tile)
  \/ \E c \in PageCourts, d \in PageDates, tile \in Tiles : OthersBook(c, d, tile)

AvailabilitySpec == AvailabilityInit /\ [][AvailabilityNext]_screenVars

-------------------------------------------------------------------------------
LoadType(Rows) ==
  [status : Phases, courts : SUBSET PageCourts, date : PageDates, found : SUBSET Rows]

\* The variables keep their types.
AvailabilityTypeOK ==
  /\ screen.services \in Phases /\ screen.courts \in Phases
  /\ screen.dates \in LoadType(PageDates)
  /\ screen.times \in LoadType(Slot)
  /\ screen.asked \in SUBSET PageCourts
  /\ screen.date \in PageDates /\ screen.court \in PageCourts \cup {AnyCourt}
  /\ screen.range.count \in 0..MaxSlots /\ screen.range.start \in Tiles
  /\ screen.range.court \in PageCourts \cup {AnyCourt}
  /\ \A t \in reads.waiting : t.kind \in {"services", "courts", "dates", "times"}
  /\ busy \in [PageCourts -> [PageDates -> SUBSET Tiles]]

\* However often the date, the court and the catalogue change under the reads
\* of BookingScreen.jsx, what can be tapped was read for the date and the courts
\* now shown; a chosen range lies in one offer of the court it names; and when
\* no read is left, the page is not loading: it shows times or an error.
AvailabilityIsTrue ==
  /\ \A o \in Options(screen) : o.date = screen.date /\ o.court \in QueryCourts(screen)
  /\ screen.range # NoRange =>
       /\ Phase(screen) = "success"
       /\ \E o \in Options(screen) :
            /\ o.court = screen.range.court
            /\ TilesOf(screen.range) \subseteq o.start..(o.start + o.len - 1)
  /\ reads.running = NoTask => Phase(screen) # "loading"
===============================================================================
