SPECIFICATION WorkersSpec
CONSTANTS
  m1 = m1 m2 = m2
  Messages = {m1, m2} Table <- MCTable Dispatchers = {w1, w2} MaxAttempts = 2 MaxDestination = 2
  LastBooking = 2 Schedulers = {w1, w2} BatchLimit = 1 MaxEdits <- MCMaxEdits
  Callers = {c1, c2, c3, c4} Minute = 6 Interval = 1 MaxPerMinute = 3 MaxPending = 3
  SweptMatches = {1, 2} SweepLimit = 2 Sweepers = {w1, w2} MaxOffers <- MCMaxOffers
INVARIANTS
  WorkersTypeOK
  DeliveryIsTrue
  MessageIsTrue
  RateIsKept
PROPERTIES
  LateCallsAreHarmless NextBookingIsReconciled
  QueuesMove
  DueOfferIsSettled
CHECK_DEADLOCK FALSE
