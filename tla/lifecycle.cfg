SPECIFICATION LifecyclesSpec
CONSTANTS
  t1 = t1 k1 = k1 k2 = k2
  Operations = {o1, o2, o3} Targets = {t1, t2} Records = {r1, r2} NoRecord = NoRecord MaxTime = 1
  MaxTries = 2 MaxCommands = 3 MaxFamilies = 2
  Logins = {l1, l2} Keys = {k1, k2} Proofs = {"p1", "p2", "q1"} Owner <- MCOwner Returning = {"ann"} LastSecond = 1
  Resolvers = {r1, r2} Results = {"m1", "m2"} Winners <- MCWinners Losers <- MCLosers Submitter <- MCSubmitter Rated = {"m1", "m2"} Commands = {k1, k2} MaxRating = 2 AdminRatings = {0} Provisional = 1 MaxSettings = 1
  Requests = {r1, r2} Members = {a, b} LineupOwner = a Places = {"left", "right"}
  Deliveries = {d1, d2, d3} SignalRecords = {r1, r2} MaxSignals = 1
  PaymentAttempts = {a1, a2} LastNow = 1
  OtpIds = {g1, g2, g3} OtpAttempts = 2 LastReading = 3
  ProofIds = {g1, g2, g3} ResendKeys = {k1, k2} Dispatches = {d1, d2} ProofAttempts = 2 ProofExpires = 3 Cooldown = 1
  GrantIds = {g1} GrantSessions = {s1, s2} Resources = {x1, x2} LastMoment = 2
  Tabs = {w1, w2} Profiles = {"d1", "d2"} Surveys = {"x", "y"} MaxRequests = 2 MaxRevision = 1 MaxPolicy = 2 MaxLate = 1
  CancelRequests = {w1, w2} CancelKeys = {k1, k2} References <- MCReferences OwnReference = "own" MaxStaffEdits = 1
  Launches = {l1, l2} Cleanups = {c1, c2}
  ChatMatches = {"m1", "m2"} Sends = {"s1"} ChatTries = 2
  Notes = {"n1", "n2"} Taps = {"t1", "t2"}
  Devices = {d1, d2} Filled <- MCFilled MaxGateTries = 2
  Changes = 2
  PageCourts = {1, 2} PageDates = {"today", "later"} Durations = {2, 3, 4} LastTile = 4 BusyDays <- MCBusy MaxChoices = 2 MaxOthers = 1
  MakerDevices = {"e1", "e2"} Details = {"d1", "d2"} MakerCourts = {"u1", "u2"} MaxMoves = 2 MaxPresses = 3
VIEW Moving
INVARIANTS
  LifecyclesTypeOK
  ReservationIsExplained
  LoginsAreSound
  RatingsAreExact
  LineupIsTrue
  MoneyIsAccountedFor
  CodesAndGrantsAreSound
  LevelsAreTrue
  CancellationIsTrue
  HoldsAreHonest
  FeedsAreTrue
PROPERTIES
  OutcomesStand
  SessionsAreSound
  InboxKeepsItsBound
CHECK_DEADLOCK FALSE
