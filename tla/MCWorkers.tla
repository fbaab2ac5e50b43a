------------------------------- MODULE MCWorkers ------------------------------
(* The workers beside the requests: the dispatchers, the scheduler, the queue *)
(* to the provider, and the sweep of waitlist offers.  Each keeps state of    *)
(* its own, so a behaviour is one of them ("scene") and leaves the others     *)
(* where they begin.                                                         *)
EXTENDS TelegramDelivery, Reconciliation, RequestLimiter, OfferSweep, TLC

CONSTANTS m1, m2   \* rows of the delivery tables

VARIABLE scene   \* the part that runs

MCTable == (m1 :> "intents") @@ (m2 :> "outbox")
MCMaxEdits == <<2, 0>>
MCMaxOffers == <<2, 1>>

Scenes ==
  {"delivery", "reconciliation", "limiter", "sweep"}

WorkersInit ==
  /\ scene \in Scenes
  /\ DeliveryInit /\ ReconciliationInit /\ LimiterInit /\ SweepInit

DeliveryScene ==
  /\ scene = "delivery" /\ DeliveryNext
  /\ UNCHANGED <<scene, reconciliationVars, limiterVars, sweepVars>>
ReconciliationScene ==
  /\ scene = "reconciliation" /\ ReconciliationNext
  /\ UNCHANGED <<scene, deliveryVars, limiterVars, sweepVars>>
LimiterScene ==
  /\ scene = "limiter" /\ LimiterNext
  /\ UNCHANGED <<scene, deliveryVars, reconciliationVars, sweepVars>>
SweepScene ==
  /\ scene = "sweep" /\ SweepNext
  /\ UNCHANGED <<scene, deliveryVars, reconciliationVars, limiterVars>>

WorkersNext ==
  \/ DeliveryScene
  \/ ReconciliationScene
  \/ LimiterScene
  \/ SweepScene

workersVars ==
  <<scene, deliveryVars, reconciliationVars, limiterVars, sweepVars>>

(* The reads and refreshes that get through, of the scheduler. *)
ReadWorks(s) == ReadRecord(s) /\ scheduler'[s].pc = "apply"
ApplyWorks(s) == ApplyRefresh(s) /\ booking' # booking

(* One scene runs, so the fair actions of the scenes share the conditions.    *)
moving ==
  CASE scene = "delivery" -> deliveryVars
    [] scene = "reconciliation" -> reconciliationVars
    [] scene = "limiter" -> limiterVars
    [] scene = "sweep" -> sweepVars
In(s, A) == scene = s /\ A /\ UNCHANGED scene
Fairness ==
  /\ WF_moving(\/ In("delivery", TimePasses)
               \/ In("reconciliation", FiveMinutesPass) \/ In("limiter", TickPasses))
  /\ WF_moving(In("limiter", AskPermit \/ StartRequest \/ (Wake /\ timer = 0)))
  /\ WF_moving(\/ In("limiter", FinishRequest)
               \/ In("sweep", \E s \in Sweepers : BeginTick(s)))
  /\ \A w \in Dispatchers :
       WF_moving(In("delivery", DispatcherStep(w)) \/ In("reconciliation", SchedulerStep(w)))
  /\ \A t \in {"intents", "outbox"} : WF_moving(In("delivery", ClaimStep(t)))
  /\ \A b \in Bookings : WF_moving(In("reconciliation", LeaseRunsOut(b)))
  /\ SF_moving(\/ In("reconciliation", \E s \in Schedulers : ReadWorks(s))
               \/ In("sweep", \E s \in Sweepers, m \in SweptMatches : Visit(s, m)))
  /\ SF_moving(In("reconciliation", \E s \in Schedulers : ApplyWorks(s)))

WorkersSpec == WorkersInit /\ [][WorkersNext]_workersVars /\ Fairness

\* Every variable of the scene that runs keeps its type; the others never move.
WorkersTypeOK ==
  /\ scene = "delivery" => DeliveryTypeOK
  /\ scene = "reconciliation" => ReconciliationTypeOK
  /\ scene = "limiter" => LimiterTypeOK
  /\ scene = "sweep" => SweepTypeOK

QueueWaits ==
  \/ scene = "delivery" /\ MessageWaits
  \/ scene = "limiter" /\ HeadWaits

\* No queue stands still.  Whenever rows of the delivery tables are pending, a
\* time comes when all are settled, unless every dispatcher is switched off; and
\* the request at the head of the provider's queue is made, and so, by their
\* order, is every request that was accepted, if the ones before it end.
QueuesMove == QueueWaits ~> ~QueueWaits
===============================================================================
