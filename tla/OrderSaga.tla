----------------------------- MODULE OrderSaga -----------------------------
(***************************************************************************)
(* The order saga: the five Temporal workflows of the Orchestrator over    *)
(* the databases of the Order, Payment and Rider Services.                 *)
(*                                                                         *)
(* A workflow is a sequence of activities.  A parent awaits its child, so  *)
(* an order's Order, Payment, Fulfillment, Rider and Compensation          *)
(* workflows are one thread of control, `wf[o]`.  Beside it run the        *)
(* handlers of the kitchen's Update, the executions of authorise(), the    *)
(* riders' reports, and the requests a lost attempt left behind.           *)
(*                                                                         *)
(* Temporal retries an activity until its policy's attempts are used up:   *)
(* each attempt is a request over HTTP that may be lost on its way, or     *)
(* executed and its answer lost, or executed after the caller has given it *)
(* up.  The last two are one case here: an attempt that is given up goes   *)
(* into `late`, from where it may be executed at any time, at once or      *)
(* never.  MaxFaults bounds how often an attempt is lost.                  *)
(***************************************************************************)
EXTENDS OrderStore, PaymentStore, RiderFleet

CONSTANTS
    StateAttempts,      \* STATE_POLICY.maximum_attempts
    TransientAttempts,  \* TRANSIENT_POLICY.maximum_attempts
    ReleaseAttempts,    \* RELEASE_POLICY.maximum_attempts
    CompensationRuns,   \* how often a failed CompensationWorkflow is run again, plus one
    SearchAttempts,     \* RIDER_SEARCH_ATTEMPTS
    ManualPayers,       \* orders whose customer also calls POST /payments
    MaxFaults           \* bound: how many attempts are lost in a behaviour

VARIABLES
    wf,          \* the workflow of each order: where it is, and its local variables
    handlers,    \* kitchen_decision handlers under way
    reports,     \* riders' reports under way
    late,        \* requests whose caller has given up on them
    announced,   \* events Kafka holds, per order; consumers drop duplicates
    faults       \* attempts lost so far

sagaVars == <<wf, handlers, reports, late, announced, faults>>
vars == <<orderVars, payVars, riders, sagaVars>>

-----------------------------------------------------------------------------
(* Where a workflow can stand.  An activity's step is named for what it    *)
(* does, and the publish that follows it has a step of its own.            *)

\* The transition_order_activity steps, and the status each writes.
Enters == [s \in {"confirm", "assign", "mark_picked_up", "mark_delivered",
                  "cancel", "cancel_unpaid", "mark_comp_failed"} |->
             CASE s = "confirm"          -> "confirmed"
               [] s = "assign"           -> "assigned"
               [] s = "mark_picked_up"   -> "picked_up"
               [] s = "mark_delivered"   -> "delivered"
               [] s = "mark_comp_failed" -> "compensation_failed"
               [] OTHER                  -> "cancelled"]

\* Every transition is followed by the publish of the status it entered.
PublishOf == [s \in DOMAIN Enters \cup {"create"} |->
                CASE s = "create"           -> "pub_created"
                  [] s = "confirm"          -> "pub_confirmed"
                  [] s = "assign"           -> "pub_assigned"
                  [] s = "mark_picked_up"   -> "pub_picked_up"
                  [] s = "mark_delivered"   -> "pub_delivered"
                  [] s = "mark_comp_failed" -> "pub_comp_failed"
                  [] s = "cancel"           -> "pub_cancelled"
                  [] s = "cancel_unpaid"    -> "pub_cancel_unpaid"]

Announces == [p \in {PublishOf[s] : s \in DOMAIN PublishOf} |->
                IF p = "pub_created" THEN "created"
                ELSE Enters[CHOOSE s \in DOMAIN Enters : PublishOf[s] = p]]

Reads == {"read_decision", "read_pickup", "read_delivery"}
Releases == {"release_delivered", "release_failed"}
Activities == DOMAIN PublishOf \cup Reads \cup Releases
                \cup {"authorize", "dispatch", "refund"}
Waits == {"await_kitchen", "await_pickup", "await_delivery"}

\* How a run ends: without an order, with the order an earlier run made,
\* declined, at a terminal status, or by a failure nothing handles.
Ends == {"refused", "create_failed", "returned", "declined", "finished", "broken"}

\* While FulfillmentWorkflow runs, and while its RiderWorkflow does.
CompensationSteps == {"refund", "cancel", "pub_cancelled",
                      "mark_comp_failed", "pub_comp_failed"}
RiderSteps == {"dispatch", "assign", "pub_assigned", "await_pickup", "read_pickup",
               "mark_picked_up", "pub_picked_up", "await_delivery", "read_delivery",
               "mark_delivered", "pub_delivered"} \cup Releases

Reason == {"kitchen_at_capacity", "kitchen_timeout", "kitchen_rejected",
           "no_rider_available", "pickup_timeout", "delivery_timeout"}

Place == Activities \cup Waits \cup DOMAIN Announces \cup Ends \cup {"none"}

Workflow == [pc        : Place,
             attempt   : Nat \ {0},            \* of the activity it is executing
             begun     : BOOLEAN,              \* the server is part-way through it
             owner     : BOOLEAN,              \* a run of it was told it made the order
             decision  : Decision \cup {"none"},
             rider     : Riders \cup {None},
             searches  : Nat,                  \* failed rider searches
             picked_up : BOOLEAN,
             delivered : BOOLEAN,
             reason    : Reason \cup {"none"},
             runs      : Nat]                  \* failed CompensationWorkflow runs

NotStarted == [pc |-> "none", attempt |-> 1, begun |-> FALSE, owner |-> FALSE,
               decision |-> "none", rider |-> None, searches |-> 0,
               picked_up |-> FALSE, delivered |-> FALSE, reason |-> "none", runs |-> 0]

Handler == [order : Orders, decision : Decision, step : {"deciding", "publishing"}]
Report == [order : Orders, stage : ReportStage, recorded : BOOLEAN]
Request == [order : Orders, step : Activities \cup Decision]
Event == OrderStatus \cup {"kitchen.decided", "payment.authorized", "payment.refunded"}

FulfillmentRuns(o) ==
    \/ wf[o].pc \in RiderSteps \cup {"await_kitchen", "read_decision"}
    \/ wf[o].pc \in CompensationSteps /\ wf[o].reason # "kitchen_at_capacity"
RiderRuns(o) == wf[o].pc \in RiderSteps

At(o, p) == wf[o].pc = p

-----------------------------------------------------------------------------
SagaInit ==
    /\ OrdersInit /\ PayInit /\ FleetInit
    /\ wf = [o \in Orders |-> NotStarted]
    /\ handlers = {} /\ reports = {} /\ late = {}
    /\ announced = [o \in Orders |-> {}]
    /\ faults = 0

\* The workflow w moves on to step p.
To(w, p) == [w EXCEPT !.pc = p, !.attempt = 1, !.begun = FALSE]
\* ... on the way to being compensated, or to reporting why it must be.
For(w, p, why) == [To(w, p) EXCEPT !.reason = why]

Goes(o, p) == wf' = [wf EXCEPT ![o] = To(@, p)]
\* Broken variant: cancelled, and not refunded first.
CompensatesUnrefunded(o, why) == wf' = [wf EXCEPT ![o] = For(@, "cancel", why)]

Compensates(o, why) == wf' = [wf EXCEPT ![o] = For(@, "refund", why)]

aside == <<handlers, reports, late, faults>>     \* what the workflow's own steps leave alone

-----------------------------------------------------------------------------
(* Checkout and OrderWorkflow.                                             *)

\* start_and_wait: a checkout starts a run unless one is open.  Run again over
\* an order whose saga went further it would only come back "returned".
Checkout(o) ==
    /\ wf[o].pc \in {"none", "refused", "create_failed", "returned"}
    /\ Goes(o, "create")
    /\ UNCHANGED <<orderVars, payVars, riders, announced, aside>>

\* create_order_activity.  The cart, the customer, the restaurant or a full
\* rail may refuse the order; the first three are asked before the row is.
CreateOrder(o) ==
    /\ At(o, "create")
    /\ \/ /\ InsertOrder(o)
          /\ wf' = [wf EXCEPT ![o] = [To(@, "pub_created") EXCEPT !.owner = TRUE]]
       \/ /\ Exists(o) /\ Goes(o, "returned")
          /\ UNCHANGED orderVars
       \/ /\ Goes(o, "refused")
          /\ UNCHANGED orderVars
    /\ UNCHANGED <<payVars, riders, announced, aside>>

\* publish_order_event_activity and what follows it: retried until Kafka takes
\* the event.  Publishing 'confirmed' ends OrderWorkflow and starts
\* FulfillmentWorkflow.
AfterPublish(w) ==
    CASE w.pc = "pub_created"   -> "authorize"
      [] w.pc = "pub_confirmed" -> "await_kitchen"
      [] w.pc = "pub_assigned"  -> "await_pickup"
      [] w.pc = "pub_picked_up" -> IF w.delivered THEN "mark_delivered" ELSE "await_delivery"
      [] w.pc = "pub_delivered" -> "release_delivered"
      [] w.pc \in {"pub_cancelled", "pub_comp_failed"} -> "finished"
      [] w.pc = "pub_cancel_unpaid" -> "declined"

Publish(o) ==
    /\ wf[o].pc \in DOMAIN Announces
    /\ announced' = [announced EXCEPT ![o] = @ \cup {Announces[wf[o].pc]}]
    /\ Goes(o, AfterPublish(wf[o]))
    /\ UNCHANGED <<orderVars, payVars, riders, aside>>

\* Broken variant: the assignment is not published.
TransitionUnpublished(o) ==
    LET s == wf[o].pc
    IN  /\ s \in DOMAIN Enters \ {"confirm"}
        /\ Transition(o, Enters[s], IF s = "assign" THEN wf[o].rider ELSE None)
        /\ Goes(o, IF s = "assign" THEN "await_pickup" ELSE PublishOf[s])
        /\ UNCHANGED <<payVars, riders, announced, aside>>

\* transition_order_activity, for every status but 'confirmed'.
TransitionOrder(o) ==
    LET s == wf[o].pc
    IN  /\ s \in DOMAIN Enters \ {"confirm"}
        /\ Transition(o, Enters[s], IF s = "assign" THEN wf[o].rider ELSE None)
        /\ Goes(o, PublishOf[s])
        /\ UNCHANGED <<payVars, riders, announced, aside>>

\* transition_order_activity with a capacity limit: the order joins the rail,
\* or is refused a place on it.
CountOnRail(o) ==
    /\ At(o, "confirm") /\ ~wf[o].begun
    /\ \/ /\ CountRail(o)
          /\ wf' = [wf EXCEPT ![o].begun = TRUE]
       \/ /\ RailFull(o) /\ Compensates(o, "kitchen_at_capacity")
          /\ UNCHANGED orderVars
    /\ UNCHANGED <<payVars, riders, announced, aside>>

JoinRail(o) ==
    /\ At(o, "confirm") /\ wf[o].begun
    /\ ConfirmCounted(o)
    /\ Goes(o, "pub_confirmed")
    /\ UNCHANGED <<payVars, riders, announced, aside>>

-----------------------------------------------------------------------------
(* PaymentWorkflow.                                                        *)

CurrentAuth(o) == [order |-> o, kind |-> "saga", attempt |-> wf[o].attempt]

SendAuthorize(o) ==
    /\ At(o, "authorize") /\ ~wf[o].begun
    /\ SendAuth(CurrentAuth(o))
    /\ wf' = [wf EXCEPT ![o].begun = TRUE]
    /\ UNCHANGED <<orderVars, riders, announced, aside>>

ServeAuthorize(o) ==
    /\ At(o, "authorize") /\ wf[o].begun
    /\ AuthoriseStep(CurrentAuth(o))
    /\ UNCHANGED <<orderVars, riders, sagaVars>>

\* An activity's attempts, by its policy, and what its failure for good does to
\* the workflow.
Attempts(s) ==
    CASE s = "authorize" -> AuthAttempts
      [] s = "dispatch"  -> TransientAttempts
      [] s = "refund"    -> RefundAttempts
      [] s \in Releases  -> ReleaseAttempts
      [] OTHER           -> StateAttempts

GivenUp(w) ==
    CASE w.pc = "create"        -> To(w, "create_failed")
      [] w.pc = "authorize"     -> To(w, "cancel_unpaid")
      [] w.pc = "confirm"       -> For(w, "refund", "kitchen_at_capacity")
      [] w.pc = "read_decision" -> For(w, "refund", "kitchen_timeout")
      [] w.pc = "read_pickup"   -> For(w, "release_failed", "pickup_timeout")
      [] w.pc = "read_delivery" -> For(w, "release_failed", "delivery_timeout")
      [] w.pc = "refund"        -> To(w, "mark_comp_failed")
      [] w.pc \in {"cancel", "mark_comp_failed"} /\ w.runs + 1 < CompensationRuns
                                -> [To(w, "refund") EXCEPT !.runs = @ + 1]
      [] OTHER                  -> To(w, "broken")

\* The next attempt, which is made first.
Again(w) == [w EXCEPT !.attempt = @ + 1, !.begun = FALSE]

AttemptFails(o) ==
    wf' = [wf EXCEPT ![o] = IF @.attempt < Attempts(@.pc) THEN Again(@) ELSE GivenUp(@)]

\* authorize_payment_activity on the service's answer.  Any status but
\* 'authorized' is a decline and final; a 409 arrives as a 502, which is
\* retried.
AuthorizeAnswered(o) ==
    /\ At(o, "authorize") /\ wf[o].begun
    /\ LET step == auth[CurrentAuth(o)]
       IN  \/ /\ step \in {"marked", "replayed_authorized"}
              /\ Goes(o, "confirm")
              /\ announced' = [announced EXCEPT ![o] = @ \cup {"payment.authorized"}]
           \/ /\ step \in {"replayed_pending", "replayed_refunded"}
              /\ Goes(o, "cancel_unpaid")
              /\ UNCHANGED announced
           \/ /\ step = "conflict"
              /\ AttemptFails(o)
              /\ UNCHANGED announced
    /\ UNCHANGED <<orderVars, payVars, riders, aside>>

-----------------------------------------------------------------------------
(* FulfillmentWorkflow.                                                    *)

\* Broken variant: silence is consent.
DecidedBySilence(w, d) ==
    [(IF d = "rejected" THEN For(w, "refund", "kitchen_rejected") ELSE To(w, "dispatch"))
     EXCEPT !.decision = d]
\* The kitchen's answer, or the lack of one, is known to run().
Decided(w, d) ==
    [(CASE d = "accepted" -> To(w, "dispatch")
        [] d = "rejected" -> For(w, "refund", "kitchen_rejected")
        [] d = "none"     -> For(w, "refund", "kitchen_timeout")) EXCEPT !.decision = d]

KitchenAnswered(o) ==
    /\ At(o, "await_kitchen") /\ wf[o].decision # "none"
    /\ wf' = [wf EXCEPT ![o] = Decided(@, @.decision)]
    /\ UNCHANGED <<orderVars, payVars, riders, announced, aside>>

KitchenTimer(o) ==
    /\ At(o, "await_kitchen") /\ wf[o].decision = "none"
    /\ Goes(o, "read_decision")
    /\ UNCHANGED <<orderVars, payVars, riders, announced, aside>>

\* read_kitchen_decision_activity.  What it read replaces what a handler may
\* have set meanwhile.
ReadDecision(o) ==
    /\ At(o, "read_decision")
    /\ wf' = [wf EXCEPT ![o] = Decided(@, orders[o].decision)]
    /\ UNCHANGED <<orderVars, payVars, riders, announced, aside>>

\* The kitchen's accept or reject button, answered here only while the order's
\* row has no decision; the Update it sends starts a handler in the workflow,
\* or fails if that is not running.
KitchenClicks(o, d) ==
    /\ Exists(o) /\ orders[o].decision = "none"
    /\ FulfillmentRuns(o) /\ wf[o].decision = "none"
    /\ handlers' = handlers \cup {[order |-> o, decision |-> d, step |-> "deciding"]}
    /\ UNCHANGED <<orderVars, payVars, riders, wf, reports, late, announced, faults>>

\* Broken variant: the handler does not look at `changed`.
HandlerDecidesAnyway(h) ==
    /\ h.step = "deciding"
    /\ DecideKitchen(h.order, h.decision)
    /\ handlers' = (handlers \ {h}) \cup {[h EXCEPT !.step = "publishing"]}
    /\ UNCHANGED <<payVars, riders, wf, reports, late, announced, faults>>

\* kitchen_decision: the write, then the publish, then the variable run() waits
\* for.  A handler whose workflow has closed does not go on.
HandlerDecides(h) ==
    /\ h.step = "deciding"
    /\ DecideKitchen(h.order, h.decision)
    /\ handlers' = (handlers \ {h})
                     \cup (IF OnRail(h.order) THEN {[h EXCEPT !.step = "publishing"]} ELSE {})
    /\ UNCHANGED <<payVars, riders, wf, reports, late, announced, faults>>

HandlerPublishes(h) ==
    /\ h.step = "publishing"
    /\ handlers' = handlers \ {h}
    /\ IF FulfillmentRuns(h.order)
         THEN /\ wf' = [wf EXCEPT ![h.order].decision = h.decision]
              /\ announced' = [announced EXCEPT ![h.order] = @ \cup {"kitchen.decided"}]
         ELSE UNCHANGED <<wf, announced>>
    /\ UNCHANGED <<orderVars, payVars, riders, reports, late, faults>>

-----------------------------------------------------------------------------
(* RiderWorkflow.                                                          *)

\* Nobody is near: another search, until the last.
Searched(w) ==
    [(IF w.searches + 1 < SearchAttempts
        THEN To(w, "dispatch") ELSE For(w, "refund", "no_rider_available"))
     EXCEPT !.searches = @ + 1]

\* dispatch_rider_activity: the rider who holds the order already, the nearest
\* free one, or nobody.
DispatchRider(o) ==
    /\ At(o, "dispatch")
    /\ \/ \E r \in Riders :
             /\ \/ r \in Holding(o) /\ UNCHANGED riders
                \/ Claim(o, r)
             /\ wf' = [wf EXCEPT ![o] = [To(@, "assign") EXCEPT !.rider = r]]
       \/ /\ Holding(o) = {}
          /\ wf' = [wf EXCEPT ![o] = Searched(@)]
          /\ UNCHANGED riders
    /\ UNCHANGED <<orderVars, payVars, announced, aside>>

\* The two waits for the rider's signals, each with its timer.
RiderSignalled(o) ==
    /\ \/ At(o, "await_pickup") /\ wf[o].picked_up /\ Goes(o, "mark_picked_up")
       \/ At(o, "await_delivery") /\ wf[o].delivered /\ Goes(o, "mark_delivered")
    /\ UNCHANGED <<orderVars, payVars, riders, announced, aside>>

\* Broken variant: the second wait has no timer.
PickupTimerOnly(o) ==
    /\ At(o, "await_pickup") /\ ~wf[o].picked_up /\ Goes(o, "read_pickup")
    /\ UNCHANGED <<orderVars, payVars, riders, announced, aside>>

DeliveryTimer(o) ==
    /\ \/ At(o, "await_pickup") /\ ~wf[o].picked_up /\ Goes(o, "read_pickup")
       \/ At(o, "await_delivery") /\ ~wf[o].delivered /\ Goes(o, "read_delivery")
    /\ UNCHANGED <<orderVars, payVars, riders, announced, aside>>

\* What a report of stage g, signalled or read, sets in the workflow.
Reported(w, g) ==
    [w EXCEPT !.picked_up = TRUE, !.delivered = @ \/ g = "delivered"]

\* read_rider_report_activity, after either timer.
ReadReport(o) ==
    /\ LET g == orders[o].reported
       IN  wf' = [wf EXCEPT ![o] =
                    IF g = "none" \/ (@.pc = "read_delivery" /\ g = "picked_up")
                      THEN For(@, "release_failed", IF @.pc = "read_pickup"
                                                      THEN "pickup_timeout"
                                                      ELSE "delivery_timeout")
                      ELSE To(Reported(@, g), IF @.pc = "read_pickup"
                                                THEN "mark_picked_up"
                                                ELSE "mark_delivered")]
    /\ wf[o].pc \in {"read_pickup", "read_delivery"}
    /\ UNCHANGED <<orderVars, payVars, riders, announced, aside>>

\* Broken variant: a failed delivery is cancelled, and not refunded first.
ReleaseRiderUnrefunded(o) ==
    /\ wf[o].pc \in Releases
    /\ Release(o)
    /\ Goes(o, IF At(o, "release_delivered") THEN "finished" ELSE "cancel")
    /\ UNCHANGED <<orderVars, payVars, announced, aside>>

\* release_rider_activity, the delivery's last step or a failed one's.
ReleaseRider(o) ==
    /\ wf[o].pc \in Releases
    /\ Release(o)
    /\ Goes(o, IF At(o, "release_delivered") THEN "finished" ELSE "refund")
    /\ UNCHANGED <<orderVars, payVars, announced, aside>>

\* The rider's app: the row it holds is checked, then the report is recorded,
\* then the workflow is signalled, if it is still running.
RiderReports(o, g) ==
    /\ Holding(o) # {}
    /\ reports' = reports \cup {[order |-> o, stage |-> g, recorded |-> FALSE]}
    /\ UNCHANGED <<orderVars, payVars, riders, wf, handlers, late, announced, faults>>

RecordReport(x) ==
    /\ ~x.recorded
    /\ RecordRiderReport(x.order, x.stage)
    /\ reports' = (reports \ {x}) \cup {[x EXCEPT !.recorded = TRUE]}
    /\ UNCHANGED <<payVars, riders, wf, handlers, late, announced, faults>>

SignalReport(x) ==
    /\ x.recorded
    /\ reports' = reports \ {x}
    /\ wf' = IF RiderRuns(x.order) THEN [wf EXCEPT ![x.order] = Reported(@, x.stage)] ELSE wf
    /\ UNCHANGED <<orderVars, payVars, riders, handlers, late, announced, faults>>

-----------------------------------------------------------------------------
(* CompensationWorkflow.                                                   *)

SendRefund(o) ==
    /\ At(o, "refund") /\ ~wf[o].begun
    /\ IssueRefund(o)
    /\ wf' = [wf EXCEPT ![o].begun = TRUE]
    /\ UNCHANGED <<orderVars, riders, announced, aside>>

\* refund_payment_activity is answered, and payment.refunded published: by the
\* attempt that went to the gateway, or at once if the payment is refunded.
RefundAnswered(o) ==
    /\ At(o, "refund")
    /\ \/ wf[o].begun /\ MarkRefunded(o)
       \/ ~wf[o].begun /\ payments[o].status = "refunded" /\ UNCHANGED payVars
    /\ Goes(o, "cancel")
    /\ announced' = [announced EXCEPT ![o] = @ \cup {"payment.refunded"}]
    /\ UNCHANGED <<orderVars, riders, aside>>

-----------------------------------------------------------------------------
(* Lost attempts, and what becomes of them.                                *)

\* Bound: a behaviour has lost attempts or payments by hand, not both.
PaidByHand == \E c \in AuthCall : c.kind = "manual" /\ auth[c] # "unsent"

Fault == faults < MaxFaults /\ ~PaidByHand /\ faults' = faults + 1

\* The requests that change something and need no process of their own.
Writes == Activities \ (Reads \cup {"authorize"})

\* An attempt is given up: the worker dies, the request or its answer is lost,
\* or the service is too slow.  A create that fails over HTTP is a business
\* answer to its activity, whatever the failure, so it is not retried; only a
\* worker's death is.
LoseAttempt(o) ==
    /\ wf[o].pc \in Activities
    /\ Fault
    /\ late' = late \cup (IF wf[o].pc \in Writes /\ ~wf[o].begun
                            THEN {[order |-> o, step |-> wf[o].pc]} ELSE {})
    /\ \/ AttemptFails(o)
       \/ At(o, "create") /\ Goes(o, "create_failed")
    /\ UNCHANGED <<orderVars, payVars, riders, handlers, reports, announced>>

\* The Payment Service dies, or the gateway fails, under the current attempt.
CrashPayment(o) ==
    /\ wf[o].begun
    /\ Fault
    /\ \/ At(o, "authorize") /\ CrashAuth(CurrentAuth(o))
       \/ At(o, "refund") /\ CrashRefund(o)
    /\ AttemptFails(o)
    /\ UNCHANGED <<orderVars, riders, handlers, reports, late, announced>>

\* The decision's write is lost.  Over HTTP it is not retried; a worker's death
\* retries it, which then finds the order decided and ends the same way.
LoseDecision(h) ==
    /\ h.step = "deciding"
    /\ Fault
    /\ handlers' = handlers \ {h}
    /\ late' = late \cup {[order |-> h.order, step |-> h.decision]}
    /\ UNCHANGED <<orderVars, payVars, riders, wf, reports, announced>>

\* The report's call fails, or its signal does; the rider may report again.
LoseReport(x) ==
    /\ Fault
    /\ reports' = reports \ {x}
    /\ UNCHANGED <<orderVars, payVars, riders, wf, handlers, late, announced>>

\* A request given up is executed after all.
ExecuteLate(q) ==
    LET o == q.order
        s == q.step
    IN  /\ late' = late \ {q}
        /\ \/ /\ \/ s = "create" /\ InsertOrder(o)
                 \/ s = "confirm" /\ CountRail(o)
                 \/ /\ s \in DOMAIN Enters \ {"confirm"}
                    /\ Transition(o, Enters[s], IF s = "assign" THEN wf[o].rider ELSE None)
                 \/ s \in Decision /\ DecideKitchen(o, s)
              /\ UNCHANGED <<payVars, riders>>
           \/ /\ \/ s = "dispatch" /\ \E r \in Riders : Claim(o, r)
                 \/ s \in Releases /\ Release(o)
              /\ UNCHANGED <<orderVars, payVars>>
           \/ s = "refund" /\ IssueRefund(o) /\ UNCHANGED <<orderVars, riders>>
        /\ UNCHANGED <<wf, handlers, reports, announced, faults>>

\* The second half of one that had begun.
Current(o, s) == IF At(o, s) /\ wf[o].begun THEN 1 ELSE 0

FinishLate(o) ==
    /\ \/ /\ Current(o, "confirm") = 0 /\ ConfirmCounted(o)
          /\ UNCHANGED payVars
       \/ /\ refunding[o] > Current(o, "refund") /\ MarkRefunded(o)
          /\ UNCHANGED orderVars
    /\ UNCHANGED <<riders, sagaVars>>

\* An execution of authorise() nobody waits for any longer, or the customer's.
ServeUnwaited(c) ==
    /\ ~(c.kind = "saga" /\ Current(c.order, "authorize") = 1
           /\ c.attempt = wf[c.order].attempt)
    /\ AuthoriseStep(c)
    /\ UNCHANGED <<orderVars, riders, sagaVars>>

\* POST /payments for an order of one's own, under a key of one's own.
PayManually(c) ==
    /\ c.kind = "manual" /\ c.order \in ManualPayers /\ Exists(c.order) /\ faults = 0
    /\ SendAuth(c)
    /\ UNCHANGED <<orderVars, riders, sagaVars>>

-----------------------------------------------------------------------------
\* The workers, the services and the timers, for one order.
Progress(o) ==
    \/ CreateOrder(o) \/ Publish(o) \/ TransitionOrder(o) \/ CountOnRail(o) \/ JoinRail(o)
    \/ SendAuthorize(o) \/ ServeAuthorize(o) \/ AuthorizeAnswered(o)
    \/ KitchenAnswered(o) \/ KitchenTimer(o) \/ ReadDecision(o)
    \/ DispatchRider(o) \/ RiderSignalled(o) \/ DeliveryTimer(o) \/ ReadReport(o)
    \/ ReleaseRider(o) \/ SendRefund(o) \/ RefundAnswered(o)

\* Customers, kitchens and riders, and the requests that run beside a workflow.
Environment ==
    \/ \E o \in Orders :
          \/ Checkout(o) \/ FinishLate(o)
          \/ \E d \in Decision : KitchenClicks(o, d)
          \/ \E g \in ReportStage : RiderReports(o, g)
    \/ \E h \in handlers : HandlerDecides(h) \/ HandlerPublishes(h)
    \/ \E x \in reports : RecordReport(x) \/ SignalReport(x)
    \/ \E q \in late : ExecuteLate(q)
    \/ \E c \in AuthCall : ServeUnwaited(c) \/ PayManually(c)

Faults ==
    \/ \E o \in Orders : LoseAttempt(o) \/ CrashPayment(o)
    \/ \E h \in handlers : LoseDecision(h)
    \/ \E x \in reports : LoseReport(x)

Next == (\E o \in Orders : Progress(o)) \/ Environment \/ Faults

\* Temporal runs what is runnable, services answer what reaches them, Kafka
\* takes events in the end, and durable timers fire.  Nothing is assumed of
\* customers, kitchens, riders or requests nobody waits for.
Fairness == \A o \in Orders : WF_vars(Progress(o))

SagaSpec == SagaInit /\ [][Next]_vars
FairSaga == SagaSpec /\ Fairness

-----------------------------------------------------------------------------
(* What the saga must never get wrong.                                     *)

HasEntered(o, s) == \E i \in 1..Len(trail[o]) : trail[o][i].new = s

\* The refunds that have reached the gateway and are not on the row yet count
\* as money given back.
GivenBack(o) == payments[o].status = "refunded" \/ refunding[o] > 0

\* An order the kitchen, a rider or the customer sees beyond 'created' has been
\* paid for, and one that is 'delivered' was accepted by the kitchen, was
\* reported delivered by a rider it was assigned to, and is not refunded: no
\* retry, late request, timer or second click gets an order there by less.
ServedIsEarned ==
    \A o \in Orders :
        /\ HasEntered(o, "confirmed") => payments[o].status \in {"authorized", "refunded"}
        /\ orders[o].status = "delivered" =>
              /\ orders[o].decision = "accepted"
              /\ orders[o].reported = "delivered"
              /\ orders[o].rider # None
              /\ ~GivenBack(o)

\* A saga that runs to its end leaves the order and the money in agreement:
\* delivered and charged, cancelled and refunded, or flagged for a person.
FinishedIsSettled ==
    \A o \in Orders : At(o, "finished") =>
        \/ orders[o].status = "delivered" /\ payments[o].status = "authorized"
        \/ orders[o].status = "cancelled" /\ payments[o].status = "refunded"
        \/ orders[o].status = "compensation_failed"

\* The answer the workflow acts on is the one the order holds, whichever of two
\* clicks came first and whether a handler or the timer's read brought it.
DecisionAgrees ==
    \A o \in Orders : wf[o].decision # "none" => wf[o].decision = orders[o].decision

\* From the claim until a release is asked for, the rider the saga names is the
\* one who holds the order, so it is that rider's reports that are let through.
CarrierHolds ==
    \A o \in Orders :
        wf[o].pc \in RiderSteps \ ({"dispatch"} \cup Releases) => riders[wf[o].rider].order = o

\* Kafka holds no event about something that did not happen: a publish is a
\* step of its own, and the transition before it may have changed nothing.  An
\* order announced as undone is undone, though perhaps by the other of the two
\* ways: a late request may have got there first.
AnnouncedHappened ==
    \A o \in Orders : \A e \in announced[o] :
        CASE e = "kitchen.decided"    -> orders[o].decision # "none"
          [] e = "payment.authorized" -> charges[o] = 1
          [] e = "payment.refunded"   -> payments[o].status = "refunded"
          [] e \in Undone             -> orders[o].status \in Undone
          [] OTHER                    -> HasEntered(o, e)

\* What an outsider sees of the orders.
Why(o) == IF orders[o].status \notin Undone THEN "none"
          ELSE IF wf[o].reason = "none" THEN "payment" ELSE "saga"

Stages == [o \in Orders |-> orders[o].status]
Answers == [o \in Orders |-> orders[o].decision]
Moneys == [o \in Orders |-> CASE payments[o].status = "authorized" -> "taken"
                              [] payments[o].status = "refunded"   -> "returned"
                              [] OTHER                             -> "kept"]
Causes == [o \in Orders |-> Why(o)]

Lifecycle == INSTANCE OrderLifecycle
    WITH stage <- Stages, answer <- Answers, money <- Moneys, cause <- Causes

\* The saga implements the lifecycle it promises: through every retry, late
\* request and race an order moves on only once it is paid for and accepted, a
\* refund is final and never given for a delivery, and what is cancelled for
\* another reason than its payment has been refunded first.
KeepsLifecycle == Lifecycle!Life

\* Whatever reached the trail was published by the time the saga finished, if
\* nothing was lost on the way.
HistoryIsPublished ==
    faults = 0 =>
        \A o \in Orders : At(o, "finished") \/ At(o, "declined") =>
            \A i \in 1..Len(trail[o]) : trail[o][i].new \in announced[o]

\* Every checkout comes to an end: no wait without a timer, no retry for ever.
CheckoutEnds ==
    \A o \in Orders : At(o, "create") ~> wf[o].pc \in Ends

\* While nothing is lost, money the saga took ends in a delivery or is given
\* back, ...
ChargeIsSettled ==
    \A o \in Orders : payments[o] = [status |-> "authorized", key |-> "saga"] ~>
        orders[o].status = "delivered" \/ payments[o].status = "refunded" \/ faults > 0

\* ... and a claimed rider is free again.
RiderComesBack ==
    \A o \in Orders : Holding(o) # {} ~> Holding(o) = {} \/ faults > 0
=============================================================================
