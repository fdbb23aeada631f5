----------------------------- MODULE OrderStore -----------------------------
(***************************************************************************)
(* The Order Service's two tables, `orders` and `order_tracking_logs`, and *)
(* the statements its repository runs on them.  Each action is one         *)
(* transaction of services/order/repositories/orders.py, except the entry  *)
(* into 'confirmed': that transaction counts the kitchen's rail and then   *)
(* updates the row without a lock, so under READ COMMITTED another         *)
(* transaction may commit between its two statements.                      *)
(*                                                                         *)
(* The module stands alone: OrdersNext lets any caller send any request at *)
(* any time, which is what at-least-once activities and late requests can  *)
(* amount to.  OrderSaga composes it with the workflows that call it.      *)
(***************************************************************************)
EXTENDS Identities, Integers, Sequences, FiniteSets

CONSTANTS Restaurants,   \* restaurant ids
          RestaurantOf,  \* the restaurant each order is placed with
          Capacity       \* how many undecided orders each kitchen's rail holds

ASSUME OrdersAssumption == RestaurantOf \in [Orders -> Restaurants]
ASSUME CapacityAssumption == Capacity \in [Restaurants -> Nat]

VARIABLES
    orders,     \* the orders row of each id; status "absent" when there is none
    trail,      \* the order's tracking log, oldest entry first
    counted     \* orders whose confirming transaction has counted the rail and
                \* found room, and has not run its UPDATE yet

orderVars == <<orders, trail, counted>>

-----------------------------------------------------------------------------
(* The enum types of db/order/init.sql; a Postgres enum compares by its    *)
(* declaration order, which the ranks below restate.                       *)

OrderStatus == {"created", "confirmed", "assigned", "picked_up", "delivered",
                "cancelled", "compensation_failed"}

Rank == [s \in OrderStatus \cup {"absent"} |->
           CASE s = "absent"    -> 0
             [] s = "created"   -> 1
             [] s = "confirmed" -> 2
             [] s = "assigned"  -> 3
             [] s = "picked_up" -> 4
             [] s = "delivered" -> 5
             [] s = "cancelled" -> 6
             [] s = "compensation_failed" -> 7]

Terminal == {"delivered", "cancelled", "compensation_failed"}
Undone == {"cancelled", "compensation_failed"}

Decision == {"accepted", "rejected"}

ReportStage == {"picked_up", "delivered"}
StageRank == [g \in ReportStage \cup {"none"} |->
                CASE g = "none" -> 0 [] g = "picked_up" -> 1 [] g = "delivered" -> 2]

OrderRow == [status   : OrderStatus \cup {"absent"},
             decision : Decision \cup {"none"},
             reported : ReportStage \cup {"none"},
             rider    : Riders \cup {None}]

TrailEntry == [old : OrderStatus \cup {"absent"}, new : OrderStatus]

AbsentRow == [status |-> "absent", decision |-> "none",
              reported |-> "none", rider |-> None]

Exists(o) == orders[o].status # "absent"

\* Broken variant: the queue lists whatever is undecided.
OnRailUndecided(o) == Exists(o) /\ orders[o].decision = "none"

\* ON_RAIL: confirmed, and the kitchen has not answered.  It is the admin's
\* queue and the capacity count both.
OnRail(o) == orders[o].status = "confirmed" /\ orders[o].decision = "none"

RailOf(k) == {o \in Orders : RestaurantOf[o] = k /\ OnRail(o)}

RailFull(o) == Cardinality(RailOf(RestaurantOf[o])) >= Capacity[RestaurantOf[o]]

\* The last status on the trail, which the INSERT copies into old_status.
LastEntered(o) == IF trail[o] = <<>> THEN "absent" ELSE trail[o][Len(trail[o])].new

\* What append_log writes when the order enters a status.
Logged(o, new) == [trail EXCEPT ![o] = Append(@, [old |-> LastEntered(o), new |-> new])]

-----------------------------------------------------------------------------
OrdersInit ==
    /\ orders = [o \in Orders |-> AbsentRow]
    /\ trail = [o \in Orders |-> <<>>]
    /\ counted = {}

\* create(): the insert that wins, its advisory capacity check and its first
\* trail entry.  A full rail raises AtCapacity and a second insert finds the
\* row, and neither writes anything.
CanInsert(o) == ~Exists(o) /\ ~RailFull(o)

InsertOrder(o) ==
    /\ CanInsert(o)
    /\ orders' = [orders EXCEPT ![o].status = "created"]
    /\ trail' = Logged(o, "created")
    /\ UNCHANGED counted

\* Broken variant: the guard forgets that an order only moves forward.
CanMoveEitherWay(o, new) ==
    Exists(o) /\ orders[o].status # new /\ orders[o].status \notin Terminal

\* The WHERE clause of TRANSITION_ORDER.
CanMove(o, new) ==
    /\ Exists(o)
    /\ orders[o].status # new
    /\ orders[o].status \notin Terminal
    /\ new \in Undone \/ Rank[new] > Rank[orders[o].status]

\* Broken variant: no COALESCE.
CarrierGiven(o, r) == r

\* COALESCE(%(rider_id)s, rider_id)
Carrier(o, r) == IF r # None THEN r ELSE orders[o].rider

Moved(o, new, r) ==
    [orders EXCEPT ![o].status = new, ![o].rider = Carrier(o, r)]

\* transition() with no capacity limit: the compare-and-set and its trail
\* entry commit together, and a compare-and-set that matches nothing writes
\* nothing.
Transition(o, new, r) ==
    /\ IF CanMove(o, new)
         THEN orders' = Moved(o, new, r) /\ trail' = Logged(o, new)
         ELSE UNCHANGED <<orders, trail>>
    /\ UNCHANGED counted

\* transition(capacity_limit = ...), first statement: COUNT_ON_RAIL_FOR_ORDER
\* finds room.  It counts the order itself if that is on the rail already.  A
\* full rail raises AtCapacity, having written nothing.
CountRail(o) ==
    /\ ~RailFull(o)
    /\ counted' = counted \cup {o}
    /\ UNCHANGED <<orders, trail>>

\* Broken variant: the trail entry is written whether or not the row moved.
ConfirmCountedLogsAnyway(o) ==
    /\ o \in counted
    /\ counted' = counted \ {o}
    /\ orders' = IF CanMove(o, "confirmed") THEN Moved(o, "confirmed", None) ELSE orders
    /\ trail' = Logged(o, "confirmed")

\* Its second statement, whatever has been committed since the first.
ConfirmCounted(o) ==
    /\ o \in counted
    /\ counted' = counted \ {o}
    /\ IF CanMove(o, "confirmed")
         THEN orders' = Moved(o, "confirmed", None) /\ trail' = Logged(o, "confirmed")
         ELSE UNCHANGED <<orders, trail>>

\* decide_kitchen(): only an order still on the rail takes an answer.
DecideKitchen(o, d) ==
    /\ orders' = IF OnRail(o) THEN [orders EXCEPT ![o].decision = d] ELSE orders
    /\ UNCHANGED <<trail, counted>>

\* record_rider_report(): forward only, and whatever the order's status is.
RecordRiderReport(o, g) ==
    /\ orders' = IF Exists(o) /\ StageRank[g] > StageRank[orders[o].reported]
                   THEN [orders EXCEPT ![o].reported = g]
                   ELSE orders
    /\ UNCHANGED <<trail, counted>>

OrdersNext ==
    \E o \in Orders :
        \/ InsertOrder(o)
        \/ \E new \in OrderStatus, r \in Riders \cup {None} : Transition(o, new, r)
        \/ CountRail(o)
        \/ ConfirmCounted(o)
        \/ \E d \in Decision : DecideKitchen(o, d)
        \/ \E g \in ReportStage : RecordRiderReport(o, g)

OrdersSpec == OrdersInit /\ [][OrdersNext]_orderVars

-----------------------------------------------------------------------------
OrdersTypeOK ==
    /\ orders \in [Orders -> OrderRow]
    /\ trail \in [Orders -> Seq(TrailEntry)]
    /\ counted \subseteq Orders

\* The audit trail tells the order's whole story and nothing else: it is empty
\* exactly while the order does not exist, it ends in the order's status, and
\* its entries chain.  So a replayed transition adds no entry, and a trail row
\* is never written for a status the row did not take.
TrailTellsStatus ==
    \A o \in Orders : LastEntered(o) = orders[o].status

\* Along the trail an order only moves forward, leaves no terminal status and
\* never enters a status twice, however many times a request for it is
\* executed and in whatever order late ones arrive.
TrailMovesForward ==
    \A o \in Orders : \A i \in 1..Len(trail[o]) :
        LET e == trail[o][i]
        IN  /\ Rank[e.old] < Rank[e.new]
            /\ e.old \notin Terminal
            /\ i > 1 => e.old = trail[o][i - 1].new

\* The kitchen can only have answered an order that stood on its rail, so an
\* answered order has been 'confirmed', and an unconfirmed one cannot be
\* accepted by a click that overtakes the confirmation.
AnsweredWasConfirmed ==
    \A o \in Orders :
        orders[o].decision # "none" =>
            \E i \in 1..Len(trail[o]) : trail[o][i].new = "confirmed"

\* No request takes back what the row has promised: a terminal status stays, a
\* kitchen's answer stays, a rider's report never walks back and an assignment
\* is never cleared.
RowNeverTakenBack ==
    \A o \in Orders :
        /\ orders[o].status \in Terminal => orders'[o].status = orders[o].status
        /\ orders[o].decision # "none" => orders'[o].decision = orders[o].decision
        /\ StageRank[orders'[o].reported] >= StageRank[orders[o].reported]
        /\ orders[o].rider # None => orders'[o].rider # None

NeverTakenBack == [][RowNeverTakenBack]_orderVars
=============================================================================
