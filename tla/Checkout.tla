------------------------------ MODULE Checkout ------------------------------
(***************************************************************************)
(* POST /orders under one idempotency key: the requests a customer sends   *)
(* while the first of them may still be under way, the runs of the one     *)
(* workflow they all name, and what each of them is answered.              *)
(*                                                                         *)
(* A request starts a run or joins the open one and waits for its result,  *)
(* but no longer than CHECKOUT_DEADLINE_SECONDS; the run goes on without   *)
(* it.  A request that finds the last run closed starts another, whose     *)
(* insert finds the order.                                                 *)
(***************************************************************************)
EXTENDS Pricing

CONSTANTS MaxCheckouts, \* bound: how often the customer sends the checkout
          Menus,        \* the menus the restaurant may have, by name
          MenuOf,       \* ... and what they say
          Carts,        \* the carts that may be asked for
          NoCart,
          MaxAttempts,  \* STATE_POLICY.maximum_attempts
          MaxChanges    \* bound: how often the menu changes

ASSUME CheckoutAssumption ==
    /\ NoCart \notin Carts
    /\ MaxCheckouts \in Nat /\ MaxAttempts \in Nat \ {0} /\ MaxChanges \in Nat

\* The schemas: base_price > 0, extra_price >= 0, quantity > 0.
ASSUME CartsArePriced ==
    \A m \in Menus, cart \in Carts :
        CanBeOrdered(MenuOf[m], cart) => Total(MenuOf[m], cart) \in Nat

Checkouts == 1..MaxCheckouts

VARIABLES
    checkouts, \* the requests, by the order they are sent in
    runs,      \* the runs of order-<id>, one after the other
    row,       \* the order's row
    charged,   \* what the card has been charged
    money,     \* "kept", "taken" or "returned"
    menu,      \* the menu's name, now
    changes

checkoutVars == <<checkouts, runs, row, charged, money, menu, changes>>

Status == {"absent", "created", "confirmed", "delivered", "cancelled", "compensation_failed"}

\* A run's result: the order, created by it or not, or a failure's type.
Failure == {"OrderCreateRejected", "OrderCreateConflict", "http_404", "PaymentDeclined",
            "KitchenAtCapacity", "none"}
Result == {"open", "created", "existed"} \cup Failure

StatusCode == {200, 201, 402, 404, 409, 422, 503}   \* and 0 for no answer yet

Sent == [at : {"none", "waiting", "answered"}, run : Nat, starts : {"nothing", "run"},
         code : StatusCode \cup {0}]
Run == [at : {"creating", "publishing", "paying", "cancelling", "confirming", "refunding",
              "starting", "closed"},
        cart : Carts, attempt : 1..MaxAttempts, result : Result]
Row == [status : Status, total : Nat, cart : Carts \cup {NoCart}, menu : Menus]

CheckoutInit ==
    /\ checkouts = [q \in Checkouts |-> [at |-> "none", run |-> 0, starts |-> "nothing", code |-> 0]]
    /\ runs = <<>>
    /\ menu \in Menus
    /\ row = [status |-> "absent", total |-> 0, cart |-> NoCart, menu |-> menu]
    /\ charged = 0 /\ money = "kept" /\ changes = 0

Placed == row.status # "absent"
OpenRuns == {n \in DOMAIN runs : runs[n].at # "closed"}

-----------------------------------------------------------------------------
(* The requests.                                                           *)

NewRun(cart) == [at |-> "creating", cart |-> cart, attempt |-> 1, result |-> "open"]

\* The next request.
IsNext(q) == checkouts[q].at = "none" /\ \A p \in 1..(q - 1) : checkouts[p].at # "none"

Waits(q, n, starts) ==
    checkouts' = [checkouts EXCEPT ![q] = [@ EXCEPT !.at = "waiting", !.run = n, !.starts = starts]]

IsTold(q, code) ==
    checkouts' = [checkouts EXCEPT ![q] = [@ EXCEPT !.at = "answered", !.code = code]]

\* start_and_wait.  The cart of a request that joins a run is not looked at.
Send(q, cart) ==
    /\ IsNext(q)
    /\ IF OpenRuns # {}
         THEN Waits(q, Len(runs), "nothing") /\ UNCHANGED runs
         ELSE Waits(q, Len(runs) + 1, "run") /\ runs' = Append(runs, NewRun(cart))
    /\ UNCHANGED <<row, charged, money, menu, changes>>

\* Temporal cannot be reached.
SendFails(q) ==
    /\ IsNext(q) /\ IsTold(q, 503)
    /\ UNCHANGED <<runs, row, charged, money, menu, changes>>

\* Broken variant: whoever waited for the run that made the order has made it.
CodeOfRun(starts, result) ==
    CASE result = "created" -> 201
      [] result = "existed" -> 200
      [] OTHER -> 409

\* create_order and _raise_mapped: a failure without a type of its own is a 409.
Code(starts, result) ==
    CASE result = "created"             -> IF starts = "run" THEN 201 ELSE 200
      [] result = "existed"             -> 200
      [] result = "OrderCreateRejected" -> 422
      [] result = "http_404"            -> 404
      [] result = "PaymentDeclined"     -> 402
      [] OTHER                          -> 409

Answer(q) ==
    /\ checkouts[q].at = "waiting" /\ runs[checkouts[q].run].at = "closed"
    /\ IsTold(q, Code(checkouts[q].starts, runs[checkouts[q].run].result))
    /\ UNCHANGED <<runs, row, charged, money, menu, changes>>

Deadline(q) ==
    /\ checkouts[q].at = "waiting" /\ runs[checkouts[q].run].at # "closed"
    /\ IsTold(q, 503)
    /\ UNCHANGED <<runs, row, charged, money, menu, changes>>

-----------------------------------------------------------------------------
(* The runs.                                                               *)

Goes(n, at) == runs' = [runs EXCEPT ![n].at = at]
Closes(n, result) == runs' = [runs EXCEPT ![n].at = "closed", ![n].result = result]

\* The attempt's answer is lost, or it never arrived; the next one follows.
Retries(n) ==
    \/ runs[n].attempt < MaxAttempts /\ runs' = [runs EXCEPT ![n].attempt = @ + 1]
    \/ runs[n].attempt = MaxAttempts /\ Closes(n, "none")

\* INSERT, or the row the unique index says is there.
InsertOrFind(n) ==
    row' = IF Placed THEN row
           ELSE [status |-> "created", total |-> Total(MenuOf[menu], runs[n].cart),
                 cart |-> runs[n].cart, menu |-> menu]

\* Broken variant: a run goes on with an order it did not make.
CreatedOrFound(n) == Goes(n, "publishing")

\* The activity's answer: a run stops at an order it did not make.
Created(n) == IF Placed THEN Closes(n, "existed") ELSE Goes(n, "publishing")

\* create_order_internally: the menu, the cart's price, the customer and the
\* restaurant, and then the row; a kitchen that is full already takes no new one.
CreateOrder(n) ==
    /\ runs[n].at = "creating"
    /\ \/ CanBeOrdered(MenuOf[menu], runs[n].cart) /\ InsertOrFind(n) /\ Created(n)
       \/ CanBeOrdered(MenuOf[menu], runs[n].cart) /\ InsertOrFind(n) /\ Retries(n)
       \/ Retries(n) /\ UNCHANGED row
       \/ ~CanBeOrdered(MenuOf[menu], runs[n].cart) /\ Closes(n, "OrderCreateRejected") /\ UNCHANGED row
       \/ Closes(n, "http_404") /\ UNCHANGED row
       \/ ~Placed /\ Closes(n, "OrderCreateConflict") /\ UNCHANGED row
    /\ UNCHANGED <<checkouts, charged, money, menu, changes>>

\* Retried until Kafka takes it.
PublishCreated(n) ==
    /\ runs[n].at = "publishing" /\ Goes(n, "paying")
    /\ UNCHANGED <<checkouts, row, charged, money, menu, changes>>

\* PaymentWorkflow: the order's own total is what the card is charged.  The last
\* attempt may charge it and be lost.
Charge(n) ==
    /\ charged' = charged + row.total /\ money' = "taken"

Pay(n) ==
    /\ runs[n].at = "paying"
    /\ \/ Charge(n) /\ Goes(n, "confirming")
       \/ Charge(n) /\ Goes(n, "cancelling")
       \/ Goes(n, "cancelling") /\ UNCHANGED <<charged, money>>
    /\ UNCHANGED <<checkouts, row, menu, changes>>

\* _cancel; if its attempts run out the run fails with no type of its own.
CancelUnpaid(n) ==
    /\ runs[n].at = "cancelling"
    /\ \/ row' = [row EXCEPT !.status = "cancelled"] /\ Closes(n, "PaymentDeclined")
       \/ Closes(n, "none") /\ UNCHANGED row
    /\ UNCHANGED <<checkouts, charged, money, menu, changes>>

\* The order joins the rail, or the rail is full or not to be asked.
Confirm(n) ==
    /\ runs[n].at = "confirming"
    /\ \/ row' = [row EXCEPT !.status = "confirmed"] /\ Goes(n, "starting")
       \/ Goes(n, "refunding") /\ UNCHANGED row
    /\ UNCHANGED <<checkouts, charged, money, menu, changes>>

\* Broken variant: the customer is told first and refunded later.
CompensateLater(n) ==
    /\ runs[n].at = "refunding"
    /\ Closes(n, "KitchenAtCapacity")
    /\ UNCHANGED <<checkouts, row, charged, money, menu, changes>>

\* _compensate: refunded and cancelled, or flagged; or it fails, and the run
\* with it.
Compensate(n) ==
    /\ runs[n].at = "refunding"
    /\ \/ /\ row' = [row EXCEPT !.status = "cancelled"] /\ money' = "returned"
          /\ Closes(n, "KitchenAtCapacity")
       \/ /\ row' = [row EXCEPT !.status = "compensation_failed"] /\ UNCHANGED money
          /\ Closes(n, "KitchenAtCapacity")
       \/ Closes(n, "none") /\ UNCHANGED <<row, money>>
    /\ UNCHANGED <<checkouts, charged, menu, changes>>

\* FulfillmentWorkflow is started and the run's result is the order ...
StartFulfillment(n) ==
    /\ runs[n].at = "starting" /\ Closes(n, "created")
    /\ UNCHANGED <<checkouts, row, charged, money, menu, changes>>

\* ... which goes on from there.
Fulfill ==
    /\ row.status = "confirmed" /\ OpenRuns = {}
    /\ \/ row' = [row EXCEPT !.status = "delivered"] /\ UNCHANGED money
       \/ row' = [row EXCEPT !.status = "cancelled"] /\ money' = "returned"
       \/ row' = [row EXCEPT !.status = "compensation_failed"] /\ UNCHANGED money
    /\ UNCHANGED <<checkouts, runs, charged, menu, changes>>

ChangeMenu ==
    /\ changes < MaxChanges
    /\ menu' \in Menus \ {menu} /\ changes' = changes + 1
    /\ UNCHANGED <<checkouts, runs, row, charged, money>>

RunStep(n) ==
    \/ CreateOrder(n) \/ PublishCreated(n) \/ Pay(n) \/ CancelUnpaid(n)
    \/ Confirm(n) \/ Compensate(n) \/ StartFulfillment(n)

CheckoutNext ==
    \/ \E q \in Checkouts : \/ \E cart \in Carts : Send(q, cart)
                           \/ SendFails(q) \/ Answer(q) \/ Deadline(q)
    \/ \E n \in DOMAIN runs : RunStep(n)
    \/ Fulfill \/ ChangeMenu

CheckoutSpec == CheckoutInit /\ [][CheckoutNext]_checkoutVars

-----------------------------------------------------------------------------
CheckoutTypeOK ==
    /\ checkouts \in [Checkouts -> Sent] /\ runs \in Seq(Run)
    /\ row \in Row /\ charged \in Nat /\ money \in {"kept", "taken", "returned"}
    /\ menu \in Menus /\ changes \in 0..MaxChanges

\* However often and however closely together a customer sends one checkout,
\* one request at most is told that it placed the order; and it is told so of
\* an order that is paid for and has been on the kitchen's rail.
PlacedOnce ==
    /\ Cardinality({q \in Checkouts : checkouts[q].code = 201}) <= 1
    /\ \A q \in Checkouts : checkouts[q].code = 201 =>
          /\ checkouts[q].starts = "run" /\ money # "kept"
          /\ row.status \notin {"absent", "created"}

\* A refusal is an end: who is told that the payment was declined has a
\* cancelled order, and who is told that the kitchen is full after paying has
\* the money back or a flagged order, even if told so only on joining the run.
RefusedIsUndone ==
    \A q \in Checkouts : checkouts[q].at = "answered" /\ checkouts[q].run # 0 =>
        LET result == runs[checkouts[q].run].result
        IN  /\ checkouts[q].code = 402 => row.status = "cancelled"
            /\ checkouts[q].code = 409 /\ result = "KitchenAtCapacity" =>
                  \/ row.status = "cancelled" /\ money = "returned"
                  \/ row.status = "compensation_failed"

\* The card is charged once, and what the order's cart cost by the menu its row
\* was written from, whatever the menu says later and whatever other cart a
\* repeated request brings.
ChargedIsTheTotal ==
    money # "kept" =>
        /\ charged = Total(MenuOf[row.menu], row.cart)
        /\ CanBeOrdered(MenuOf[row.menu], row.cart)
=============================================================================
