# SmartFoodOps in TLA+

SmartFoodOps is a food-ordering back end: ten Python services, each with a
PostgreSQL database of its own, tied together by HTTP calls, by Temporal
workflows (the *order saga*), and by events on Kafka. This directory holds TLA+
models of it, the TLC configurations that check them, and proofs for TLAPS.
Source paths below are relative to `src/services/` unless they say otherwise.

Checking, from this directory:

    tlc -workers 2 -config SagaFaulty.cfg MCOrderSaga     # a run
    tlapm StoreProofs.tla                                 # a module's proofs

## 1. The system

| part | state it keeps | operations | talks to |
|---|---|---|---|
| Order Service, database (`order/repositories`) | `orders` row: status, kitchen decision, rider's report, rider; `order_tracking_logs` | create, transition (conditional UPDATE + log line), confirm with a count of the kitchen's rail, decide, record a report | called by the Orchestrator's activities and the Rider Service |
| Order Service, API (`order/apis`, `order/pricing.py`) | none | checkout (price the cart, start a workflow and wait), accept / reject (Update), tracking, explain context, reviews | Temporal; Restaurant, Menu, User |
| Payment Service (`payment`) | `payments` row per order, with an idempotency key | `authorise()`: look up, insert pending, charge, mark; refund: look up, refund, mark; `POST /payments` | the gateway (a mock) |
| Rider Service (`rider`) | `riders` row: free, off shift, busy with an order; Redis GEO set of positions | claim the nearest free rider, release, shift switch, position, delivery reports | Order Service, Temporal (signals) |
| Orchestrator (`orchestrator`) | Temporal's: one Order, Payment, Fulfillment, Rider and Compensation workflow per order | activities over HTTP with retry policies; timers; an Update from the kitchen, signals from the rider | Order, Payment, Rider; Kafka |
| User Service (`user`) | users, roles; refresh tokens in Redis; the RBAC policy snapshot in the process | login, refresh (GETDEL), logout, grant and revoke roles; resolve a request's permissions | the gateway's `auth_request` |
| Restaurant Service | `restaurants` row | CRUD | User |
| Menu Service (`menu`) | the menu tree in PostgreSQL; a Redis copy with a TTL | upsert in one transaction, then invalidate and announce; read through the copy, by a query per level | Kafka, Restaurant |
| Analytics (`analytics`) | projections, `processed_events`; counters in memory | consume, deduplicate, project, commit the offset, dead-letter | Kafka |
| Notification (`notification`) | none | consume three event types, look up the customer, enqueue SMS and e-mail | Kafka, RabbitMQ |
| AI, ingestion (`ai/ingestion`) | `menu_item_documents`, processed events; `assistant_interactions` | bring a restaurant's documents in line with its menu (event consumer and start-up backfill); credit orders to answers | Kafka, Menu |
| AI, assistant (`ai/retrieval`, `ai/assistant`, `ai/llm`) | a conversation per customer in Redis | route a question, search live menus, explain an order, stream the model's words, check them, remember and log | Menu, Order, Rider, the model's provider |
| shared chassis (`common`) | none of its own | HTTP client and its failure mapping, Temporal client, Kafka gateway with deterministic event ids, money, delivery estimate | everything |

How an order goes. The checkout starts OrderWorkflow and waits for its answer.
The workflow creates the order, has PaymentWorkflow authorise the payment,
confirms the order if the kitchen's rail has room, and starts
FulfillmentWorkflow. That waits for the kitchen's answer (an Update, with a
timer behind it), then runs RiderWorkflow: claim a rider, assign, wait for the
rider's two reports (signals, each with a timer), deliver, release. Whatever
fails after the payment goes to CompensationWorkflow: refund, then cancel; an
order whose refund fails for good is flagged `compensation_failed`. Every
transition is written by one activity and published by the next.

What is hard about it:

* every activity is an HTTP request that can be lost before or after it was
  executed, is retried, and may be executed after its caller gave up;
* two statements with no lock between them (count the rail, then join it; count
  the roles, then delete one), and sequences of autocommitted statements with a
  charge in the middle (`authorise()`), that a crash can cut anywhere;
* people race timers: the kitchen's answer and the rider's report are written
  to a row and told to a workflow by two different paths, and the timer reads
  the row;
* three databases that must agree about one order although no transaction
  spans two of them;
* copies that are read while what they copy changes: a menu read level by level,
  its copy in Redis, its documents in the search index, the policy snapshot, an
  order's row and trail told to a customer by a language model.

What makes each part correct:

* *orders*: the trail of status changes is a true and forward history, and
  facts (decision, report, terminal status) are never taken back, whatever
  order requests arrive in;
* *payments*: one charge per order, whoever asks and however often; a refund is
  final;
* *riders*: one rider per order, held until released;
* *the saga*: it ends; at its end the order, the money and the rider agree; no
  order is served without payment, acceptance and a delivery report; Kafka
  tells only what happened, and all of it;
* *checkout*: placed once however often it is sent; a refusal is an end; the
  price charged is the price of the cart;
* *consumers*: each event counts once, and offsets never run ahead of effects;
* *sessions and policy*: a login lives on in one token; a revoked role fades; no
  request is judged by an older policy than one before it;
* *menus and their index*: never a mixture of two menus; stale copies go; the
  index at rest tells the current menu;
* *the assistant*: what a customer is left with is true of the order and stays
  true; memory holds only checked answers; an order is credited once; a search
  returns the best of what its index listed, and silence means absence only when it is.

## 2. Modules

| module | models | state | extends |
|---|---|---|---|
| `Identities` | the identities the parts share: orders, riders, `None` | | |
| `OrderStore` | `order/repositories/orders.py`, `sql.py`, the endpoints over them | `orders`, `trail`, `counted` | `Identities` |
| `PaymentStore` | `payment/authorise.py`, `apis/saga.py`, `gateway.py`, the repository | `payments`, `auth`, `charges`, `refunding` | `Identities` |
| `RiderFleet` | `rider/repositories/riders.py`, dispatch | `riders` | `Identities` |
| `OrderLifecycle` | what an order promises an outsider: abstract, implemented by `OrderSaga` | `stage`, `answer`, `money`, `cause` | |
| `OrderSaga` | the five workflows, their activities and policies, the handlers, lost and late requests | the stores' and `wf`, `handlers`, `reports`, `late`, `announced`, `faults` | the three stores |
| `EventConsumers` | `analytics/consumer.py` and `repositories/projections.py`, `notification/consumer.py`, the order topic | `row`, `topic`, `committed`, `position`, `loop`, `processed`, `projection`, `counters`, `texts`, `mails`, `dlq`, `passed`, `failures` | `Identities` |
| `Pricing` | `order/pricing.py`: operators, no state | | |
| `Checkout` | `order/apis/checkout.py`, `SagaClient.start_and_wait`, `order/apis/internal_orders.py`, OrderWorkflow as the checkout meets it | `checkouts`, `runs`, `row`, `charged`, `money`, `menu`, `changes` | `Pricing` |
| `Sessions` | `user/apis`, `repositories/sessions.py`, `repositories/users.py` | `held`, `session`, `request`, `access`, `revoking`, `raced` | |
| `PolicyCache` | `user/policy.py`, `repositories/policy.py` | `policy`, `snapshot`, `lock`, `thread` | |
| `MenuStore` | `menu/apis/menus.py`, `repositories/menus.py`, `repositories/cache.py` | `version`, `publish`, `reading`, `cache`, `topic` | |
| `MenuIngestion` | `ai/ingestion/menu_ingestion.py`, `ai/repositories/documents.py` | the store's and `ingest`, `documents`, `processed`, `deadLetters`, `committed`, ... | `MenuStore` |
| `Explanation` | `ai/assistant/order_explainer.py`, `ai/llm/guardrails.py`: operators, no state | | `OrderLifecycle` |
| `Attribution` | `ai/ingestion/attribution.py`, `ai/repositories/interactions.py` | `rows`, `converted`, `topic`, `offset`, `workers`, `counted`, `restarts` | `OrderLifecycle` |
| `Assistant` | `ai/assistant/agents/graph.py`, `ai/apis/assistant.py`, `ai/assistant/memory.py`, `order/apis/internal_explain.py` | `turns`, `memory`, and those of the two above | `Explanation`, `Attribution` |
| `Retrieval` | `ai/retrieval/retriever.py`, `rag_context.py`, `ai/repositories/vectors.py` | `near`, `live`, `search`, `dishes`, `places`, `context` | |
| `SagaClaims`, `ConsumerClaims` | nothing: what the repository says and the code does not keep | | `OrderSaga`, `EventConsumers` |
| `MCStores`, `MCOrderSaga`, `MCEventConsumers`, `MCMenus`, `MCFrontDoor`, `MCAssistant` | nothing: instances for TLC | | |
| `StoreProofs`, `OrderSagaProofs`, `EventConsumersProofs`, `CheckoutProofs`, `AccessProofs`, `MenuProofs`, `AssistantProofs`, `RetrievalProofs` | nothing: theorems | | the modules they are about, `TLAPS` |

**OrderStore.** `orders[o]` is the row (`status = "absent"` when there is none),
`trail[o]` its rows of `order_tracking_logs` in order, `counted` the orders
whose confirmation has counted the rail and has not yet run its UPDATE. An
action is one statement, or several of one transaction: `InsertOrder`
(`create`), `Transition` (the CTE that updates the row if the new status may
follow the old, and logs it only if it did), `CountRail` and `ConfirmCounted`
(the two statements of a confirmation), `DecideKitchen`, `RecordRiderReport`.
In `OrdersSpec` any request may come at any time, repeated or out of order:
nothing is assumed of the callers. Line items, addresses and totals are left
out; no condition reads them.

**PaymentStore.** `authorise()` runs on autocommit, so each execution is a
process with a step per statement: `auth[c]` is how far the execution `c` has
come. `c` names the order, the key's kind (the saga's, derived from the order,
or the customer's own, from `POST /payments`) and the attempt. `charges[o]`
counts the authorisations the gateway has been asked for. `CrashAuth` ends an
execution between any two steps. A refund is `IssueRefund` (read the row, call
the gateway) and `MarkRefunded` (the conditional UPDATE), with `refunding[o]` of
them in between.

**RiderFleet.** A row is `[available, order]`. `Claim(o, r)` is
`_CLAIM_NEAREST` (the nearest of the free: any of them, positions are left out)
with `dispatch`'s first look for a rider who holds the order already, `Release`,
`SetAvailability`.

**OrderSaga.** A parent workflow awaits its child, so an order's five workflows
are one thread of control and `wf[o].pc` is the activity or wait it stands at;
the other fields of `wf[o]` are the workflows' own variables. An activity that
is one statement is one action; `confirm`, `authorize` and `refund` are several,
with `begun` in between. The publish that follows a transition is a step of its
own. Beside the workflow run: `handlers`, the executions of the kitchen's Update
(decide over HTTP, publish, set the variable `run()` waits for), `reports`, the
riders' calls (record, then signal), and `late`, the requests whose caller gave
up. `LoseAttempt` gives an attempt up in every way at once: the request goes to
`late`, from where `ExecuteLate` may execute it at once, later or never, and the
workflow retries (`AttemptFails`) or, attempts used up, does what its code does
with the failure (`GivenUp`). `announced[o]` is a set because event ids are
deterministic (`common/kafka.py`) and consumers drop the second of a pair.

**OrderLifecycle.** The abstract specification: what an order is to whoever
looks at it from outside. Its stage moves on one step at a time, into the
kitchen and beyond only once it is paid for and accepted; the kitchen answers
once, while the order is on its rail; money is returned only for an order that
is being undone and never for one delivered; an order is cancelled either for
its payment, or by the saga after its money was returned, or flagged. The
refinement mapping (`OrderSaga.Lifecycle`) takes the stage and the answer from
the order's row, the money from the payment's row, and the cause from the
workflow's reason. `KeepsLifecycle` is checked by TLC and proved. The assistant
is modelled on top of this module, not of the saga: what is true of it holds of
any order service that keeps the lifecycle.

**EventConsumers.** `topic` is one partition of the order topic: events are keyed
by order, so partitions never meet. `row` is the Order Service's status of each
order (`Enter`). A message is an event, that is its id (an order and a type), with
the status it tells: `publish_order_event_activity` reads the row when it
publishes, so this need not be the status the event is named for (`Sends`).
`Publish` follows the order of the saga's workflows, but that an order published
as failing to be compensated may have been cancelled by a late attempt, or the
reverse; `Republish` is a retried or late activity, under the event id it had,
with the row as it read it. A message another producer garbled is `None`. Each consumer
is a loop with a step per await: `Connect` (from the committed offset), `Fetch`,
the handling, `Commit`. The analytics consumer's `Project` is the one transaction
that records the event id and moves the row of the projection to the status the
message tells (`Row`), with the counters, which go by the event's type, behind it; the
notification consumer enqueues (`Text`, then `Mail`). `HandlingFails` is the
loop's catch-all (log, go on with the next message), with or without the
transaction having gone through; `Disconnect` is its Kafka branch; `Crash` loses
the counters, which start-up seeds from the table. `passed` is a history
variable: the offsets that met an error of their own. A behaviour deploys one of
the two consumers, chosen in `Init`: they share the topic and nothing else.

**Checkout** and **Pricing.** `checkouts` are the requests a customer sends under
one idempotency key, `runs` the runs of the one workflow id they name.
`start_and_wait` starts a run or joins the open one and waits, not beyond
`CHECKOUT_DEADLINE_SECONDS` (`Deadline`: 503, and the run goes on). A run that
follows another meets the order its predecessor made (`InsertOrFind`) and closes
with `existed`. `Code` is the status `create_order` and `_raise_mapped` answer a
result with. A cart is priced by `Pricing` from the menu as it is at each
attempt; amounts are in cents, and `Total`, `Accepts` and `Surcharge` are what
`build_order_snapshot` computes and refuses. What the run does between the
payment and the end is `OrderSaga`'s; here it is as coarse as its caller sees.

**Sessions.** One account: the roles it holds, the refresh tokens that are live
and the login each continues, the requests under way with a step per call
(GETDEL, re-read the roles, store and sign; or the logout's read and delete), the
role claims of unexpired access tokens, and the two statements of a revocation.

**PolicyCache.** The snapshot by the policy each of its two halves was read from
(routes and grants are two queries), whether it is within its time, the lock, and
the threads that judge requests. `current` looks without the lock, again with it
(`LookAgain`), loads, or outlives a failed load.

**MenuStore** and **MenuIngestion.** A publish is a transaction that gives every
row a new id, so a level's rows are told by the publish they are of, and a read
is the sequence of these, a query per level (`LoadLevel`; `RowsBelow` is empty
once the ids above are gone). `cache` is the copy in Redis. An ingest is a thread
with a step per call; `Changes` is the difference its last step writes. Its two
threads share the process, so a restart takes both.

**Explanation** and **Assistant.** A text is the set of claims the guardrail's
checks can find in it, and `"words"` for the rest. `Passes` is
`check_explanation`, `check_history` or `verify_food_answer`; `Summary` and
`Fallback` are the rule-written texts, which nothing checks. The facts carry the
names of restaurants and dishes as the checks read them (`Naming`): none, plain
ones, or names in which a check finds a claim ("Too Late Diner"), so that a text
that uses them fails, the rules' own among them.
`ReadRow` and `ReadTrail` are the explain context's two reads, between which and
after which orders live on as `OrderLifecycle` lets them. `Say` streams any text
the model may produce; `Guard` checks and replaces it; then the exchange is saved
and the interaction logged, unless the customer has gone.

**Attribution.** Workers that each work from the group's committed offset, so
that two may hold one message. `LockRow` is the UPDATE's choice of a row with
SKIP LOCKED and NOT EXISTS, as seen from its own snapshot; `Convert` its commit
under the unique index.

**Retrieval.** The index is external: `AskIndex` lets it answer each pass with
any list of `DishLists` no longer than the pass's limit, since an HNSW scan is
approximate and its order relaxed (`vectors.py:24`), the second pass is a query of
its own, and documents come and go between. `near` is that answer, and a candidate
is told by its place in it. What is orderable of a restaurant is chosen when it is
read, so menus may change before every read; `live` is what was read, shared by
both passes. `ReadDishes` reads the next wave of restaurants, in the order of
their first candidates, and stops as the code does (`Ahead` is what the stable
sort by score puts before a dish: a better score, then the restaurant read first);
`ReadPlaces` reads the list of restaurants; `Ends` asks again, wider, or ends;
`Assemble` is the context with its failed sources.

Abstractions, and why they are sound here. A timer may fire at any moment of its
wait: TLA+ has no clock, and the properties must hold for every speed of people
and network. The rider search's sleeps are not modelled, only their number. In
`OrderSaga` a checkout refused for its cart is a choice of `CreateOrder`, and
amounts are absent: no guard on these paths reads one except the total the order
and its payment share, which `Checkout` is about.

## 3. Runs

Identities are model values. Retry policies are cut to two attempts each (the
code's are 3, 5 and 10: what matters is first, again, given up). A bound on
faults (`MaxFaults`, `MaxFailures`, `MaxRestarts`) counts attempts lost or
errors met in a behaviour. `CHECK_DEADLOCK FALSE` stands wherever a finished
order, a consumed topic or an answered request leaves nothing to do. Parts that
share no state are checked in one run, a behaviour being of one of them, as the
variable `part` of the MC module says.

| run | instance | shows |
|---|---|---|
| `stores` | *orders*: 2 orders, 1 kitchen with room for 1, 1 rider assigned; *payments*: 1 order, 2 executions under each of 2 keys, refunds; *fleet*: 2 orders, 2 riders; 309 thousand states | the trail tells the row's true history (`TrailTellsStatus`), forward only (`TrailMovesForward`); an answered order had been confirmed (`AnsweredWasConfirmed`); decisions and terminal statuses stay, reports never go back, a recorded rider is never cleared (`NeverTakenBack`); `ChargedAtMostOnce`; `AuthorizedWasCharged`; `OneRiderPerOrder`; `CarriesUntilReleased` |
| `saga_faulty` | 1 order, 1 rider, 1 search for a rider (`saga_ends` has 2), 2 lost attempts; 949 thousand states | `ServedIsEarned`, `FinishedIsSettled`, `DecisionAgrees`, `CarrierHolds`, `AnnouncedHappened`, and that the saga implements `OrderLifecycle` (`KeepsLifecycle`) |
| `saga_ends` | 1 order, 1 lost attempt, or a customer who also pays by hand; fair; 325 thousand states | `CheckoutEnds`; while nothing is lost `HistoryIsPublished`, `ChargeIsSettled`, `RiderComesBack` |
| `events` | 1 order, 5 messages, 1 error or crash, either consumer; fair; 552 thousand states | `CommittedIsAccounted`, `CountersTellTheTable`, `TableTellsTheTopic`, `ProjectionMovesForward`, `EverythingIsConsumed` |
| `menus` | a tree of 3 levels and 2 dishes, 2 publishes, 1 publisher, 1 reader, both ingesting threads, 1 failure or restart; fair; 859 thousand states | `NeverMixed`, `ProcessedWasSeen`, `RestingIndexIsCurrent`, `CopyConverges` |
| `front_door` | *sessions*: 2 roles, 3 tokens, 2 logins, 2 requests, 2 role changes, fair; *policy*: 2 policies, 2 threads, 3 routes, 4 role sets; *checkout*: 2 requests, 2 carts, 2 menus, 1 change, 2 attempts; 313 thousand states | `OneSessionPerLogin`, `LastRoleStays`, `RevokedRoleFades`; `PolicyNeverGoesBack`; `PlacedOnce`, `RefusedIsUndone`, `ChargedIsTheTotal` |
| `assistant` | *telling*: 1 order, 1 turn, texts of 1 claim; *remembering*: 3 turns of a conversation of 4 messages; *counting*: 2 workers, 2 answers, 1 restart; *searching*: 4 dishes of 3 restaurants, 2 with one score, every list of up to 3 of them in every order for each of 2 passes, every menu at each read; 2.1 million states | `ToldIsTrue`, `MemoryHoldsAnswers`; `CreditedOnce`; `FoundIsBest`, `SilenceIsExplained`, `WiderKeepsWhatWasFound` |

Why the bounds are enough. The rows of different orders never meet except on a
kitchen's rail (two orders suffice: one takes the other's place) and in the
fleet (two riders for an order, or two orders for a rider). Two attempts of each
kind give every order of an attempt, its retry and its late execution; a second
lost attempt adds the loss during compensation or of the retry. The rider's
reports are re-sent freely and the kitchen clicks freely while its row allows it.
Five messages take an order to delivery, or leave room for repeats and a garbled
message on the way to a cancellation; one failure may come at any step of a loop,
and no guard asks how many there were. Three levels of a menu have a first query, one that follows it
and one that follows an empty answer; the proof is for any number. Two requests
are one that places the order and one that joins its run, follows it or comes
after its deadline; two threads, workers or turns are one that is in the middle
of something and one that gets in between. Three turns and room for
two exchanges let two end in either order, and a third push out the older. Four
dishes of three restaurants and limits of two and three, with two to be found,
give lists that are in order and lists that are not, a search that is satisfied at
once, one that asks again and is given a dish less, or other dishes, than before,
and one that finds too little; a text of one claim is enough since every
check is of one claim at a time. In the `stores` run orders, and in the
`assistant` run workers, may be permuted: no definition tells one from another.

Fairness. A loop of a consumer, a step of a workflow, of a thread or of a request
is weakly fair: processes are scheduled, Temporal schedules what is runnable and
its timers are durable, services answer and Kafka takes events in the end
(`PUBLISH_POLICY` has no maximum), and a TTL runs out. Nothing is assumed of
customers, kitchens, riders, publishers or administrators, nor of requests nobody
waits for any more. Errors are steps of their own, bounded and not fair, so that
fairness never rules one out. In `menus` the fairness is of what a publish, a
reader and the two threads have begun, and of the copy's expiry.

### Runs that refute a statement of the repository

Each checks one statement of `SagaClaims` or `ConsumerClaims`, and TLC's shortest
counterexample is its story.

* `rail_within_capacity`. Two orders are paid; both count the rail with one
  place left (`orders.py:341`); both are confirmed. The UPDATE does not repeat
  the count, and READ COMMITTED does not serialise the two.
* `full_for_others_only`. A confirmation is executed and its answer lost. The
  retry counts the rail, finds the order itself there, and refuses the order as
  over capacity: it is refunded and cancelled, though it had its place.
* `returned_is_owned`. A create is given up by HTTP's time-out; the workflow
  ends "create_failed" (the create may not be retried, and nothing is cancelled)
  but the request had been executed. The customer's next checkout finds the
  order, is told it exists, and returns it: no workflow authorises, confirms or
  cancels it. The same story refutes `order/workflow.py:74`, "nothing was
  written, so there is nothing to cancel".
* `declined_is_uncharged`. The Payment Service dies after the charge and before
  the row is marked. The retry finds the row `pending` under its own key and
  replays it; the activity takes anything but `authorized` for a decline; the
  order is cancelled, and not compensated because "nothing has been charged". It
  takes no fault at all when the customer pays by `POST /payments` first: the
  saga's authorisation is then answered 409 until it is given up. What the
  assistant says of such an order (`ai/assistant/order_explainer.py:51`, that a
  payment failed before anything was charged) is then untrue as well; the
  assistant is modelled over `OrderLifecycle`, where "not charged" means that the
  payment's row does not say authorised.
* `events_skipped`. The database is away while a message is handled. The loop
  logs the error and goes on; the next message is applied, and committing its
  offset commits the failed one's too. Only a restart before that commit, or
  somebody publishing the event again, would bring it back.

What is left of each statement is proved (section 4). The rail holds if no two confirmations of one
kitchen overlap, whatever else is lost or late (`OneAtATimeTheRailHolds`). While
nothing is lost, only others fill a rail (`TheRailIsFullOfOthers`), every returned
order has a workflow (`ReturnedOrdersAreOwned`), and the declined orders are
those of customers who also pay by hand (`OnlyHandPayersAreDeclined`). While no
message is passed over for an error, what is committed was applied, however often
the process dies (`WhatIsCommittedWasApplied`).

### Met while modelling, and not given runs

Of the saga:

* on a failed delivery the rider is released before the order leaves `assigned`
  or `picked_up`, so for the length of a compensation availability does say
  "free" while the order says "in transit" (`rider/workflow.py:103`, against the
  comment at 135, written for the delivered case);
* the order is on the rail from `confirmed` on, while the workflow that takes the
  kitchen's answer starts only after the event is published
  (`order/workflow.py:136` and 157, against `order/clients/orchestrator.py:101`);
* a "delivered" report recorded after the delivery timer's read finds its order
  being refunded (`rider/workflow.py:120`), and likewise an acceptance whose
  handler writes just after the kitchen timer's read is refunded for silence
  (`fulfillment/workflow.py:125`);
* a dispatch given up and executed late claims a rider whom nobody will release,
  after the search that retried it found none (`rider/workflow.py:155`);
* with a refund or a cancel given up and executed late, an order may end
  `cancelled` while Kafka holds `compensation_failed` of it, or the reverse: the
  publish that follows a transition does not ask whether it changed the row
  (`orchestrator/utils/transitions.py:62`). `AnnouncedHappened` therefore says
  only that an order announced as undone is undone.

Of the checkout: a repeated request is priced by the menu of that moment before
the insert finds the order, so it may be refused 422 for an order that was placed
(`order/apis/internal_orders.py:52`); a run that fails with a type the table
(`common/temporal.py:52`) does not know is answered 409, also when its order has
been made and is still `created`.

Of sessions and policy: two revocations that both count two roles leave none
(`user/repositories/users.py:120`, against its docstring's "Refuses to leave a
user with zero roles"; hence `raced` in `LastRoleStays`); a refresh whose
database read fails has used its token up (`user/apis/sessions.py:45`); routes
and grants are two queries, so a snapshot may be of two policies for one time to
live (`user/policy.py:111`), which is why `PolicyNeverGoesBack` speaks of its
halves.

Of menus and their index: a reader may store the old menu after the publish has
invalidated the copy, and it is served until its TTL (`menu/apis/menus.py:164`,
against `menu/repositories/cache.py:16`); a read that a publish overtakes is cut
short, and may be shown and stored like that (`menu/repositories/menus.py:115`);
when the backfill's ingest and an event's overlap, the older menu may be written
last and stay (hence `overlapped` in `RestingIndexIsCurrent`).

Of the assistant: an unchecked draft is on the customer's screen until it is
replaced, and stays there if the stream breaks; a rule-written text in which a
restaurant or a dish has a name with a word like "late" in it, or a figure beside
a word the checks look for, fails the check it replaces a draft for, and is used
all the same (`order_explainer.py:364` and 428, against 387, "this fallback can
never fail its own check", and 416, "it always passes `check_history`"; hence
`Warranted` in `MemoryHoldsAnswers`); an order may be credited to an answer that
was recorded after it was placed (`ai/repositories/interactions.py:22` compares no
times with the order's).

Of the search: the index is asked for a relaxed order (`vectors.py:24`), its rows
are taken for "best first" (`vectors.py:38`, `retriever.py:164`), and nothing
sorts the candidates again. The result is sorted and comes out best first all the
same, but a restaurant is read in the order of its first candidate, which need not
be its best, and the reading stops at the first score of the next restaurant
(`retriever.py:178`): a better dish listed further down than a worse one may be
lost to it. Hence `CutOff` in `FoundIsBest`, which excuses a candidate by any score
listed up to its restaurant's first; where the list is in order that excuses
nothing more than the dish's own score does. The second pass is a new query
(`retriever.py:144`), not an extension of the first: a dish the first has found may
be missing from the second's list and so from the result. Hence
`WiderKeepsWhatWasFound` speaks of the dishes listed again, which a changed menu
alone could not take back, as both passes share what was read.

Of the consumers: when `compensation_failed` is published of an order that a late
attempt has cancelled, its message tells `cancelled`, because the activity reads
the row when it publishes (`orchestrator/workflows/order/activities.py:151`): the
projection's row says `cancelled` and the counter that moves is that of
compensation failures (`analytics/consumer.py:211` and 232), until a restart seeds
the counters from the table. `CountersTellTheTable` therefore holds those two
counters to their sum when such a message is about, and `TableTellsTheTopic`
holds such an order's row to the Order Service's. An event the analytics consumer skipped over, and that is then
published again behind later ones, takes the projection's row back, because the
UPDATE asks nothing of the old status (`analytics/repositories/projections.py:34`;
hence the condition on `passed` in `ProjectionMovesForward`); the notification
consumer does not deduplicate, as its own docstring says, though
`common/kafka.py:37` says every consumer does.

## 4. Proofs

Proved by TLAPS for every value of the constants, under the assumptions the
modules name (`None` is no identity, no event and no document; a menu has two
levels or more; capacities, attempts and bounds are naturals; carts are priced
in naturals). Each theorem `Spec => []P` comes from an
inductive invariant that implies `P`; what the invariant adds to `P` is why `P`
holds.

* `StoreProofs`. `TrailIsTrue` and `TrailIsMonotone` from `TrailInv`: that a new
  line leads forward is the UPDATE's condition on the row, so the last line must
  name the row's status. `AnswersAreOfConfirmed`: an answer needs the rail, and a
  row on the rail has been confirmed. `NothingIsTakenBack` needs only the types:
  it is the conditions in the UPDATEs that keep it, one case per statement.
  `NeverChargedTwice` and `AuthorizedMeansCharged` from `PayInv`: an execution
  between its charge and its mark is the only one of its order past the insert,
  because the insert is refused once a row exists and a row is never deleted.
  `FleetTypeCorrect`, `NeverTwoRiders`: a claim requires that nobody holds the
  order. `RidersCarryUntilReleased`: every statement on a rider's
  row asks whether it is free, or frees it.
* `OrderSagaProofs`, for any number of orders, riders, kitchens, attempts and
  faults. `SagaInv` says, for each place a workflow can stand at, what its row,
  its payment, its rider and its history are (`StageFits`, `MoneyFits`,
  `AnswerFits`, `ReportsFit`, `CarrierFits`, `HistoryFits`), and for every
  request, handler and report that may still be executed what makes it harmless
  (`LateFits`, `HandlerFits`, `ReportFits`, `CallFits`). The last is the heart of
  it: a late `confirm` can only be of an order that is paid for and not being
  declined; a late `assign` only of one whose turn it still is or whose row has
  moved on; a late `cancel` only of one that is refunded. There is a lemma per
  action, and each says that everything of other orders is left alone
  (`StepFits`). From it `WhatIsServedIsEarned`, `WhatIsFinishedIsSettled`,
  `TheDecisionsAgree`, `TheCarrierHolds`, `WhatIsAnnouncedHappened`.
  `WhatHappenedIsPublished` adds that what has been entered is published or is
  what the workflow stands at publishing, and that an order is counted only while
  its workflow is confirming it: a confirmation executed late is the one way to
  enter a status nobody publishes, and that takes a fault.
  Three more theorems say what remains of the claims that runs refute, and
  `NothingLostNothingLeft` how a saga ends when no fault befalls it: delivered and
  paid for or cancelled and refunded, with nothing flagged, broken or still held.
  All four come from `CalmInv`, which speaks of the states with no fault so far.
  `Calm`: an order's row is written under a workflow that is told of it, there is
  no confirmation before its answer has been taken, and a rider is held only while
  the rider's workflow runs. `Solo`: of an order whose customer does not pay by
  hand there is one execution of `authorise()`, and its answer is the row it
  wrote. `OneAtATimeTheRailHolds` allows every fault and takes one hypothesis,
  `OneConfirmAtATime` (no two orders of one kitchen are counted and not yet
  confirmed). With it the count that is acted on is still good when it is: `RailInv`
  says that a counted order's place is free until it takes it.
* Refinements. `SagaImplementsStores`: every step of the saga is, for each of the
  three databases, a step that the database's own specification allows or none at
  all, so `StoreProofs`' theorems hold in it (`SagaKeepsTheBooks`).
  `SagaImplementsLifecycle`: under the mapping of `OrderSaga.Lifecycle` every
  step is a step of one order's abstract life or none; the invariant supplies
  what the abstract guards ask for (that a confirmed order was paid for, a
  cancelled one refunded). `AssistantImplementsAttribution`: a turn writes the
  usage log only as `Attribution` lets anyone write it.
* `EventConsumersProofs`. `EventsTypeCorrect`; `OffsetsTellTheTruth`, from
  `OffsetInv`: a commit writes the position, so everything up to the position has
  to be accounted for, all but the message in hand. `AccountedStays` (no step
  takes an account back) carries that over the steps of others.
  `CountersAgreeWithTheTable`, `CaughtUpTableTellsTheTopic` and `RowsMoveForward`
  from `TopicInv` (an order's statuses are first published in their order, none
  left out), `ToldInv` (an event's first message tells the status the event is
  named for, but one of a failed compensation tells how the order was undone, which
  is final) and `TableInv` (what is applied of an order is everything up to its
  row): an event that is new to the table must then be its order's next, in its
  first message.
  `WhatIsCommittedWasApplied` follows from `OffsetInv`, and from dead letters being
  messages that cannot be read.
* `CheckoutProofs`. `OrdersArePlacedOnce`, `RefusalsAreUndone` and
  `TotalsAreCharged` from `CheckoutInv`: only the last run is open, one run at
  most has got ahead with the order, the row and the money are where that run has
  brought them, and what a request has been told is of the run it belongs to.
* `AccessProofs`. `OneSessionComesOfALogin` from `SingleInv`, which also says
  that a token a logout is about to delete cannot be issued meanwhile.
  `PolicyOnlyGoesForward` from `PolicyInv`: who loads holds the lock, and what it
  has loaded is no older than what it will replace. `TheLastRoleStays` from
  `RoleInv`: of a revocation that has counted, some other role is still held.
* `MenuProofs`. `MenusAreNeverMixed` for a tree of any depth: rows below a row of
  another publish than the current one are gone. `EventsAreSeenBeforeDone`: the
  menu the consumer has in hand was read after its event was sent, and an event
  is sent after its publish. `TheIndexIsCurrent` from `IndexInv`: a read that
  began with the current menu's rows has no others, the change a lone thread is
  about to write is still the difference to what is stored, and once the current
  menu's event is done every read under way is of that menu.
* `AssistantProofs`. `OrdersAreCreditedOnce` from `CreditInv` (two locked rows
  are two rows, and who is about to count has put its order on a row and is alone
  with it). `CustomersAreToldTheTruth` from `TellingInv`: ends stay what they
  are, the facts in a turn's hands are of an order at or before its present
  stage, and the checks let through only claims that these facts make final.
  `TheMemoryHoldsAnswers` from `MemInv`: only a turn that was answered is in the
  memory, and a draft that fails its check has been replaced by the rules' text
  before the turn may be saved. That text passes too unless a name in the facts is
  misread (`RulesPass`), and then it is the rules' own that is remembered.

* `RetrievalProofs`, for any answers of the index, in any order and different in
  each pass, any menus at each read, any batch size and limits.
  `SearchFindsTheBest` from `RetrievalInv`: scores fall along the rows; what was
  read was read of the restaurants listed first; where the reading stops, a
  restaurant that was not read has its first candidate at or below the point where
  the list has come down to the last row's score (`StopIsSafe`), so that every
  candidate is settled (`StopSettles`), and reading menus for the list of
  restaurants unsettles none. The lemmas under it say what a sort by counting what
  goes before is (`SortedProperties`: each element once, ascending;
  `AscendingProperties`, `FoundProperties`), and that restaurants come in the order
  of their first candidates (`HeadsProperties`, `OrderProperties`).
  `WiderIsNoWorse`: a row of the first pass is on its restaurant's menu as read
  (`RowsAreLive`), a menu is read once for both passes, and so it cannot be off the
  menu when the second pass settles it. `SilenceMeansAbsence`: with no rows nothing
  is cut off, so every candidate is off the menu; and the first pass is the last
  only for a reason (`NoWiderPassDue`). `RetrievalTypes` leaves the rows of
  restaurants untyped: nothing that is proved reads them, so what `SelectSeq` gives
  never matters.

Only model-checked. Liveness and everything that stands on fairness
(`CheckoutEnds`, `ChargeIsSettled`, `RiderComesBack`, `EverythingIsConsumed`,
`CopyConverges`, `RevokedRoleFades`) is out of the prover's reach. So is what a
fold computes over a sequence (`Pricing`'s sums): the theorems about the checkout
hold whatever `Total` is.

## 5. Not modelled, and why

* The restaurants' CRUD, reviews, the riders' profiles: one statement each.
* Riders' positions and the delivery estimate: distances and clocks; a model
  would be as free as the choice of any free rider is.
* A workflow cancelled or terminated by hand, and versioned replay: nothing in
  the repository does either.
* Validation of requests, ownership checks, passwords, signatures, the gateway's
  configuration: data that no protocol here turns on.
* Embeddings, prompts, the partner's answers and the model itself: what is
  promised of them is statistical. A model's text is any text.
* The age of a conversation and of an interaction that may be credited, a model
  that never answers, and the streaming of single tokens.
* Celery's workers (they only log), dashboards, scripts, the chat page,
  telemetry, health and configuration.
