--------------------------- MODULE EventConsumers ---------------------------
(***************************************************************************)
(* The order topic and its two consumers: the Analytics Service, which     *)
(* projects it into a table, and the notification consumer, which turns    *)
(* three of its events into SMS and e-mail tasks.                          *)
(*                                                                         *)
(* Both run one loop: fetch a message, handle it, commit the offset.  The  *)
(* loop catches everything: a Kafka error reconnects, from the committed   *)
(* offset, and any other error goes on with the next message.              *)
(*                                                                         *)
(* One partition is modelled: events are keyed by order, so those of one   *)
(* order share one, and partitions do not meet.                            *)
(***************************************************************************)
EXTENDS Identities, Naturals, Sequences, FiniteSets

CONSTANTS
    Deployments,    \* sets of groups, one of which is deployed: they share only the topic
    MaxMessages,    \* bound: length of the topic
    MaxFailures     \* bound: how many errors and crashes a behaviour has

ASSUME BoundsAssumption ==
    MaxMessages \in Nat /\ MaxFailures \in Nat
    /\ Deployments \subseteq SUBSET {"analytics", "notification"}
ASSUME OrdersAreFinite == IsFiniteSet(Orders)

VARIABLES
    row,            \* the Order Service's status of each order, which publishing reads
    topic,          \* the messages published, in order
    committed,      \* offset of each consumer group, kept by Kafka
    position,       \* how many messages the consumer object has been handed
    loop,           \* where each consumer's loop stands
    processed,      \* processed_events: the ids applied
    projection,     \* order_projections: the status of each order's row
    counters,       \* the Prometheus counters of the analytics process
    texts, mails,   \* tasks enqueued, per event
    dlq,            \* offsets each group sent to its dead-letter topic
    passed,         \* offsets each group went past without their effect
    failures        \* errors and crashes so far

analyticsVars == <<processed, projection, counters>>
notificationVars == <<texts, mails>>
loopVars == <<committed, position, loop>>
vars == <<row, topic, loopVars, analyticsVars, notificationVars, dlq, passed, failures>>

-----------------------------------------------------------------------------
Group == {"analytics", "notification"}
LoopState == {"absent", "down", "idle", "fetched", "texted", "handled"}

Status == {"created", "confirmed", "assigned", "picked_up", "delivered",
           "cancelled", "compensation_failed"}
EventType == Status \cup {"kitchen.decided"}
\* An event, as its id has it: an order and a type.
Event == [order : Orders, type : EventType]
\* The events whose message tells the consumer its order's new status.
Telling == {"confirmed", "assigned", "picked_up", "compensation_failed"}
\* A message of one of them; or None, another producer's, which does not decode or
\* match its schema.
EventMessage == {m \in [event : Event, status : Status \cup {"none"}] :
               m.status = "none" <=> m.event.type \notin Telling}
Message == EventMessage \cup {None}
ASSUME GarbledIsNoEvent == None \notin Event \cup EventMessage

Notifiable == {"confirmed", "delivered", "cancelled"}
Counted == {"created", "delivered", "cancelled", "compensation_failed"}
Undone == {"cancelled", "compensation_failed"}

\* The statuses the saga takes an order to next, one workflow at a time.
Then == [s \in Status \cup {"none"} |->
           CASE s = "none"      -> {"created"}
             [] s = "created"   -> {"confirmed", "cancelled", "compensation_failed"}
             [] s = "confirmed" -> {"assigned", "cancelled", "compensation_failed"}
             [] s = "assigned"  -> {"picked_up", "cancelled", "compensation_failed"}
             [] s = "picked_up" -> {"delivered", "cancelled", "compensation_failed"}
             [] OTHER           -> {}]

LifeRank == [s \in Status \cup {"none", "absent"} |->
               CASE s \in {"none", "absent"} -> 0 [] s = "created" -> 1 [] s = "confirmed" -> 2
                 [] s = "assigned" -> 3 [] s = "picked_up" -> 4 [] OTHER -> 5]

EventAt(i) == IF topic[i] = None THEN None ELSE topic[i].event
Published(e) == \E i \in 1..Len(topic) : EventAt(i) = e
HasStatus(o, s) == IF s = "none" THEN TRUE ELSE Published([order |-> o, type |-> s])
\* The last status published of an order, by first publication.
IsLatest(o, s) == HasStatus(o, s) /\ \A n \in Then[s] : ~HasStatus(o, n)

Append1(m) == Len(topic) < MaxMessages /\ topic' = Append(topic, m)

\* The order enters a status, whose publishing is a step of its own.  No further
\* one is entered before it is published, but that an order may have to be undone
\* that a late attempt has confirmed.
Enter(o, s) ==
    /\ s \in Then[row[o]]
    /\ HasStatus(o, row[o]) \/ (row[o] = "confirmed" /\ s \in Undone)
    /\ row' = [row EXCEPT ![o] = s]
    /\ UNCHANGED <<topic, loopVars, analyticsVars, notificationVars, dlq, passed, failures>>

\* publish_order_event_activity: what it tells is the status it reads in the row.
Sends(o, type, status) ==
    /\ Append1([event  |-> [order |-> o, type |-> type],
                status |-> IF type \in Telling THEN status ELSE "none"])
    /\ UNCHANGED <<row, loopVars, analyticsVars, notificationVars, dlq, passed, failures>>

\* The workflow publishes the status it took the order to, though a late attempt
\* may have undone the order the other way; ...
Publish(o, s) ==
    /\ row[o] = s \/ {row[o], s} \subseteq Undone
    /\ \E last \in DOMAIN Then : s \in Then[last] /\ IsLatest(o, last)
    /\ Sends(o, s, row[o])

\* ... a handler of it the kitchen's decision; ...
PublishDecision(o) ==
    /\ HasStatus(o, "confirmed")
    /\ Sends(o, "kitchen.decided", "none")

\* ... and either may be published again, under the id it had: the activity was
\* retried, or an attempt was executed late.  It may have read the row at any time
\* since the event.
Republish(m) ==
    /\ m # None
    /\ LET o == m.event.order
       IN  \E s \in Status :
              /\ LifeRank[s] >= LifeRank[m.status]
              /\ s = row[o] \/ (s \notin Undone /\ HasStatus(o, s))
              /\ Sends(o, m.event.type, s)

PublishGarbled ==
    /\ ~Published(None)
    /\ Append1(None)
    /\ UNCHANGED <<row, loopVars, analyticsVars, notificationVars, dlq, passed, failures>>

-----------------------------------------------------------------------------
(* The consumers' loop.                                                    *)

InHand(g) == topic[position[g]]

\* Broken variant: a new consumer starts at the topic's end.
ConnectAtLatest(g) ==
    /\ loop[g] = "down"
    /\ loop' = [loop EXCEPT ![g] = "idle"]
    /\ position' = [position EXCEPT ![g] = Len(topic)]
    /\ UNCHANGED <<row, topic, committed, analyticsVars, notificationVars, dlq, passed, failures>>

Connect(g) ==
    /\ loop[g] = "down"
    /\ loop' = [loop EXCEPT ![g] = "idle"]
    /\ position' = [position EXCEPT ![g] = committed[g]]
    /\ UNCHANGED <<row, topic, committed, analyticsVars, notificationVars, dlq, passed, failures>>

\* Broken variant: the offset is committed before the message is handled.
FetchCommits(g) ==
    /\ loop[g] = "idle" /\ position[g] < Len(topic)
    /\ loop' = [loop EXCEPT ![g] = "fetched"]
    /\ position' = [position EXCEPT ![g] = @ + 1]
    /\ committed' = [committed EXCEPT ![g] = position[g] + 1]
    /\ UNCHANGED <<row, topic, analyticsVars, notificationVars, dlq, passed, failures>>

Fetch(g) ==
    /\ loop[g] = "idle" /\ position[g] < Len(topic)
    /\ loop' = [loop EXCEPT ![g] = "fetched"]
    /\ position' = [position EXCEPT ![g] = @ + 1]
    /\ UNCHANGED <<row, topic, committed, analyticsVars, notificationVars, dlq, passed, failures>>

Commit(g) ==
    /\ loop[g] = "handled"
    /\ loop' = [loop EXCEPT ![g] = "idle"]
    /\ committed' = [committed EXCEPT ![g] = position[g]]
    /\ UNCHANGED <<row, topic, position, analyticsVars, notificationVars, dlq, passed, failures>>

\* A message of no use to this consumer, or of none to any.
SetAside(g) ==
    /\ loop[g] = "fetched"
    /\ \/ /\ InHand(g) = None
          /\ dlq' = [dlq EXCEPT ![g] = @ \cup {position[g]}]
       \/ /\ g = "notification" /\ InHand(g) # None /\ InHand(g).event.type \notin Notifiable
          /\ UNCHANGED dlq
    /\ loop' = [loop EXCEPT ![g] = "handled"]
    /\ UNCHANGED <<row, topic, committed, position, analyticsVars, notificationVars, passed, failures>>

-----------------------------------------------------------------------------
(* AnalyticsConsumer._handle.                                              *)

\* What a message makes of its order's row.
Row(p, m) ==
    LET s == m.event.type
        r == p[m.event.order]
    IN  CASE s = "kitchen.decided" -> r
          [] s = "created"         -> IF r = "absent" THEN "created" ELSE r
          [] s \in Telling         -> IF r = "absent" THEN r ELSE m.status
          [] OTHER                 -> IF r = "absent" THEN r ELSE s

\* Broken variant: the statement is run whether the event is new or not.
TransactionUndeduplicated(m) ==
    /\ processed' = processed \cup {m.event}
    /\ projection' = [projection EXCEPT ![m.event.order] = Row(projection, m)]

\* The one transaction of ProjectionsRepository._apply.
Transaction(m) ==
    /\ processed' = processed \cup {m.event}
    /\ projection' = IF m.event \in processed THEN projection
                     ELSE [projection EXCEPT ![m.event.order] = Row(projection, m)]

\* Broken variant: a message seen before counts again.
AdvancedAnyway(e) == IF e.type \in Counted THEN [counters EXCEPT ![e.type] = @ + 1] ELSE counters

\* _advance_metrics, for an event that was new.
Advanced(e) == IF e \notin processed /\ e.type \in Counted
                 THEN [counters EXCEPT ![e.type] = @ + 1] ELSE counters

Project ==
    /\ loop["analytics"] = "fetched" /\ InHand("analytics") # None
    /\ Transaction(InHand("analytics"))
    /\ counters' = Advanced(InHand("analytics").event)
    /\ loop' = [loop EXCEPT !["analytics"] = "handled"]
    /\ UNCHANGED <<row, topic, committed, position, notificationVars, dlq, passed, failures>>

\* _seed_metrics, when the process starts.
Seeded == [c \in Counted |->
             Cardinality({o \in Orders : IF c = "created" THEN projection[o] # "absent"
                                                         ELSE projection[o] = c})]

-----------------------------------------------------------------------------
(* NotificationConsumer._notify, for a customer with a phone and an        *)
(* address: an SMS for each of its events, an e-mail for the first.        *)

Text ==
    /\ loop["notification"] = "fetched"
    /\ InHand("notification") # None
    /\ LET e == InHand("notification").event
       IN  /\ e.type \in Notifiable
           /\ texts' = [texts EXCEPT ![e] = @ + 1]
           /\ loop' = [loop EXCEPT !["notification"] =
                         IF e.type = "confirmed" THEN "texted" ELSE "handled"]
    /\ UNCHANGED <<row, topic, committed, position, analyticsVars, mails, dlq, passed, failures>>

Mail ==
    /\ loop["notification"] = "texted"
    /\ mails' = [mails EXCEPT ![InHand("notification").event] = @ + 1]
    /\ loop' = [loop EXCEPT !["notification"] = "handled"]
    /\ UNCHANGED <<row, topic, committed, position, analyticsVars, texts, dlq, passed, failures>>

-----------------------------------------------------------------------------
(* What goes wrong.                                                        *)

Fails == failures < MaxFailures /\ failures' = failures + 1

\* The contact cannot be looked up: logged, and the offset is committed.
LookupFails ==
    /\ Fails
    /\ loop["notification"] = "fetched" /\ InHand("notification") # None
    /\ InHand("notification").event.type \in Notifiable
    /\ passed' = [passed EXCEPT !["notification"] = @ \cup {position["notification"]}]
    /\ loop' = [loop EXCEPT !["notification"] = "handled"]
    /\ UNCHANGED <<row, topic, committed, position, analyticsVars, notificationVars, dlq>>

\* The database or RabbitMQ fails under the message: the transaction is rolled
\* back, or its commit went unanswered, and the loop goes on.
HandlingFails(g) ==
    /\ Fails
    /\ loop[g] \in {"fetched", "texted"} /\ InHand(g) # None
    /\ g = "notification" => InHand(g).event.type \in Notifiable
    /\ passed' = [passed EXCEPT ![g] = @ \cup {position[g]}]
    /\ loop' = [loop EXCEPT ![g] = "idle"]
    /\ \/ UNCHANGED <<processed, projection>>
       \/ g = "analytics" /\ Transaction(InHand(g))
    /\ UNCHANGED <<row, topic, committed, position, counters, notificationVars, dlq>>

\* Broken variant: the first Kafka error ends the loop, and nobody notices.
DisconnectForGood(g) ==
    /\ Fails
    /\ loop[g] \in {"idle", "handled"}
    /\ loop' = [loop EXCEPT ![g] = "ended"]
    /\ UNCHANGED <<row, topic, committed, position, analyticsVars, notificationVars, dlq, passed>>

\* A Kafka error: reaching for a message, for the dead-letter topic or to commit.
\* The consumer is stopped; the next one starts from the committed offset.
Disconnect(g) ==
    /\ Fails
    /\ \/ loop[g] \in {"idle", "handled"}
       \/ loop[g] = "fetched" /\ InHand(g) = None
    /\ loop' = [loop EXCEPT ![g] = "down"]
    /\ UNCHANGED <<row, topic, committed, position, analyticsVars, notificationVars, dlq, passed>>

\* The process dies, and is started again.
Crash(g) ==
    /\ Fails
    /\ loop[g] # "absent"
    /\ loop' = [loop EXCEPT ![g] = "down"]
    /\ counters' = IF g = "analytics" THEN Seeded ELSE counters
    /\ UNCHANGED <<row, topic, committed, position, processed, projection, notificationVars,
                   dlq, passed>>

-----------------------------------------------------------------------------
Init ==
    /\ row = [o \in Orders |-> "none"] /\ topic = <<>>
    /\ committed = [g \in Group |-> 0] /\ position = [g \in Group |-> 0]
    /\ \E d \in Deployments : loop = [g \in Group |-> IF g \in d THEN "down" ELSE "absent"]
    /\ processed = {} /\ projection = [o \in Orders |-> "absent"]
    /\ counters = [c \in Counted |-> 0]
    /\ texts = [e \in Event |-> 0] /\ mails = [e \in Event |-> 0]
    /\ dlq = [g \in Group |-> {}] /\ passed = [g \in Group |-> {}]
    /\ failures = 0

Works(g) == Connect(g) \/ Fetch(g) \/ SetAside(g) \/ Commit(g)

Next ==
    \/ \E o \in Orders : PublishDecision(o) \/ \E s \in Status : Enter(o, s) \/ Publish(o, s)
    \/ \E i \in 1..Len(topic) : Republish(topic[i])
    \/ PublishGarbled
    \/ \E g \in Group : Works(g) \/ HandlingFails(g) \/ Disconnect(g) \/ Crash(g)
    \/ Project \/ Text \/ Mail \/ LookupFails

\* The loops run for ever, and reconnect.
Fairness ==
    /\ \A g \in Group : WF_vars(Works(g))
    /\ WF_vars(Project) /\ WF_vars(Text \/ Mail)

Spec == Init /\ [][Next]_vars /\ Fairness

-----------------------------------------------------------------------------
EventsTypeOK ==
    /\ row \in [Orders -> Status \cup {"none"}]
    /\ topic \in Seq(Message) /\ Len(topic) <= MaxMessages
    /\ committed \in [Group -> 0..Len(topic)] /\ position \in [Group -> 0..Len(topic)]
    /\ loop \in [Group -> LoopState]
    /\ processed \subseteq Event
    /\ projection \in [Orders -> Status \cup {"absent"}]
    /\ counters \in [Counted -> Nat]
    /\ texts \in [Event -> Nat] /\ mails \in [Event -> Nat]
    /\ dlq \in [Group -> SUBSET (1..Len(topic))] /\ passed \in [Group -> SUBSET (1..Len(topic))]
    /\ failures \in 0..MaxFailures

\* What a group is to do with the message at offset i has been done.
Done(g, i) ==
    \/ i \in dlq[g]
    \/ LET e == EventAt(i)
       IN  /\ e # None
           /\ \/ g = "analytics" /\ e \in processed
              \/ /\ g = "notification"
                 /\ e.type \in Notifiable => texts[e] > 0
                 /\ e.type = "confirmed" => mails[e] > 0

\* No crash and no Kafka error makes an offset run ahead of its effect: what is
\* committed was done, was dead-lettered, or met an error of its own.
CommittedIsAccounted ==
    \A g \in Group : \A i \in 1..committed[g] : Done(g, i) \/ i \in passed[g]

\* A message that tells of one end of an order and shows the other.
Crossed(m) == m # None /\ m.event.type = "compensation_failed" /\ m.status = "cancelled"

\* However often events are delivered again and the process restarted, the
\* counters say what the table says.  They go by the event's type and the table by
\* the status it tells, so an order that failed to be compensated and that a late
\* attempt had cancelled is counted the one way and recorded the other: with such
\* orders about the two counters of orders undone agree with the table in their sum.
CountersTellTheTable ==
    passed["analytics"] = {} =>
        /\ \A c \in Counted \ Undone : counters[c] = Seeded[c]
        /\ counters["cancelled"] + counters["compensation_failed"]
             = Seeded["cancelled"] + Seeded["compensation_failed"]
        /\ (\A i \in 1..Len(topic) : ~Crossed(topic[i])) => counters = Seeded

\* What the table shows of an order whose last status published is s.
Shown(o, s) == IF s = "compensation_failed" THEN row[o] ELSE s

\* The table of a consumer that has caught up is the topic's: each order stands
\* at the status published last, whatever was repeated after it, or, when that is
\* 'compensation_failed', at the way in which the Order Service has it undone.
TableTellsTheTopic ==
    passed["analytics"] = {} /\ committed["analytics"] = Len(topic) =>
        \A o \in Orders :
            IF projection[o] = "absent" THEN ~HasStatus(o, "created")
            ELSE \E s \in Status : IsLatest(o, s) /\ projection[o] = Shown(o, s)

\* A row of the projection never goes back, though an event may be published
\* again behind the ones that followed it.  (An event that was passed over and is
\* then published again does take it back.)
ProjectionMovesForward ==
    [][\A o \in Orders :
          projection'[o] # projection[o] /\ passed["analytics"] = {} =>
              LifeRank[projection'[o]] > LifeRank[projection[o]]]_vars

\* A group catches up with the topic again and again, but for messages that met
\* an error of their own: no error ends a loop for good.
EverythingIsConsumed ==
    \A g \in Group :
        []<>(\/ committed[g] = Len(topic) \/ Len(topic) \in passed[g]
             \/ loop[g] = "absent")
=============================================================================
