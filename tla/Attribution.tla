----------------------------- MODULE Attribution -----------------------------
(***************************************************************************)
(* The assistant's usage log and the consumer of order.created that counts *)
(* an order against the newest recommendation of its restaurant.           *)
(*                                                                         *)
(* Two workers run while one is replaced or the group rebalances; each     *)
(* works from the group's committed offset, so they may hold one message   *)
(* at the same time.  All orders here are one customer's, at one           *)
(* restaurant, and every answer is young enough to be counted.             *)
(***************************************************************************)
EXTENDS OrderLifecycle, Integers, Sequences, FiniteSets

CONSTANTS Turns,       \* answers the assistant may give, by a number: a later one is newer
          Workers,     \* attribution workers
          NoOrder,
          MaxRestarts  \* bound: how often workers are restarted

ASSUME AttributionAssumption ==
    NoOrder \notin Orders /\ Turns \subseteq Nat /\ MaxRestarts \in Nat

VARIABLES
    rows,        \* assistant_interactions: for each answer "absent", "plain" or "named"
    converted,   \* converted_order_id of each
    topic,       \* order.created events, repeated ones included
    offset,      \* the group's committed offset; 0 while it has none
    workers,     \* where each worker is
    counted,     \* sfo_ai_attributed_orders_total, by order
    restarts

attributionVars == <<rows, converted, topic, offset, workers, counted, restarts>>

Worker == [at : {"down", "reading", "holding", "locked", "counting", "committing"},
           pos : Nat, row : Turns \cup {0}]

Down == [at |-> "down", pos |-> 0, row |-> 0]

AttributionInit ==
    /\ rows = [t \in Turns |-> "absent"]
    /\ converted = [t \in Turns |-> NoOrder]
    /\ topic = <<>> /\ offset = 0 /\ restarts = 0
    /\ workers = [w \in Workers |-> Down]
    /\ counted = [o \in Orders |-> 0]

\* record(): one INSERT, with the restaurants the answer named, if any.
Record(t, what) ==
    /\ rows' = [rows EXCEPT ![t] = what]
    /\ UNCHANGED <<converted, topic, offset, workers, counted, restarts>>

\* The saga publishes order.created, and publishes it again if it does not know
\* that it did.
PublishCreated(o) ==
    /\ Len(topic) < 2 * Cardinality(Orders)
    /\ topic' = Append(topic, o)
    /\ UNCHANGED <<rows, converted, offset, workers, counted, restarts>>

Does(w, at) == workers' = [workers EXCEPT ![w].at = at]
Held(w) == topic[workers[w].pos]

\* _ensure_consumer: from the committed offset on, or from the end.
ConnectWorker(w) ==
    /\ workers[w].at = "down"
    /\ workers' = [workers EXCEPT ![w] =
                     [at |-> "reading", row |-> 0,
                      pos |-> IF offset = 0 THEN Len(topic) ELSE offset]]
    /\ UNCHANGED <<rows, converted, topic, offset, counted, restarts>>

\* The next message; one that is not an order.created, or is malformed, is
\* committed like any other.
TakeMessage(w) ==
    /\ workers[w].at = "reading" /\ workers[w].pos < Len(topic)
    /\ \E at \in {"holding", "committing"} :
          workers' = [workers EXCEPT ![w].pos = @ + 1, ![w].at = at]
    /\ UNCHANGED <<rows, converted, topic, offset, counted, restarts>>

\* The UPDATE's own view: rows locked by another worker are skipped, and what
\* that one has not committed is not seen.
Locked == {workers[w].row : w \in {w \in Workers : workers[w].at = "locked"}}
Candidates == {t \in Turns : rows[t] = "named" /\ converted[t] = NoOrder /\ t \notin Locked}
IsConverted(o) == \E t \in Turns : converted[t] = o
Newest == {t \in Candidates : \A u \in Candidates : u <= t}

\* The one row that the UPDATE locks.
Locks(w) ==
    \E t \in Newest :
        workers' = [workers EXCEPT ![w].at = "locked", ![w].row = t]

\* Broken variant: an order that found no row is counted like one that did.
LockRowOrCount(w) ==
    /\ workers[w].at = "holding"
    /\ IF Candidates # {} /\ ~IsConverted(Held(w))
         THEN Locks(w)
         ELSE Does(w, "counting")
    /\ UNCHANGED <<rows, converted, topic, offset, counted, restarts>>

\* attribute(), its UPDATE: the newest row to be had, unless the order is on
\* one already.
LockRow(w) ==
    /\ workers[w].at = "holding"
    /\ IF Candidates # {} /\ ~IsConverted(Held(w))
         THEN Locks(w)
         ELSE Does(w, "committing")
    /\ UNCHANGED <<rows, converted, topic, offset, counted, restarts>>

\* ... and its commit.  Two workers with one order have locked two rows, and
\* the unique index lets the first one have it; the other logs an error.
Convert(w) ==
    /\ workers[w].at = "locked"
    /\ IF IsConverted(Held(w))
         THEN Does(w, "committing") /\ UNCHANGED converted
         ELSE Does(w, "counting")
                /\ converted' = [converted EXCEPT ![workers[w].row] = Held(w)]
    /\ UNCHANGED <<rows, topic, offset, counted, restarts>>

\* The database is away: an error, logged.
AttributeFails(w) ==
    /\ workers[w].at \in {"holding", "locked"}
    /\ Does(w, "committing")
    /\ UNCHANGED <<rows, converted, topic, offset, counted, restarts>>

CountOrder(w) ==
    /\ workers[w].at = "counting"
    /\ counted' = [counted EXCEPT ![Held(w)] = @ + 1]
    /\ Does(w, "committing")
    /\ UNCHANGED <<rows, converted, topic, offset, restarts>>

CommitOffset(w) ==
    /\ workers[w].at = "committing"
    /\ offset' = workers[w].pos
    /\ Does(w, "reading")
    /\ UNCHANGED <<rows, converted, topic, counted, restarts>>

\* A worker dies, or Kafka fails under it, or the commit is refused because the
\* partition is another's by now: it starts again from what is committed.
Restart(w) ==
    /\ workers[w].at # "down" /\ restarts < MaxRestarts
    /\ workers' = [workers EXCEPT ![w] = Down]
    /\ restarts' = restarts + 1
    /\ UNCHANGED <<rows, converted, topic, offset, counted>>

WorkerStep(w) ==
    \/ ConnectWorker(w) \/ TakeMessage(w) \/ LockRow(w) \/ Convert(w)
    \/ AttributeFails(w) \/ CountOrder(w) \/ CommitOffset(w) \/ Restart(w)

AttributionNext ==
    \/ \E t \in Turns, what \in {"plain", "named"} : Record(t, what)
    \/ \E o \in Orders : PublishCreated(o)
    \/ \E w \in Workers : WorkerStep(w)

AttributionSpec == AttributionInit /\ [][AttributionNext]_attributionVars

-----------------------------------------------------------------------------
AttributionTypeOK ==
    /\ rows \in [Turns -> {"absent", "plain", "named"}]
    /\ converted \in [Turns -> Orders \cup {NoOrder}]
    /\ topic \in Seq(Orders) /\ offset \in 0..Len(topic)
    /\ workers \in [Workers -> Worker]
    /\ counted \in [Orders -> Nat] /\ restarts \in 0..MaxRestarts

\* However often an order's event is delivered, to however many workers at
\* once, one recommendation at most is credited with it and it is counted once
\* at most: `counted` may fall behind the table by a crash, never overtake it.
CreditedOnce ==
    \A o \in Orders :
        LET credited == {t \in Turns : converted[t] = o}
        IN  Cardinality(credited) <= 1 /\ counted[o] <= Cardinality(credited)
=============================================================================
