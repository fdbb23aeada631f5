-------------------------- MODULE AssistantProofs --------------------------
(***************************************************************************)
(* Proofs about the assistant, for any orders, answers, workers, turns and *)
(* restarts: an order is credited once, what the customer is told of an    *)
(* order is true of it, and the conversation remembers checked answers.    *)
(***************************************************************************)
EXTENDS Assistant, FiniteSetTheorems, SequenceTheorems, TLAPS

-----------------------------------------------------------------------------
(* Attribution.                                                            *)

\* Two locked rows are two rows and still nobody's.
LocksAreApart ==
    /\ \A w \in Workers : workers[w].at = "locked" =>
          workers[w].row \in Turns /\ converted[workers[w].row] = NoOrder
    /\ \A v, w \in Workers : workers[v].at = "locked" /\ workers[w].at = "locked"
                               /\ workers[v].row = workers[w].row => v = w

\* Who is about to count an order has put it on a row, and is the only one.
CountersAreApart ==
    /\ \A w \in Workers : workers[w].at = "counting" =>
          IsConverted(Held(w)) /\ counted[Held(w)] = 0
    /\ \A v, w \in Workers : workers[v].at = "counting" /\ workers[w].at = "counting"
                               /\ Held(v) = Held(w) => v = w

\* The unique index, and the counter beside it.
CreditsAreSingle ==
    /\ \A t, u \in Turns : converted[t] = converted[u] /\ converted[t] # NoOrder => t = u
    /\ \A o \in Orders : counted[o] = 0 \/ (counted[o] = 1 /\ IsConverted(o))

\* A worker that is at a message has one in its hands.
MessagesAreThere ==
    \A w \in Workers : workers[w].at \notin {"down", "reading"} =>
        workers[w].pos \in 1..Len(topic)

CreditInv ==
    /\ AttributionTypeOK /\ MessagesAreThere
    /\ LocksAreApart /\ CountersAreApart /\ CreditsAreSingle

LEMMA AttributionStarts == AttributionInit => CreditInv
<1> SUFFICES ASSUME AttributionInit PROVE CreditInv
  OBVIOUS
<1> USE AttributionAssumption DEF AttributionInit, Down
<1>1. AttributionTypeOK
  BY DEF AttributionTypeOK, Worker
<1>2. MessagesAreThere /\ LocksAreApart /\ CountersAreApart /\ CreditsAreSingle
  BY DEF MessagesAreThere, LocksAreApart, CountersAreApart, CreditsAreSingle
<1>3. QED
  BY <1>1, <1>2 DEF CreditInv

\* What no worker does: the log's rows and the saga's events.
LEMMA LogAndSagaKeepCredits ==
    ASSUME CreditInv,
           \/ \E t \in Turns, what \in {"plain", "named"} : Record(t, what)
           \/ \E o \in Orders : PublishCreated(o)
    PROVE  CreditInv'
<1>1. CASE \E t \in Turns, what \in {"plain", "named"} : Record(t, what)
  <2>1. /\ rows' \in [Turns -> {"absent", "plain", "named"}]
        /\ UNCHANGED <<converted, topic, offset, workers, counted, restarts>>
    BY <1>1 DEF CreditInv, AttributionTypeOK, Record
  <2>2. QED
    BY <2>1 DEF CreditInv, AttributionTypeOK, MessagesAreThere, LocksAreApart, CountersAreApart,
                CreditsAreSingle, IsConverted, Held
<1>2. ASSUME NEW o \in Orders, PublishCreated(o) PROVE CreditInv'
  <2>1. /\ topic' = Append(topic, o) /\ topic \in Seq(Orders)
        /\ UNCHANGED <<rows, converted, offset, workers, counted, restarts>>
    BY <1>2 DEF CreditInv, AttributionTypeOK, PublishCreated
  <2>2. /\ topic' \in Seq(Orders) /\ Len(topic') = Len(topic) + 1
        /\ \A i \in 1..Len(topic) : topic'[i] = topic[i]
    BY <2>1
  <2>3. AttributionTypeOK' /\ MessagesAreThere'
    BY <2>1, <2>2 DEF CreditInv, AttributionTypeOK, MessagesAreThere
  <2>4. \A w \in Workers : workers[w].at = "counting" => Held(w)' = Held(w)
    BY <2>1, <2>2 DEF CreditInv, MessagesAreThere, Held
  <2>5. LocksAreApart' /\ CreditsAreSingle'
    BY <2>1 DEF CreditInv, LocksAreApart, CreditsAreSingle, IsConverted
  <2>6. \A p : IsConverted(p)' = IsConverted(p)
    BY <2>1 DEF IsConverted
  <2>7. CountersAreApart'
    BY <2>1, <2>4, <2>6 DEF CreditInv, CountersAreApart
  <2>8. QED
    BY <2>3, <2>5, <2>7 DEF CreditInv
<1>3. QED
  BY <1>1, <1>2

\* A step of one worker that touches no credit: where it goes, it holds no row
\* and counts nothing, or it stays where it holds what it held.
LEMMA IdleStepsKeepCredits ==
    ASSUME CreditInv, NEW w \in Workers, NEW new \in Worker,
           workers' = [workers EXCEPT ![w] = new],
           new.at \in {"down", "reading", "holding", "committing"},
           new.at \in {"holding", "committing"} => new.pos \in 1..Len(topic),
           offset' \in 0..Len(topic), restarts' \in 0..MaxRestarts,
           UNCHANGED <<rows, converted, topic, counted>>
    PROVE  CreditInv'
<1>1. /\ workers' \in [Workers -> Worker] /\ workers'[w] = new
      /\ \A v \in Workers \ {w} : workers'[v] = workers[v]
  BY DEF CreditInv, AttributionTypeOK
<1>2. AttributionTypeOK'
  BY <1>1 DEF CreditInv, AttributionTypeOK
<1>3. MessagesAreThere'
  BY <1>1 DEF CreditInv, MessagesAreThere
<1>4. LocksAreApart'
  BY <1>1 DEF CreditInv, LocksAreApart
<1>5. CreditsAreSingle'
  BY DEF CreditInv, CreditsAreSingle, IsConverted
<1>6. \A v \in Workers \ {w} : Held(v)' = Held(v)
  BY <1>1 DEF Held
<1>7. \A p : IsConverted(p)' = IsConverted(p)
  BY DEF IsConverted
<1>8. CountersAreApart'
  BY <1>1, <1>6, <1>7 DEF CreditInv, CountersAreApart
<1>9. QED
  BY <1>2, <1>3, <1>4, <1>5, <1>8 DEF CreditInv

\* A worker at a message whose row it locks, whose order it puts there, and
\* which it then counts.
LEMMA CreditingStepsKeepCredits ==
    ASSUME CreditInv, NEW w \in Workers, LockRow(w) \/ Convert(w) \/ CountOrder(w)
    PROVE  CreditInv'
<1>0. /\ workers \in [Workers -> Worker] /\ converted \in [Turns -> Orders \cup {NoOrder}]
      /\ counted \in [Orders -> Nat] /\ topic \in Seq(Orders)
  BY DEF CreditInv, AttributionTypeOK
<1>1. workers[w].at \in {"holding", "locked", "counting"}
      /\ workers[w] \in Worker /\ workers[w].pos \in 1..Len(topic) /\ Held(w) \in Orders
  BY <1>0 DEF CreditInv, MessagesAreThere, Held, LockRow, Convert, CountOrder
<1>2. /\ topic' = topic /\ offset' = offset /\ restarts' = restarts /\ rows' = rows
  BY DEF LockRow, Convert, CountOrder
<1>3. CASE Does(w, "committing") /\ converted' = converted /\ counted' = counted
  <2> DEFINE new == [workers[w] EXCEPT !.at = "committing"]
  <2>1. new \in Worker /\ workers' = [workers EXCEPT ![w] = new]
        /\ new.at = "committing" /\ new.pos = workers[w].pos
    BY <1>0, <1>1, <1>3 DEF Does, Worker
  <2>2. offset' \in 0..Len(topic) /\ restarts' \in 0..MaxRestarts
    BY <1>2 DEF CreditInv, AttributionTypeOK
  <2> HIDE DEF new
  <2>3. QED
    BY <1>1, <1>2, <1>3, <2>1, <2>2, IdleStepsKeepCredits
<1>4. CASE LockRow(w) /\ Locks(w)
  <2>1. PICK t \in Newest : workers' = [workers EXCEPT ![w].at = "locked", ![w].row = t]
    BY <1>4 DEF Locks
  <2>2. t \in Turns /\ converted[t] = NoOrder /\ t \notin Locked
    BY DEF Newest, Candidates
  <2>3. /\ workers' \in [Workers -> Worker]
        /\ workers'[w].at = "locked" /\ workers'[w].row = t /\ workers'[w].pos = workers[w].pos
        /\ \A v \in Workers \ {w} : workers'[v] = workers[v]
    BY <1>0, <1>1, <2>1, <2>2 DEF Worker
  <2>4. converted' = converted /\ counted' = counted
    BY <1>4 DEF LockRow
  <2>5. AttributionTypeOK' /\ MessagesAreThere'
    BY <1>1, <1>2, <2>3, <2>4 DEF CreditInv, AttributionTypeOK, MessagesAreThere
  <2>6. LocksAreApart'
    BY <2>2, <2>3, <2>4 DEF CreditInv, LocksAreApart, Locked
  <2>7. \A p : IsConverted(p)' = IsConverted(p)
    BY <2>4 DEF IsConverted
  <2>8. \A v \in Workers : Held(v)' = Held(v)
    BY <1>2, <2>3 DEF Held
  <2>9. CountersAreApart' /\ CreditsAreSingle'
    BY <2>3, <2>4, <2>7, <2>8 DEF CreditInv, CountersAreApart, CreditsAreSingle
  <2>10. QED
    BY <2>5, <2>6, <2>9 DEF CreditInv
<1>5. CASE Convert(w) /\ ~IsConverted(Held(w))
  <2> DEFINE t == workers[w].row
             o == Held(w)
  <2>1. /\ Does(w, "counting") /\ workers[w].at = "locked"
        /\ converted' = [converted EXCEPT ![t] = o] /\ counted' = counted
    BY <1>5 DEF Convert
  <2>2. t \in Turns /\ converted[t] = NoOrder
    BY <2>1 DEF CreditInv, LocksAreApart
  <2>3. /\ workers' \in [Workers -> Worker]
        /\ workers'[w].at = "counting" /\ workers'[w].row = t /\ workers'[w].pos = workers[w].pos
        /\ \A v \in Workers \ {w} : workers'[v] = workers[v]
    BY <1>0, <1>1, <2>1 DEF Worker, Does
  <2>4. /\ converted' \in [Turns -> Orders \cup {NoOrder}] /\ converted'[t] = o
        /\ \A u \in Turns \ {t} : converted'[u] = converted[u]
    BY <1>0, <1>1, <2>1, <2>2
  <2>5. AttributionTypeOK' /\ MessagesAreThere'
    BY <1>1, <1>2, <2>1, <2>3, <2>4 DEF CreditInv, AttributionTypeOK, MessagesAreThere
  <2>6. \A u \in Turns : converted[u] # o
    BY <1>5 DEF IsConverted
  <2>7. IsConverted(o)' /\ \A p \in Orders : IsConverted(p) => IsConverted(p)'
    <3>1. IsConverted(o)'
      BY <1>2, <2>2, <2>3, <2>4 DEF IsConverted, Held
    <3>2. ASSUME NEW p \in Orders, IsConverted(p) PROVE IsConverted(p)'
      <4>1. PICK u \in Turns : converted[u] = p
        BY <3>2 DEF IsConverted
      <4>2. converted'[u] = p
        BY <2>2, <2>4, <4>1, AttributionAssumption
      <4>3. QED
        BY <4>2 DEF IsConverted
    <3>3. QED
      BY <3>1, <3>2
  <2>8. LocksAreApart'
    BY <2>1, <2>3, <2>4 DEF CreditInv, LocksAreApart
  <2>9. \A v \in Workers : Held(v)' = Held(v)
    BY <1>2, <2>3 DEF Held
  <2>10. counted[o] = 0
    BY <1>1, <1>5 DEF CreditInv, CreditsAreSingle
  <2>11. \A v \in Workers : workers[v].at = "counting" => Held(v) # o /\ Held(v) \in Orders
    BY <1>0, <1>5 DEF CreditInv, CountersAreApart, MessagesAreThere, Held
  <2>12. CountersAreApart'
    BY <2>1, <2>3, <2>7, <2>9, <2>10, <2>11 DEF CreditInv, CountersAreApart
  <2>13. CreditsAreSingle'
    BY <2>1, <2>2, <2>4, <2>6, <2>7 DEF CreditInv, CreditsAreSingle
  <2>14. QED
    BY <2>5, <2>8, <2>12, <2>13 DEF CreditInv
<1>6. CASE CountOrder(w)
  <2> DEFINE o == Held(w)
  <2>1. /\ Does(w, "committing") /\ workers[w].at = "counting" /\ converted' = converted
        /\ counted' = [counted EXCEPT ![o] = @ + 1]
    BY <1>6 DEF CountOrder
  <2>2. counted[o] = 0 /\ IsConverted(o)
    BY <2>1 DEF CreditInv, CountersAreApart
  <2>3. /\ workers' \in [Workers -> Worker]
        /\ workers'[w].at = "committing" /\ workers'[w].pos = workers[w].pos
        /\ \A v \in Workers \ {w} : workers'[v] = workers[v]
    BY <1>0, <1>1, <2>1 DEF Worker, Does
  <2>4. /\ counted' \in [Orders -> Nat] /\ counted'[o] = 1
        /\ \A p \in Orders \ {o} : counted'[p] = counted[p]
    BY <1>0, <1>1, <2>1, <2>2
  <2>5. AttributionTypeOK' /\ MessagesAreThere'
    BY <1>1, <1>2, <2>1, <2>3, <2>4 DEF CreditInv, AttributionTypeOK, MessagesAreThere
  <2>6. LocksAreApart'
    BY <2>1, <2>3 DEF CreditInv, LocksAreApart
  <2>7. \A p : IsConverted(p)' = IsConverted(p)
    BY <2>1 DEF IsConverted
  <2>8. \A v \in Workers : Held(v)' = Held(v)
    BY <1>2, <2>3 DEF Held
  <2>9. \A v \in Workers \ {w} : workers[v].at = "counting" => Held(v) # o /\ Held(v) \in Orders
    BY <1>0, <2>1 DEF CreditInv, CountersAreApart, MessagesAreThere, Held
  <2>10. CountersAreApart'
    BY <2>3, <2>4, <2>7, <2>8, <2>9 DEF CreditInv, CountersAreApart
  <2>11. CreditsAreSingle'
    BY <2>1, <2>2, <2>4, <2>7 DEF CreditInv, CreditsAreSingle
  <2>12. QED
    BY <2>5, <2>6, <2>10, <2>11 DEF CreditInv
<1>7. QED
  BY <1>3, <1>4, <1>5, <1>6 DEF LockRow, Convert, CountOrder

LEMMA WorkersKeepCredits ==
    ASSUME CreditInv, NEW w \in Workers, WorkerStep(w)
    PROVE  CreditInv'
<1>0. /\ workers \in [Workers -> Worker] /\ workers[w] \in Worker /\ topic \in Seq(Orders)
      /\ offset \in 0..Len(topic) /\ restarts \in 0..MaxRestarts /\ Len(topic) \in Nat
  BY DEF CreditInv, AttributionTypeOK
<1>1. CASE LockRow(w) \/ Convert(w) \/ CountOrder(w)
  BY <1>1, CreditingStepsKeepCredits
<1>2. CASE ConnectWorker(w)
  <2> DEFINE new == [at |-> "reading", row |-> 0, pos |-> IF offset = 0 THEN Len(topic) ELSE offset]
  <2>1. new \in Worker /\ new.at = "reading"
    BY <1>0 DEF Worker
  <2>2. workers' = [workers EXCEPT ![w] = new]
        /\ UNCHANGED <<rows, converted, topic, offset, counted, restarts>>
    BY <1>2 DEF ConnectWorker
  <2> HIDE DEF new
  <2>3. QED
    BY <1>0, <2>1, <2>2, IdleStepsKeepCredits
<1>3. CASE TakeMessage(w)
  <2>1. PICK at \in {"holding", "committing"} :
          workers' = [workers EXCEPT ![w].pos = @ + 1, ![w].at = at]
    BY <1>3 DEF TakeMessage
  <2> DEFINE new == [at |-> at, pos |-> workers[w].pos + 1, row |-> workers[w].row]
  <2>2. /\ new \in Worker /\ new.at = at /\ new.pos = workers[w].pos + 1
        /\ workers' = [workers EXCEPT ![w] = new]
    <3>1. new \in Worker /\ new.at = at /\ new.pos = workers[w].pos + 1
      BY <1>0, <2>1 DEF Worker
    <3>2. workers'[w] = new
      BY <1>0, <2>1 DEF Worker
    <3>3. workers' \in [Workers -> Worker] /\ \A v \in Workers \ {w} : workers'[v] = workers[v]
      BY <1>0, <2>1, <3>1, <3>2
    <3>4. workers' = [workers EXCEPT ![w] = new]
      BY <1>0, <3>2, <3>3
    <3>5. QED
      BY <3>1, <3>4
  <2>3. workers[w].pos \in Nat /\ workers[w].pos < Len(topic)
        /\ UNCHANGED <<rows, converted, topic, offset, counted, restarts>>
    BY <1>0, <1>3 DEF TakeMessage, Worker
  <2>4. new.pos \in 1..Len(topic)
    BY <1>0, <2>2, <2>3
  <2> HIDE DEF new
  <2>5. QED
    BY <1>0, <2>2, <2>3, <2>4, IdleStepsKeepCredits
<1>4. CASE AttributeFails(w) \/ CommitOffset(w)
  <2>1. PICK at \in {"committing", "reading"} : Does(w, at)
    BY <1>4 DEF AttributeFails, CommitOffset
  <2> DEFINE new == [workers[w] EXCEPT !.at = at]
  <2>2. /\ new \in Worker /\ new.at = at /\ new.pos = workers[w].pos
        /\ workers' = [workers EXCEPT ![w] = new]
    BY <1>0, <2>1 DEF Worker, Does
  <2>3. workers[w].pos \in 1..Len(topic)
    BY <1>4 DEF AttributeFails, CommitOffset, CreditInv, MessagesAreThere
  <2>4. offset' \in 0..Len(topic) /\ UNCHANGED <<rows, converted, topic, counted, restarts>>
    BY <1>0, <1>4, <2>3 DEF AttributeFails, CommitOffset
  <2> HIDE DEF new
  <2>5. QED
    BY <1>0, <2>2, <2>3, <2>4, IdleStepsKeepCredits
<1>5. CASE Restart(w)
  <2>1. Down \in Worker /\ Down.at = "down"
    BY DEF Down, Worker
  <2>2. /\ workers' = [workers EXCEPT ![w] = Down] /\ restarts' \in 0..MaxRestarts
        /\ UNCHANGED <<rows, converted, topic, offset, counted>>
    BY <1>0, <1>5, AttributionAssumption DEF Restart
  <2>3. QED
    BY <1>0, <2>1, <2>2, IdleStepsKeepCredits
<1>6. QED
  BY <1>1, <1>2, <1>3, <1>4, <1>5 DEF WorkerStep

THEOREM CreditInvariant == AttributionSpec => []CreditInv
<1>1. CreditInv /\ UNCHANGED attributionVars => CreditInv'
  BY DEF attributionVars, CreditInv, AttributionTypeOK, MessagesAreThere, LocksAreApart,
         CountersAreApart, CreditsAreSingle, IsConverted, Held
<1>2. CreditInv /\ [AttributionNext]_attributionVars => CreditInv'
  BY <1>1, LogAndSagaKeepCredits, WorkersKeepCredits DEF AttributionNext
<1>3. QED
  BY <1>2, AttributionStarts, PTL DEF AttributionSpec

\* One order, one row, one count, for any number of workers, answers, repeated
\* events and restarts.
THEOREM OrdersAreCreditedOnce == AttributionSpec => []CreditedOnce
<1>1. CreditInv => CreditedOnce
  <2> SUFFICES ASSUME CreditInv, NEW o \in Orders
               PROVE  LET credited == {t \in Turns : converted[t] = o}
                      IN  Cardinality(credited) <= 1 /\ counted[o] <= Cardinality(credited)
    BY DEF CreditedOnce
  <2> DEFINE credited == {t \in Turns : converted[t] = o}
  <2>1. o # NoOrder
    BY AttributionAssumption
  <2>2. CASE credited = {}
    <3>1. counted[o] = 0 /\ Cardinality(credited) = 0
      BY <2>2, FS_EmptySet DEF CreditInv, CreditsAreSingle, IsConverted
    <3>2. QED
      BY <3>1
  <2>3. CASE credited # {}
    <3>1. PICK t \in credited : TRUE
      BY <2>3
    <3>2. credited = {t}
      BY <2>1, <3>1 DEF CreditInv, CreditsAreSingle
    <3>3. Cardinality(credited) = 1
      BY <3>2, FS_Singleton
    <3>4. counted[o] \in {0, 1}
      BY DEF CreditInv, CreditsAreSingle
    <3>5. QED
      BY <3>3, <3>4
  <2>4. QED
    BY <2>2, <2>3
<1>2. QED
  BY <1>1, CreditInvariant, PTL

-----------------------------------------------------------------------------
(* The lives of orders, as far as they end.                                *)

Final == Undone \cup {"delivered"}

\* Why an order was cancelled tells where its money is.
EndsAreExplained ==
    \A o \in Orders :
        /\ stage[o] \in Undone <=> cause[o] # "none"
        /\ stage[o] = "cancelled" /\ cause[o] = "saga" => money[o] = "returned"
        /\ cause[o] = "payment" => stage[o] = "cancelled"

\* An end stays what it is, and what was returned stays returned.
EndsStay ==
    \A o \in Orders :
        stage[o] \in Final =>
            /\ stage'[o] = stage[o] /\ cause'[o] = cause[o]
            /\ money[o] = "returned" => money'[o] = "returned"

LEMMA LivesEndOnce ==
    ASSUME LifeTypeOK, EndsAreExplained, LifeNext
    PROVE  LifeTypeOK' /\ EndsAreExplained' /\ EndsStay
<1>1. PICK o \in Orders : LifeStep(o)
  BY DEF LifeNext
<1> USE DEF LifeTypeOK, Stage, Open, Money, Cause, Undone, Final
<1>2. CASE Place(o)
  BY <1>2 DEF Place, EndsAreExplained, EndsStay
<1>3. CASE Take(o)
  BY <1>3 DEF Take, EndsAreExplained, EndsStay
<1>4. CASE Confirm(o)
  BY <1>4 DEF Confirm, EndsAreExplained, EndsStay
<1>5. CASE Decide(o)
  BY <1>5 DEF Decide, Answer, EndsAreExplained, EndsStay
<1>6. CASE Advance(o)
  <2>1. stage[o] \in {"confirmed", "assigned", "picked_up"}
        /\ Following[stage[o]] \in {"assigned", "picked_up", "delivered"}
    BY <1>6 DEF Advance, Following
  <2>2. QED
    BY <1>6, <2>1 DEF Advance, EndsAreExplained, EndsStay
<1>7. CASE Return(o)
  BY <1>7 DEF Return, EndsAreExplained, EndsStay
<1>8. CASE Decline(o)
  BY <1>8 DEF Decline, EndsAreExplained, EndsStay
<1>9. CASE Cancel(o)
  BY <1>9 DEF Cancel, EndsAreExplained, EndsStay
<1>10. CASE Flag(o)
  BY <1>10 DEF Flag, EndsAreExplained, EndsStay
<1>11. QED
  BY <1>1, <1>2, <1>3, <1>4, <1>5, <1>6, <1>7, <1>8, <1>9, <1>10 DEF LifeStep

-----------------------------------------------------------------------------
(* What is known of them, and what is said.                                *)

\* Facts about an order that are as true of it now as when they were read.
Holds(f, o) ==
    /\ f.status \in Final => stage[o] = f.status
    /\ f.money = "refund_incomplete" <=> f.status = "compensation_failed"
    /\ f.money = "refunded" => f.status = "cancelled" /\ cause[o] = "saga"
    /\ f.money = "not_charged" => f.status = "cancelled" /\ cause[o] = "payment"

Sound(turn) ==
    LET f == turn.facts
    IN  /\ turn.at = "searching" => turn.kind \in Subject
        /\ turn.order # NoOrder =>
              /\ turn.at \in {"trail", "writing", "saving", "logging", "closed", "gone"}
              /\ f.subject = "order" /\ Holds(f, turn.order)
              /\ turn.at # "trail" /\ f.status \in Undone => f.cause
              /\ turn.at \in {"saving", "logging", "closed"} => turn.answer \subseteq Supported(f) \cup {"name"}
              /\ turn.at = "closed" => turn.text = turn.answer

TellingInv ==
    /\ TellingTypeOK /\ EndsAreExplained
    /\ \A t \in Turns : Sound(turns[t])

\* The rules' answer says nothing that the checks would not let pass, but for
\* names they may misread.
LEMMA RulesPass ==
    ASSUME NEW f \in Facts, f.subject = "order",
           f.money = "refund_incomplete" <=> f.status = "compensation_failed",
           f.money \in {"refunded", "not_charged"} => f.status = "cancelled",
           NEW text
    PROVE  /\ Checked(f, text) \subseteq Supported(f) \cup {"name"}
           /\ f.names # "misread" => Checked(f, text) \subseteq Supported(f)
<1>1. Meaning(f.status) \subseteq StatusClaims(f) \cup MoneyClaims(f)
  BY DEF Meaning, StatusClaims, MoneyClaims, Undone
<1>2. Summary(f) \subseteq {"words", "figure"} \cup Named(f) \cup StatusClaims(f) \cup MoneyClaims(f)
                             \cup CauseClaims(f)
  BY <1>1 DEF Summary, MoneyClaims, CauseClaims
<1>3. /\ Summary(f) \subseteq Supported(f) \cup {"name"}
      /\ f.names # "misread" => Summary(f) \subseteq Supported(f)
  BY <1>2 DEF Supported, Named
<1>4. QED
  BY <1>3 DEF Checked, Passes, Fallback

\* The row's answer, and then the trail's.
LEMMA FactsHold ==
    ASSUME LifeTypeOK, EndsAreExplained, NEW o \in Orders,
           NEW status \in Stage, NEW why \in {"none", cause[o]}, NEW names \in Naming,
           status \in Final => stage[o] = status
    PROVE  /\ OrderFacts(status, why, names) \in Facts /\ OrderFacts(status, why, names).subject = "order"
           /\ OrderFacts(status, why, names).status = status
           /\ Holds(OrderFacts(status, why, names), o)
           /\ why = cause[o] /\ status \in Undone => OrderFacts(status, why, names).cause
<1> USE DEF LifeTypeOK, EndsAreExplained, Undone, Final, Cause
<1>1. MoneyOf(status, why) \in {"unknown", "refunded", "refund_incomplete", "not_charged"}
  BY DEF MoneyOf
<1>2. OrderFacts(status, why, names) \in Facts
  BY <1>1 DEF OrderFacts, Facts, Subject
<1>3. Holds(OrderFacts(status, why, names), o)
  BY DEF Holds, OrderFacts, MoneyOf
<1>4. QED
  BY <1>2, <1>3 DEF OrderFacts

\* One turn's step: the others' are theirs, and no life is touched.
LEMMA OneTurnKeepsTelling ==
    ASSUME TellingInv, UNCHANGED orderView, NEW t \in Turns, NEW new \in Turn,
           turns' = [turns EXCEPT ![t] = new],
           Sound(new)
    PROVE  TellingInv'
<1>1. /\ turns' \in [Turns -> Turn] /\ turns'[t] = new
      /\ \A u \in Turns \ {t} : turns'[u] = turns[u]
  BY DEF TellingInv, TellingTypeOK
<1>2. stage' = stage /\ cause' = cause /\ money' = money /\ answer' = answer
  BY DEF orderView
<1>3. \A u \in Turns : Sound(turns'[u])
  BY <1>1 DEF TellingInv, TellingTypeOK
<1>4. \A u \in Turns : Sound(turns[u])'
  BY <1>2, <1>3 DEF Sound, Holds
<1>5. QED
  BY <1>1, <1>2, <1>4 DEF TellingInv, TellingTypeOK, LifeTypeOK, EndsAreExplained

\* Reading: what is read of an order holds of it.
LEMMA ReadingKeepsTelling ==
    ASSUME TellingInv, NEW t \in Turns,
           Route(t, Kind) \/ ReadRow(t) \/ ReadTrail(t) \/ Search(t)
    PROVE  TellingInv'
<1> USE DEF Turn, Ended
<1>0. turns \in [Turns -> Turn] /\ turns[t] \in Turn /\ UNCHANGED orderView /\ Sound(turns[t])
  BY DEF TellingInv, TellingTypeOK, Route, ReadRow, ReadTrail, Search
<1>1. Fixed \in SUBSET Claims
  BY DEF Fixed, Claims
<1>2. CASE Route(t, Kind)
  <2>1. PICK kind \in Kind :
          turns' = [turns EXCEPT ![t].kind = kind,
                      ![t].at = CASE kind = "refused"              -> "saving"
                                  [] kind \in {"order", "explain"} -> "row"
                                  [] OTHER                         -> "searching",
                      ![t].answer = IF kind = "refused" THEN Fixed ELSE {}]
    BY <1>2 DEF Route
  <2>2. turns[t].at = "asked"
    BY <1>2 DEF Route
  <2>3. turns[t].order = NoOrder
    BY <1>0, <2>2 DEF Sound
  <2> DEFINE at == CASE kind = "refused"              -> "saving"
                     [] kind \in {"order", "explain"} -> "row"
                     [] OTHER                         -> "searching"
             new == [turns[t] EXCEPT !.kind = kind, !.at = at,
                                     !.answer = IF kind = "refused" THEN Fixed ELSE {}]
  <2>4. at \in {"saving", "row", "searching"}
    OBVIOUS
  <2> HIDE DEF at
  <2>5. new \in Turn /\ new.order = NoOrder /\ new.at = at /\ new.kind = kind
    BY <1>0, <1>1, <2>3, <2>4
  <2>6. at = "searching" => kind \in Subject
    BY DEF at, Kind, Subject
  <2>7. turns' = [turns EXCEPT ![t] = new]
    BY <1>0, <2>1 DEF at
  <2> HIDE DEF new
  <2>8. Sound(new)
    BY <2>5, <2>6 DEF Sound
  <2>9. QED
    BY <1>0, <2>5, <2>7, <2>8, OneTurnKeepsTelling
<1>3. CASE ReadRow(t) /\ turns' = [turns EXCEPT ![t].at = "saving", ![t].answer = Fixed]
  <2> DEFINE new == [turns[t] EXCEPT !.at = "saving", !.answer = Fixed]
  <2>1. turns[t].at = "row" /\ turns[t].order = NoOrder
    BY <1>0, <1>3 DEF Sound, ReadRow
  <2>2. new \in Turn /\ new.order = NoOrder /\ new.at = "saving"
    BY <1>0, <1>1, <2>1
  <2>3. turns' = [turns EXCEPT ![t] = new]
    BY <1>0, <1>3
  <2> HIDE DEF new
  <2>4. Sound(new)
    BY <2>2 DEF Sound
  <2>5. QED
    BY <1>0, <2>2, <2>3, <2>4, OneTurnKeepsTelling
<1>4. ASSUME NEW o \in Placed, NEW names \in Naming,
             turns' = [turns EXCEPT ![t].at = "trail", ![t].order = o,
                                    ![t].facts = OrderFacts(stage[o], "none", names)]
      PROVE  TellingInv'
  <2> DEFINE facts == OrderFacts(stage[o], "none", names)
             new == [turns[t] EXCEPT !.at = "trail", !.order = o, !.facts = facts]
  <2>1. o \in Orders /\ stage[o] \in Stage
    BY DEF Placed, TellingInv, TellingTypeOK, LifeTypeOK
  <2>2. facts \in Facts /\ facts.subject = "order" /\ Holds(facts, o)
    BY <2>1, FactsHold DEF TellingInv, TellingTypeOK
  <2> HIDE DEF facts
  <2>3. new \in Turn /\ new.at = "trail" /\ new.order = o /\ new.facts = facts
    BY <1>0, <2>1, <2>2
  <2>4. turns' = [turns EXCEPT ![t] = new]
    BY <1>0, <1>4 DEF facts
  <2> HIDE DEF new
  <2>5. Sound(new)
    BY <2>2, <2>3 DEF Sound
  <2>6. QED
    BY <1>0, <2>3, <2>4, <2>5, OneTurnKeepsTelling
<1>5. CASE ReadTrail(t)
  <2> DEFINE o == turns[t].order
             status == turns[t].facts.status
             names == turns[t].facts.names
             facts == OrderFacts(status, cause[o], names)
             new == [turns[t] EXCEPT !.at = "writing", !.facts = facts]
  <2>1. /\ turns[t].at = "trail"
        /\ turns' = [turns EXCEPT ![t].at = "writing",
                        ![t].facts = OrderFacts(@.status, cause[turns[t].order], @.names)]
    BY <1>5 DEF ReadTrail
  <2>2. turns' = [turns EXCEPT ![t] = new]
    BY <1>0, <2>1
  <2>3. status \in Stage /\ names \in Naming
    BY <1>0 DEF Facts
  <2>4. CASE o = NoOrder
    <3>1. MoneyOf(status, cause[o]) \in {"unknown", "refunded", "refund_incomplete", "not_charged"}
      BY DEF MoneyOf
    <3>2. facts \in Facts
      BY <2>3, <3>1 DEF OrderFacts, Facts, Subject
    <3> HIDE DEF facts
    <3>3. new \in Turn /\ new.order = NoOrder /\ new.at = "writing"
      BY <1>0, <2>4, <3>2
    <3> HIDE DEF new
    <3>4. Sound(new)
      BY <3>3 DEF Sound
    <3>5. QED
      BY <1>0, <2>2, <3>3, <3>4, OneTurnKeepsTelling
  <2>5. CASE o # NoOrder
    <3>1. o \in Orders /\ (status \in Final => stage[o] = status)
      BY <1>0, <2>5 DEF Sound, Holds
    <3>2. /\ facts \in Facts /\ facts.subject = "order" /\ facts.status = status
          /\ Holds(facts, o) /\ (status \in Undone => facts.cause)
      BY <2>3, <3>1, FactsHold DEF TellingInv, TellingTypeOK
    <3> HIDE DEF facts
    <3>3. /\ new \in Turn /\ new.at = "writing" /\ new.order = o /\ new.facts = facts
      BY <1>0, <2>5, <3>2
    <3> HIDE DEF new
    <3>4. Sound(new)
      BY <2>5, <3>2, <3>3 DEF Sound
    <3>5. QED
      BY <1>0, <2>2, <3>3, <3>4, OneTurnKeepsTelling
  <2>6. QED
    BY <2>4, <2>5
<1>6. CASE Search(t)
  <2>1. /\ turns[t].at = "searching" /\ turns[t].order = NoOrder
        /\ turns[t].kind \in Subject
    BY <1>0, <1>6 DEF Search, Sound
  <2> DEFINE found(names) == [turns[t] EXCEPT !.at = "writing",
                                              !.facts = PlainFacts(turns[t].kind, names)]
             nothing == [turns[t] EXCEPT !.at = "saving", !.answer = Fixed]
  <2>2. CASE turns' = [turns EXCEPT ![t] = nothing]
    <3>1. nothing \in Turn /\ nothing.order = NoOrder /\ nothing.at = "saving"
      BY <1>0, <1>1, <2>1
    <3> HIDE DEF nothing
    <3>2. Sound(nothing)
      BY <3>1 DEF Sound
    <3>3. QED
      BY <1>0, <2>2, <3>1, <3>2, OneTurnKeepsTelling
  <2>3. ASSUME NEW names \in Naming, turns' = [turns EXCEPT ![t] = found(names)]
        PROVE  TellingInv'
    <3>1. PlainFacts(turns[t].kind, names) \in Facts
      BY <2>1 DEF PlainFacts, Facts, Stage
    <3>2. found(names) \in Turn /\ found(names).order = NoOrder /\ found(names).at = "writing"
      BY <1>0, <2>1, <3>1
    <3> HIDE DEF found
    <3>3. Sound(found(names))
      BY <3>2 DEF Sound
    <3>4. QED
      BY <1>0, <2>3, <3>2, <3>3, OneTurnKeepsTelling
  <2>4. \/ turns' = [turns EXCEPT ![t] = nothing]
        \/ \E names \in Naming : turns' = [turns EXCEPT ![t] = found(names)]
    BY <1>0, <1>6 DEF Search
  <2>5. QED
    BY <2>2, <2>3, <2>4
<1>7. QED
  BY <1>2, <1>3, <1>4, <1>5, <1>6 DEF ReadRow

\* Writing: what is streamed is not yet an answer, and an answer is checked.
LEMMA WritingKeepsTelling ==
    ASSUME TellingInv, NEW t \in Turns, Say(t, Claims) \/ Guard(t)
    PROVE  TellingInv'
<1> USE DEF Turn, Ended
<1> DEFINE f == turns[t].facts
<1>1. /\ turns \in [Turns -> Turn] /\ turns[t] \in Turn /\ UNCHANGED orderView
      /\ Sound(turns[t]) /\ turns[t].at = "writing"
  BY DEF TellingInv, TellingTypeOK, Say, Guard
<1>2. CASE Say(t, Claims)
  <2>1. PICK c \in Claims : turns' = [turns EXCEPT ![t].text = @ \cup {c}]
    BY <1>2 DEF Say
  <2> DEFINE new == [turns[t] EXCEPT !.text = turns[t].text \cup {c}]
  <2>2. /\ new \in Turn /\ new.at = "writing"
        /\ new.order = turns[t].order /\ new.facts = f
    BY <1>1
  <2>3. turns' = [turns EXCEPT ![t] = new]
    BY <1>1, <2>1
  <2> HIDE DEF new
  <2>4. Sound(new)
    BY <1>1, <2>2 DEF Sound
  <2>5. QED
    BY <1>1, <2>2, <2>3, <2>4, OneTurnKeepsTelling
<1>3. CASE Guard(t)
  <2> DEFINE passed == Checked(f, turns[t].text)
             explains == turns[t].kind = "explain"
             at == IF explains THEN "closed" ELSE "saving"
             text == IF explains THEN passed ELSE turns[t].text
             new == [turns[t] EXCEPT !.answer = passed, !.at = at, !.text = text]
  <2>1. passed \in SUBSET Claims
    <3>1. f.subject \in Subject
      BY <1>1 DEF Facts
    <3>2. Summary(f) \subseteq Claims
      BY DEF Summary, Named, Meaning, Claims
    <3>3. Fallback(f) \subseteq Claims
      BY <3>1, <3>2 DEF Fallback, Named, Subject, Claims
    <3>4. QED
      BY <1>1, <3>3 DEF Checked
  <2>2. turns[t].order # NoOrder => passed \subseteq Supported(f) \cup {"name"}
    BY <1>1, RulesPass DEF Sound, Holds
  <2>3. turns' = [turns EXCEPT ![t] = new]
    BY <1>1, <1>3 DEF Guard
  <2> HIDE DEF passed
  <2>4. /\ new \in Turn /\ new.at = at /\ new.order = turns[t].order /\ new.facts = f
        /\ new.answer = passed /\ new.text = text
    BY <1>1, <2>1
  <2>5. at \in {"closed", "saving"} /\ (at = "closed" => text = passed)
    OBVIOUS
  <2> HIDE DEF new, at, text
  <2>6. Sound(new)
    BY <1>1, <2>2, <2>4, <2>5 DEF Sound
  <2>7. QED
    BY <1>1, <2>3, <2>4, <2>6, OneTurnKeepsTelling
<1>4. QED
  BY <1>2, <1>3

\* Closing: the answer reaches the screen, or the turn ends without it.
LEMMA ClosingKeepsTelling ==
    ASSUME TellingInv, NEW t \in Turns,
           Save(t) \/ LogAndClose(t) \/ Fail(t) \/ ClientGone(t)
    PROVE  TellingInv'
<1> USE DEF Turn, Ended
<1>1. turns \in [Turns -> Turn] /\ turns[t] \in Turn /\ UNCHANGED orderView /\ Sound(turns[t])
  BY DEF TellingInv, TellingTypeOK, Save, LogAndClose, Fail, ClientGone
<1>2. CASE Save(t)
  <2> DEFINE new == [turns[t] EXCEPT !.at = "logging"]
  <2>1. /\ new \in Turn /\ new.at = "logging" /\ new.order = turns[t].order
        /\ new.facts = turns[t].facts /\ new.answer = turns[t].answer
    BY <1>1
  <2>2. turns[t].at = "saving" /\ turns' = [turns EXCEPT ![t] = new]
    BY <1>1, <1>2 DEF Save
  <2> HIDE DEF new
  <2>3. Sound(new)
    BY <1>1, <2>1, <2>2 DEF Sound
  <2>4. QED
    BY <1>1, <2>1, <2>2, <2>3, OneTurnKeepsTelling
<1>3. CASE LogAndClose(t)
  <2> DEFINE new == [turns[t] EXCEPT !.at = "closed", !.text = turns[t].answer]
  <2>1. /\ new \in Turn /\ new.at = "closed" /\ new.order = turns[t].order
        /\ new.facts = turns[t].facts /\ new.answer = turns[t].answer
        /\ new.text = turns[t].answer
    BY <1>1
  <2>2. turns[t].at = "logging" /\ turns' = [turns EXCEPT ![t] = new]
    BY <1>1, <1>3 DEF LogAndClose
  <2> HIDE DEF new
  <2>3. Sound(new)
    BY <1>1, <2>1, <2>2 DEF Sound
  <2>4. QED
    BY <1>1, <2>1, <2>2, <2>3, OneTurnKeepsTelling
<1>4. CASE Fail(t)
  <2> DEFINE new == [Asked EXCEPT !.at = "failed"]
  <2>1. new \in Turn /\ new.at = "failed" /\ new.order = NoOrder
    BY DEF Asked, PlainFacts, Facts, Naming, Subject, Stage
  <2>2. turns' = [turns EXCEPT ![t] = new]
    BY <1>4 DEF Fail
  <2> HIDE DEF new
  <2>3. Sound(new)
    BY <2>1 DEF Sound
  <2>4. QED
    BY <1>1, <2>1, <2>2, <2>3, OneTurnKeepsTelling
<1>5. CASE ClientGone(t)
  <2> DEFINE new == [turns[t] EXCEPT !.at = "gone"]
  <2>1. /\ new \in Turn /\ new.at = "gone" /\ new.order = turns[t].order
        /\ new.facts = turns[t].facts
    BY <1>1
  <2>2. turns[t].at \in {"writing", "saving", "logging"} /\ turns' = [turns EXCEPT ![t] = new]
    BY <1>1, <1>5 DEF ClientGone
  <2> HIDE DEF new
  <2>3. Sound(new)
    BY <1>1, <2>1, <2>2 DEF Sound
  <2>4. QED
    BY <1>1, <2>1, <2>2, <2>3, OneTurnKeepsTelling
<1>6. QED
  BY <1>2, <1>3, <1>4, <1>5

LEMMA TellingStarts == AssistantInit => TellingInv
<1> SUFFICES ASSUME AssistantInit PROVE TellingInv
  OBVIOUS
<1>1. LifeTypeOK /\ EndsAreExplained
  BY DEF AssistantInit, TellingInit, LifeInit, LifeTypeOK, EndsAreExplained, Stage, Answer, Money,
         Cause, Undone
<1>2. Asked \in Turn /\ Asked.at = "asked" /\ Asked.order = NoOrder
  BY DEF Asked, Turn, PlainFacts, Facts, Naming, Subject, Stage
<1>3. Sound(Asked)
  BY <1>2 DEF Sound
<1>4. turns = [t \in Turns |-> Asked]
  BY DEF AssistantInit, TellingInit
<1>5. QED
  BY <1>1, <1>2, <1>3, <1>4 DEF TellingInv, TellingTypeOK

LEMMA TellingStep == TellingInv /\ [AssistantNext]_assistantVars => TellingInv'
<1> SUFFICES ASSUME TellingInv, [AssistantNext]_assistantVars PROVE TellingInv'
  OBVIOUS
<1>1. CASE UNCHANGED tellingVars
  BY <1>1 DEF tellingVars, orderView, TellingInv, TellingTypeOK, LifeTypeOK, EndsAreExplained, Sound, Holds
<1>2. CASE LifeGoesOn
  <2>1. LifeNext /\ turns' = turns
    BY <1>2 DEF LifeGoesOn
  <2>2. LifeTypeOK' /\ EndsAreExplained' /\ EndsStay
    BY <2>1, LivesEndOnce DEF TellingInv, TellingTypeOK
  <2>3. ASSUME NEW t \in Turns PROVE Sound(turns[t])'
    <3>1. Sound(turns[t]) /\ turns[t] \in Turn
      BY DEF TellingInv, TellingTypeOK
    <3>2. CASE turns[t].order = NoOrder
      BY <2>1, <3>1, <3>2 DEF Sound
    <3>3. CASE turns[t].order # NoOrder
      <4>1. turns[t].order \in Orders /\ Holds(turns[t].facts, turns[t].order)
        BY <3>1, <3>3 DEF Sound, Turn
      <4>2. Holds(turns[t].facts, turns[t].order)'
        BY <2>1, <2>2, <4>1 DEF Holds, EndsStay, Final, Undone
      <4>3. QED
        BY <2>1, <3>1, <4>2 DEF Sound
    <3>4. QED
      BY <3>2, <3>3
  <2>4. QED
    BY <2>1, <2>2, <2>3 DEF TellingInv, TellingTypeOK
<1>3. CASE \E t \in Turns : TurnStep(t, Kind, Claims)
  BY <1>3, ReadingKeepsTelling, WritingKeepsTelling, ClosingKeepsTelling DEF TurnStep
<1>4. CASE (\E o \in Orders : Announce(o)) \/ (\E w \in Workers : Counting(w))
  BY <1>1, <1>4 DEF Announce, Counting
<1>5. QED
  BY <1>1, <1>2, <1>3, <1>4 DEF AssistantNext, assistantVars

THEOREM TellingInvariant == AssistantSpec => []TellingInv
BY TellingStarts, TellingStep, PTL DEF AssistantSpec

\* What the customer is left with is true of the order, of whatever claims the
\* model's text is made and however the order goes on.
THEOREM CustomersAreToldTheTruth == AssistantSpec => []ToldIsTrue
<1>1. TellingInv => ToldIsTrue
  <2> SUFFICES ASSUME TellingInv, NEW t \in Turns, turns[t].at = "closed",
                      turns[t].order # NoOrder
               PROVE  LET o == turns[t].order
                          says == turns[t].text
                      IN  /\ "refund" \in says => money[o] = "returned" \/ stage[o] = "compensation_failed"
                          /\ "uncharged" \in says => stage[o] = "cancelled" /\ cause[o] = "payment"
                          /\ "cancelled" \in says => stage[o] \in Undone
                          /\ "delivered" \in says => stage[o] = "delivered"
                          /\ "no_reason" \in says /\ turns[t].facts.status \in Undone => cause[o] = "none"
    BY DEF ToldIsTrue
  <2> DEFINE o == turns[t].order
             f == turns[t].facts
  <2>1. /\ o \in Orders /\ f \in Facts /\ f.subject = "order" /\ Holds(f, o)
        /\ turns[t].text \subseteq Supported(f) \cup {"name"} /\ (f.status \in Undone => f.cause)
    BY DEF TellingInv, TellingTypeOK, Sound, Turn
  <2>2. (Supported(f) \cup {"name"}) \cap {"refund", "uncharged", "cancelled", "delivered", "no_reason"}
          \subseteq MoneyClaims(f) \cup StatusClaims(f) \cup CauseClaims(f)
    BY <2>1 DEF Supported
  <2>3. /\ "refund" \in turns[t].text => f.money \in {"refunded", "refund_incomplete"}
        /\ "uncharged" \in turns[t].text => f.money = "not_charged"
        /\ "cancelled" \in turns[t].text => f.status \in Undone
        /\ "delivered" \in turns[t].text => f.status = "delivered"
        /\ "no_reason" \in turns[t].text => ~f.cause
    BY <2>1, <2>2 DEF MoneyClaims, StatusClaims, CauseClaims
  <2>4. QED
    BY <2>1, <2>3 DEF TellingInv, TellingTypeOK, EndsAreExplained, Holds, Final, Undone
<1>2. QED
  BY <1>1, TellingInvariant, PTL

-----------------------------------------------------------------------------
(* The conversation's memory.                                              *)

Message == [role : {"user", "assistant"}, turn : Turns, text : SUBSET Claims]

\* A turn is asked about an order, all of them or food, and what it says in the
\* end is warranted.
Answers(turn) ==
    /\ turn.at = "searching" => turn.kind \in {"history", "food"}
    /\ turn.at = "trail" => turn.order # NoOrder
    /\ turn.at = "writing" /\ turn.order = NoOrder => turn.facts.subject \in {"history", "food"}
    /\ turn.at = "saving" => Warranted(turn.facts, turn.answer)

Remembered == {"logging", "closed", "gone"}

\* Whoever is in it has been answered.
MemInv ==
    /\ memory \in Seq(Message) /\ MemoryHoldsAnswers
    /\ \A i \in DOMAIN memory : turns[memory[i].turn].at \in Remembered
    /\ \A t \in Turns : Answers(turns[t])

\* What the check returns is warranted, whatever it is about.
LEMMA CheckedIsWarranted ==
    ASSUME NEW turn \in Turn, Sound(turn), turn.at = "writing",
           turn.order = NoOrder => turn.facts.subject \in {"history", "food"}
    PROVE  Warranted(turn.facts, Checked(turn.facts, turn.text))
<1> DEFINE f == turn.facts
<1>1. CASE Passes(f, turn.text)
  BY <1>1 DEF Checked, Warranted
<1>2. CASE ~Passes(f, turn.text) /\ f.names = "misread"
  BY <1>2 DEF Checked, Warranted
<1>3. CASE ~Passes(f, turn.text) /\ f.names # "misread" /\ turn.order # NoOrder
  <2>1. f \in Facts /\ f.subject = "order" /\ Holds(f, turn.order)
    BY <1>3 DEF Sound, Turn
  <2>2. Checked(f, turn.text) \subseteq Supported(f)
    BY <1>3, <2>1, RulesPass DEF Holds
  <2>3. "words" \in Checked(f, turn.text)
    BY <1>3, <2>1 DEF Checked, Fallback, Summary
  <2>4. QED
    BY <2>2, <2>3 DEF Passes, Warranted
<1>4. CASE ~Passes(f, turn.text) /\ f.names # "misread" /\ f.subject \in {"history", "food"}
  BY <1>4 DEF Checked, Fallback, Named, Passes, Supported, Warranted
<1>5. QED
  BY <1>1, <1>2, <1>3, <1>4

\* The parts of the memory that do not change when only turns go on.
LEMMA MemoryKept ==
    ASSUME TellingInv, MemInv, memory' = memory, NEW t \in Turns, NEW new \in Turn,
           turns' = [turns EXCEPT ![t] = new], Answers(new),
           turns[t].at \in Remembered =>
              new.at \in Remembered /\ new.facts = turns[t].facts
    PROVE  MemInv'
<1>1. \A u \in Turns : turns'[u] = IF u = t THEN new ELSE turns[u]
  BY DEF TellingInv, TellingTypeOK
<1>2. \A u \in Turns : Answers(turns[u])'
  BY <1>1 DEF MemInv, Answers
<1>3. \A i \in DOMAIN memory : memory[i].turn \in Turns
  <2>1. \A i \in DOMAIN memory : memory[i] \in Message
    BY ElementOfSeq, LenProperties DEF MemInv
  <2>2. QED
    BY <2>1 DEF Message
<1>4. \A i \in DOMAIN memory :
         /\ turns'[memory[i].turn].at \in Remembered
         /\ turns'[memory[i].turn].facts = turns[memory[i].turn].facts
  BY <1>1, <1>3 DEF MemInv
<1>5. MemoryHoldsAnswers'
  <2>1. \A i \in DOMAIN memory : i % 2 = 0 =>
          Warranted(turns'[memory[i].turn].facts, memory[i].text)
    BY <1>4 DEF MemInv, MemoryHoldsAnswers
  <2>2. QED
    BY <1>4, <2>1 DEF MemInv, MemoryHoldsAnswers, Remembered
<1>6. QED
  BY <1>2, <1>4, <1>5 DEF MemInv

\* Of even and odd places.
LEMMA Parity ==
    ASSUME NEW n \in Nat
    PROVE  /\ n % 2 \in {0, 1} /\ (n + 2) % 2 = n % 2
           /\ n % 2 = 1 <=> (n + 1) % 2 = 0
           /\ \A k \in Nat : n % 2 = k % 2 /\ n < k => n + 2 <= k
  OBVIOUS

\* The places of the memory that an exchange was appended to.
IsPlace(i, d, n, k) ==
    /\ (i + d) % 2 = i % 2
    /\ i + d <= n => i + d \in 1..n
    /\ ~(i + d <= n) /\ i % 2 = 1 => i + d = n + 1
    /\ ~(i + d <= n) /\ i % 2 = 0 => i + d = n + 2
    /\ i % 2 = 1 => /\ i + 1 \in 1..k /\ (i + 1) % 2 = 0
                    /\ i + d <= n => i + d + 1 <= n

LEMMA Places ==
    ASSUME NEW n \in Nat, n % 2 = 0, NEW d \in {0, 2}, NEW k, k = n + 2 - d, NEW i \in 1..k
    PROVE  IsPlace(i, d, n, k)
  BY DEF IsPlace

\* An exchange is appended, ...
IsExtended(l, m, a, b) ==
    /\ l \in Seq(Message) /\ Len(l) = Len(m) + 2
    /\ \A i \in 1..Len(m) + 2 :
          l[i] = IF i <= Len(m) THEN m[i] ELSE IF i = Len(m) + 1 THEN a ELSE b

\* ... and what the trim leaves is all of it, or all but the oldest exchange.
IsTrimmed(n, d, m, a, b) ==
    /\ n \in Seq(Message)
    /\ Len(n) = Len(m) + 2 - d /\ Len(n) <= MaxMessages
    /\ \A i \in 1..Len(n) :
          n[i] = IF i + d <= Len(m) THEN m[i + d] ELSE IF i + d = Len(m) + 1 THEN a ELSE b

LEMMA NewerFacts ==
    ASSUME NEW m \in Seq(Message), Len(m) <= MaxMessages, Len(m) % 2 = 0,
           NEW a, NEW b, NEW l, IsExtended(l, m, a, b), NEW n, n = Newer(l)
    PROVE  \E d \in {0, 2} : IsTrimmed(n, d, m, a, b)
<1> USE DEF IsExtended
<1> DEFINE d == IF Len(m) + 2 <= MaxMessages THEN 0 ELSE 2
<1>1. Len(m) \in Nat /\ MaxMessages \in Nat /\ MaxMessages >= 2 /\ MaxMessages % 2 = 0
  BY AssistantAssumption, LenProperties
<1>5. MaxMessages >= Len(m) + 2 - d /\ Len(m) + 2 - d >= 2 /\ d \in {0, 2}
      /\ (d = 0 \/ MaxMessages = Len(m))
  BY <1>1
<1>6. Min({Len(l), MaxMessages}) = Len(m) + 2 - d
  <2>1. Len(m) + 2 - d \in {Len(l), MaxMessages}
        /\ \A y \in {Len(l), MaxMessages} : Len(m) + 2 - d <= y
    BY <1>1, <1>5
  <2>2. \A x \in {Len(l), MaxMessages} :
           (\A y \in {Len(l), MaxMessages} : x <= y) => x = Len(m) + 2 - d
    BY <1>1, <2>1
  <2> HIDE DEF d
  <2>3. QED
    BY <2>1, <2>2 DEF Min
<1>7. Newer(l) = SubSeq(l, d + 1, Len(m) + 2)
  <2>1. Len(l) - (Len(m) + 2 - d) + 1 = d + 1
    BY <1>1, <1>5
  <2> HIDE DEF d
  <2>2. QED
    BY <1>6, <2>1 DEF Newer
<1> HIDE DEF d
<1>8. /\ Newer(l) \in Seq(Message) /\ Len(Newer(l)) = Len(m) + 2 - d
      /\ \A i \in 1..Len(m) + 2 - d : Newer(l)[i] = l[i + d]
  <2>1. d + 1 \in 1..Len(l) + 1 /\ Len(m) + 2 \in d..Len(l)
    BY <1>1, <1>5
  <2>2. /\ SubSeq(l, d + 1, Len(m) + 2) \in Seq(Message)
        /\ Len(SubSeq(l, d + 1, Len(m) + 2)) = Len(m) + 2 - d
        /\ \A i \in 1..Len(m) + 2 - d : SubSeq(l, d + 1, Len(m) + 2)[i] = l[i + d]
    BY <1>1, <1>5, <2>1, SubSeqProperties
  <2>3. QED
    BY <1>7, <2>2
<1>9. ASSUME NEW i \in 1..Len(m) + 2 - d
      PROVE  Newer(l)[i] = IF i + d <= Len(m) THEN m[i + d]
                           ELSE IF i + d = Len(m) + 1 THEN a ELSE b
  <2>1. i + d \in 1..Len(m) + 2
    BY <1>1, <1>5
  <2>2. QED
    BY <1>8, <2>1
<1>10. IsTrimmed(n, d, m, a, b)
  BY <1>1, <1>5, <1>8, <1>9 DEF IsTrimmed
<1>11. QED
  BY <1>5, <1>10

\* An answered turn's exchange is remembered.
LEMMA AppendKeeps ==
    ASSUME TellingInv, MemInv, NEW t \in Turns, turns[t].at = "saving", AppendTurn(t),
           NEW new \in Turn, turns' = [turns EXCEPT ![t] = new],
           new.at \in Remembered, new.facts = turns[t].facts
    PROVE  MemInv'
<1> DEFINE a == [role |-> "user", turn |-> t, text |-> Fixed]
           b == [role |-> "assistant", turn |-> t, text |-> turns[t].answer]
<1>1. \A u \in Turns : turns'[u] = IF u = t THEN new ELSE turns[u]
  BY DEF TellingInv, TellingTypeOK
<1>2. a \in Message /\ b \in Message
  BY DEF Message, Fixed, Claims, TellingInv, TellingTypeOK, Turn
<1>3. /\ memory \in Seq(Message) /\ Len(memory) \in Nat /\ DOMAIN memory = 1..Len(memory)
      /\ Len(memory) <= MaxMessages /\ Len(memory) % 2 = 0
  BY LenProperties DEF MemInv, MemoryHoldsAnswers
<1>4. PICK d \in {0, 2} : IsTrimmed(memory', d, memory, a, b)
  <2> DEFINE l == memory \o <<a, b>>
  <2>1. memory' = Newer(l)
    BY DEF AppendTurn, Exchange
  <2> HIDE DEF a, b
  <2>2. <<a, b>> \in Seq(Message) /\ Len(<<a, b>>) = 2 /\ <<a, b>>[1] = a /\ <<a, b>>[2] = b
    BY <1>2
  <2>3. /\ l \in Seq(Message) /\ Len(l) = Len(memory) + 2
        /\ \A i \in 1..Len(memory) + 2 :
              l[i] = IF i <= Len(memory) THEN memory[i] ELSE <<a, b>>[i - Len(memory)]
    BY <1>3, <2>2, ConcatProperties
  <2> HIDE DEF l
  <2>4. ASSUME NEW i \in 1..Len(memory) + 2
        PROVE  l[i] = IF i <= Len(memory) THEN memory[i] ELSE IF i = Len(memory) + 1 THEN a ELSE b
    <3>1. i <= Len(memory) \/ i - Len(memory) = 1 \/ i - Len(memory) = 2
      BY <1>3
    <3>2. QED
      BY <1>3, <2>2, <2>3, <3>1
  <2>5. IsExtended(l, memory, a, b)
    BY <2>3, <2>4 DEF IsExtended
  <2>6. QED
    BY <1>3, <2>1, <2>5, NewerFacts
<1>5. /\ memory' \in Seq(Message)
      /\ Len(memory') = Len(memory) + 2 - d /\ Len(memory') <= MaxMessages
      /\ \A i \in 1..Len(memory') :
            memory'[i] = IF i + d <= Len(memory) THEN memory[i + d]
                         ELSE IF i + d = Len(memory) + 1 THEN a ELSE b
  BY <1>4 DEF IsTrimmed
<1>6. DOMAIN memory' = 1..Len(memory') /\ Len(memory') % 2 = 0
  <2>1. Len(memory') \in {Len(memory), Len(memory) + 2}
    BY <1>3, <1>5
  <2>2. QED
    BY <1>3, <1>5, <2>1, Parity, LenProperties
<1>7. \A i \in DOMAIN memory :
         /\ memory[i].turn \in Turns /\ memory[i].turn # t
         /\ turns[memory[i].turn].at \in Remembered
  <2>1. \A i \in DOMAIN memory : memory[i] \in Message
    BY <1>3, ElementOfSeq
  <2>2. QED
    BY <2>1 DEF MemInv, Message, Remembered
<1>8. /\ a.role = "user" /\ a.turn = t /\ a.text = Fixed
      /\ b.role = "assistant" /\ b.turn = t /\ b.text = turns[t].answer
  OBVIOUS
<1>9. Warranted(new.facts, turns[t].answer)
  BY DEF MemInv, Answers
<1> HIDE DEF a, b
<1> DEFINE Old(i) == i + d <= Len(memory)
\* Every place of the new memory is one of the old, or of the exchange.
<1>10. ASSUME NEW i \in 1..Len(memory')
      PROVE  /\ (i + d) % 2 = i % 2
             /\ Old(i) => i + d \in DOMAIN memory /\ memory'[i] = memory[i + d]
             /\ ~Old(i) /\ i % 2 = 1 => i + d = Len(memory) + 1 /\ memory'[i] = a
             /\ ~Old(i) /\ i % 2 = 0 => i + d = Len(memory) + 2 /\ memory'[i] = b
  <2>1. /\ (i + d) % 2 = i % 2
        /\ i + d <= Len(memory) => i + d \in 1..Len(memory)
        /\ ~(i + d <= Len(memory)) /\ i % 2 = 1 => i + d = Len(memory) + 1
        /\ ~(i + d <= Len(memory)) /\ i % 2 = 0 => i + d = Len(memory) + 2
    <3>1. IsPlace(i, d, Len(memory), Len(memory'))
      BY <1>3, <1>5, Places
    <3>2. QED
      BY <3>1 DEF IsPlace
  <2>2. Len(memory) + 2 # Len(memory) + 1
    BY <1>3
  <2>3. QED
    BY <1>3, <1>5, <2>1, <2>2
<1>11. ASSUME NEW i \in 1..Len(memory')
       PROVE  /\ memory'[i].role = (IF i % 2 = 1 THEN "user" ELSE "assistant")
              /\ turns'[memory'[i].turn].at \in Remembered
              /\ i % 2 = 0 => Warranted(turns'[memory'[i].turn].facts, memory'[i].text)
  <2>1. CASE Old(i)
    <3>1. /\ memory[i + d].role = (IF i % 2 = 1 THEN "user" ELSE "assistant")
          /\ i % 2 = 0 => Warranted(turns[memory[i + d].turn].facts, memory[i + d].text)
      BY <1>10, <2>1 DEF MemInv, MemoryHoldsAnswers
    <3>2. turns'[memory[i + d].turn] = turns[memory[i + d].turn]
      BY <1>1, <1>7, <1>10, <2>1
    <3>3. QED
      BY <1>7, <1>10, <2>1, <3>1, <3>2
  <2>2. CASE ~Old(i)
    <3>1. i % 2 = 1 \/ i % 2 = 0
      OBVIOUS
    <3>2. QED
      BY ZenonT(60), <1>1, <1>8, <1>9, <1>10, <2>2, <3>1
  <2>3. QED
    BY <2>1, <2>2
<1>12. ASSUME NEW i \in 1..Len(memory'), i % 2 = 1
       PROVE  memory'[i + 1].turn = memory'[i].turn
  <2>1. /\ i + 1 \in 1..Len(memory') /\ (i + 1) % 2 = 0
        /\ i + d <= Len(memory) => i + d + 1 <= Len(memory)
    <3>1. IsPlace(i, d, Len(memory), Len(memory'))
      BY <1>3, <1>5, Places
    <3>2. QED
      BY <1>12, <3>1 DEF IsPlace
  <2>2. CASE Old(i)
    <3>1. (i + d) % 2 = 1 /\ i + d \in DOMAIN memory /\ i + d + 1 <= Len(memory)
      BY <1>10, <1>12, <2>1, <2>2
    <3>2. Old(i + 1) /\ memory'[i + 1] = memory[i + d + 1] /\ memory'[i] = memory[i + d]
      <4>1. (i + 1) + d = i + d + 1
        BY <1>3, <1>12
      <4>2. Old(i + 1)
        BY <3>1, <4>1
      <4>3. memory'[i + 1] = memory[(i + 1) + d]
        BY <1>10, <2>1, <4>2
      <4>4. memory'[i] = memory[i + d]
        BY <1>10, <1>12, <2>2
      <4>5. QED
        BY <4>1, <4>2, <4>3, <4>4
    <3>3. memory[i + d + 1].turn = memory[i + d].turn
      BY <3>1 DEF MemInv, MemoryHoldsAnswers
    <3>4. QED
      BY <3>2, <3>3
  <2>3. CASE ~Old(i)
    <3>1. ~Old(i + 1)
      BY <1>3, <2>3
    <3>2. memory'[i] = a /\ memory'[i + 1] = b
      BY <1>10, <1>12, <2>1, <2>3, <3>1
    <3>3. QED
      BY <1>8, <3>2
  <2>4. QED
    BY <2>2, <2>3
<1>13. ASSUME NEW i \in 1..Len(memory'), NEW j \in 1..Len(memory'),
              memory'[i].turn = memory'[j].turn, memory'[i].role = memory'[j].role
       PROVE  i = j
  <2>1. i % 2 = j % 2
    <3>1. i % 2 \in {0, 1} /\ j % 2 \in {0, 1}
      OBVIOUS
    <3>2. QED
      BY <1>11, <1>13, <3>1
  <2>2. CASE Old(i) /\ Old(j)
    <3>1. i + d = j + d
      BY <1>10, <1>13, <2>2 DEF MemInv, MemoryHoldsAnswers
    <3>2. QED
      BY <3>1
  <2>3. CASE ~Old(i) /\ ~Old(j)
    <3>1. i + d = j + d
      BY <1>10, <2>1, <2>3
    <3>2. QED
      BY <3>1
  <2>4. ASSUME NEW k \in 1..Len(memory') PROVE memory'[k].turn = t <=> ~Old(k)
    <3>1. k % 2 = 1 \/ k % 2 = 0
      OBVIOUS
    <3>2. QED
      BY <1>7, <1>8, <1>10, <3>1
  <2>5. QED
    BY <1>13, <2>2, <2>3, <2>4
<1>14. \A u \in Turns : Answers(turns[u])'
  BY <1>1 DEF MemInv, Answers, Remembered
<1>15. MemoryHoldsAnswers'
  BY <1>5, <1>6, <1>11, <1>12, <1>13 DEF MemoryHoldsAnswers, Remembered
<1>16. QED
  BY <1>5, <1>6, <1>11, <1>14, <1>15 DEF MemInv

\* Turns on their way to an answer.
LEMMA AskingKeepsMemory ==
    ASSUME TellingInv, MemInv, NEW t \in Turns,
           Route(t, Kind) \/ ReadRow(t) \/ ReadTrail(t) \/ Search(t) \/ Say(t, Claims)
             \/ Guard(t) \/ Fail(t),
           TellingInv'
    PROVE  MemInv'
<1> DEFINE new == turns'[t]
           old == turns[t]
<1>1. /\ memory' = memory /\ turns \in [Turns -> Turn] /\ old \in Turn /\ Sound(old)
      /\ new \in Turn /\ old.at \notin Remembered /\ Answers(old)
  BY DEF TellingInv, TellingTypeOK, MemInv, Remembered, Route, ReadRow, ReadTrail, Search, Say,
         Guard, Fail
<1>2. turns' = [turns EXCEPT ![t] = new]
  BY <1>1 DEF Route, ReadRow, ReadTrail, Search, Say, Guard, Fail
<1>3. Answers(new)
  <2>1. CASE Route(t, Kind)
    BY <1>1, <2>1 DEF Route, Answers, Warranted, Kind
  <2>2. CASE ReadRow(t)
    <3>1. CASE turns' = [turns EXCEPT ![t].at = "saving", ![t].answer = Fixed]
      BY <1>1, <3>1 DEF Answers, Warranted, Turn
    <3>2. ASSUME NEW o \in Placed, NEW names \in Naming,
                 turns' = [turns EXCEPT ![t].at = "trail", ![t].order = o,
                                        ![t].facts = OrderFacts(stage[o], "none", names)]
          PROVE  Answers(new)
      <4>1. new.at = "trail" /\ new.order = o
        BY <1>1, <3>2 DEF Turn
      <4>2. QED
        BY <4>1, AttributionAssumption DEF Answers, Placed
    <3>3. QED
      BY <2>2, <3>1, <3>2 DEF ReadRow
  <2>3. CASE ReadTrail(t)
    BY <1>1, <2>3 DEF ReadTrail, Answers, Turn
  <2>4. CASE Search(t)
    BY <1>1, <2>4 DEF Search, Answers, Warranted, PlainFacts, Turn
  <2>5. CASE Say(t, Claims)
    BY <1>1, <2>5 DEF Say, Answers, Turn
  <2>6. CASE Guard(t)
    <3>1. old.at = "writing" /\ Warranted(old.facts, Checked(old.facts, old.text))
      BY <1>1, <2>6, CheckedIsWarranted DEF Guard, Answers
    <3>2. /\ new.at \in {"closed", "saving"}
          /\ new.facts = old.facts /\ new.answer = Checked(old.facts, old.text)
      BY <1>1, <2>6 DEF Guard, Turn
    <3>3. QED
      BY <3>1, <3>2 DEF Answers
  <2>7. CASE Fail(t)
    BY <1>1, <2>7 DEF Fail, Answers, Asked
  <2>8. QED
    BY <2>1, <2>2, <2>3, <2>4, <2>5, <2>6, <2>7
<1> HIDE DEF new
<1>4. QED
  BY <1>1, <1>2, <1>3, MemoryKept

\* Turns that are answered, and those left before they were.
LEMMA ClosingKeepsMemory ==
    ASSUME TellingInv, MemInv, NEW t \in Turns, Save(t) \/ LogAndClose(t) \/ ClientGone(t),
           TellingInv'
    PROVE  MemInv'
<1> DEFINE new == turns'[t]
           old == turns[t]
<1>1. /\ turns \in [Turns -> Turn] /\ old \in Turn /\ new \in Turn
  BY DEF TellingInv, TellingTypeOK
<1>2. /\ turns' = [turns EXCEPT ![t] = new]
      /\ new.at \in Remembered /\ new.facts = old.facts
  BY <1>1 DEF Save, LogAndClose, ClientGone, Remembered, Turn
<1>3. Answers(new)
  BY <1>2 DEF Answers, Remembered
<1>4. memory' = memory \/ (old.at = "saving" /\ AppendTurn(t))
  BY DEF Save, LogAndClose, ClientGone
<1> HIDE DEF new
<1>5. QED
  BY <1>1, <1>2, <1>3, <1>4, MemoryKept, AppendKeeps

LEMMA MemoryStep ==
    ASSUME TellingInv, MemInv, [AssistantNext]_assistantVars, TellingInv'
    PROVE  MemInv'
<1>1. CASE UNCHANGED <<turns, memory>>
  BY <1>1 DEF MemInv, MemoryHoldsAnswers, Answers
<1>2. ASSUME NEW t \in Turns, TurnStep(t, Kind, Claims) PROVE MemInv'
  BY <1>2, AskingKeepsMemory, ClosingKeepsMemory DEF TurnStep
<1>3. CASE \/ LifeGoesOn \/ (\E o \in Orders : Announce(o)) \/ (\E w \in Workers : Counting(w))
           \/ UNCHANGED assistantVars
  BY <1>1, <1>3 DEF LifeGoesOn, Announce, Counting, assistantVars, tellingVars
<1>4. QED
  BY <1>1, <1>2, <1>3 DEF AssistantNext

\* The conversation holds whole exchanges, each once, and no answer but fixed
\* ones, those that pass their check and, of names the check misreads, the rules',
\* however many turns are open and whoever leaves.
THEOREM TheMemoryHoldsAnswers == AssistantSpec => []MemoryHoldsAnswers
<1>1. AssistantInit => MemInv
  <2> SUFFICES ASSUME AssistantInit PROVE MemInv
    OBVIOUS
  <2>1. memory = <<>> /\ turns = [t \in Turns |-> Asked]
    BY DEF AssistantInit, TellingInit
  <2>2. memory \in Seq(Message) /\ Len(memory) = 0 /\ DOMAIN memory = {}
    BY <2>1, EmptySeq
  <2>3. MaxMessages >= 0
    BY AssistantAssumption
  <2>4. MemoryHoldsAnswers
    BY <2>2, <2>3 DEF MemoryHoldsAnswers
  <2>5. \A t \in Turns : Answers(turns[t])
    BY <2>1 DEF Answers, Asked
  <2>6. QED
    BY <2>2, <2>4, <2>5 DEF MemInv
<1>2. MemInv => MemoryHoldsAnswers
  BY DEF MemInv
<1>3. QED
  BY <1>1, <1>2, MemoryStep, TellingInvariant, PTL DEF AssistantSpec

-----------------------------------------------------------------------------
\* The turns are one of the logs that attribution is right about: beside them,
\* too, an order is credited once.
THEOREM AssistantImplementsAttribution == AssistantSpec => AttributionSpec
<1>1. AssistantInit => AttributionInit
  BY DEF AssistantInit
<1>2. ASSUME [AssistantNext]_assistantVars PROVE [AttributionNext]_attributionVars
  <2>1. CASE UNCHANGED attributionVars
    BY <2>1
  <2>2. ASSUME NEW t \in Turns, TurnStep(t, Kind, Claims)
        PROVE  [AttributionNext]_attributionVars
    <3>1. UNCHANGED attributionVars \/ Record(t, Logged(t))
      BY <2>2 DEF TurnStep, Route, ReadRow, ReadTrail, Search, Say, Guard, Save, LogAndClose, Fail,
                  ClientGone
    <3>2. Logged(t) \in {"plain", "named"}
      BY DEF Logged
    <3>3. QED
      BY <3>1, <3>2 DEF AttributionNext
  <2>3. QED
    BY <1>2, <2>1, <2>2 DEF AssistantNext, assistantVars, LifeGoesOn, Announce, Counting,
                           AttributionNext
<1>3. QED
  BY <1>1, <1>2, PTL DEF AssistantSpec, AttributionSpec
=============================================================================
