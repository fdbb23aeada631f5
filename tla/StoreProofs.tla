---------------------------- MODULE StoreProofs ----------------------------
(***************************************************************************)
(* Proofs about the three databases the saga writes, each for any orders,  *)
(* riders, restaurants, capacities and numbers of attempts, and for any    *)
(* requests, however often and in whatever order they arrive.              *)
(*                                                                         *)
(* Orders: the trail tells the order's story and nothing promised is taken *)
(* back.  Their proofs go through NextCases: a transaction changes         *)
(* nothing, or one order's status with a trail entry, or one column of one *)
(* order.  Payments: an order's card is charged at most once, under either *)
(* key, and wherever an execution of authorise() crashes.  Riders: no      *)
(* order has two.                                                          *)
(***************************************************************************)
EXTENDS OrderStore, PaymentStore, RiderFleet, SequenceTheorems, TLAPS

(* Orders.                                                                 *)
\* One order enters a status of higher rank, and its trail says so.
StatusStep(o, new, r) ==
    /\ orders[o].status \notin Terminal
    /\ Rank[orders[o].status] < Rank[new]
    /\ orders' = Moved(o, new, r)
    /\ trail' = Logged(o, new)

\* The kitchen answers an order on its rail, or a rider's report moves on.
DecisionStep(o, d) ==
    OnRail(o) /\ orders' = [orders EXCEPT ![o].decision = d] /\ trail' = trail

ReportStep(o, g) ==
    /\ StageRank[g] > StageRank[orders[o].reported]
    /\ orders' = [orders EXCEPT ![o].reported = g]
    /\ trail' = trail

\* A row is moved by a guard that lets it move: the compare-and-set's clauses
\* amount to a strictly greater rank, the two ways to be undone included.
LEMMA CanMoveRaisesRank ==
    ASSUME NEW o \in Orders, NEW new \in OrderStatus,
           orders[o].status \in OrderStatus \cup {"absent"}, CanMove(o, new)
    PROVE  orders[o].status \notin Terminal /\ Rank[orders[o].status] < Rank[new]
  BY DEF CanMove, Exists, Undone, Terminal, Rank, OrderStatus

LEMMA NextCases ==
    ASSUME OrdersTypeOK, [OrdersNext]_orderVars
    PROVE  \/ orders' = orders /\ trail' = trail
           \/ \E o \in Orders, new \in OrderStatus, r \in Riders \cup {None} :
                 StatusStep(o, new, r)
           \/ \E o \in Orders, d \in Decision : DecisionStep(o, d)
           \/ \E o \in Orders, g \in ReportStage : ReportStep(o, g)
<1> DEFINE Goal == \/ orders' = orders /\ trail' = trail
                   \/ \E o \in Orders, new \in OrderStatus, r \in Riders \cup {None} :
                         StatusStep(o, new, r)
                   \/ \E o \in Orders, d \in Decision : DecisionStep(o, d)
                   \/ \E o \in Orders, g \in ReportStage : ReportStep(o, g)
<1>1. CASE UNCHANGED orderVars
  BY <1>1 DEF orderVars
<1>2. ASSUME NEW o \in Orders
      PROVE  orders[o] \in OrderRow /\ orders[o].status \in OrderStatus \cup {"absent"}
  BY DEF OrdersTypeOK, OrderRow
<1>3. ASSUME NEW o \in Orders, NEW new \in OrderStatus, NEW r \in Riders \cup {None},
             CanMove(o, new), orders' = Moved(o, new, r), trail' = Logged(o, new)
      PROVE  Goal
  BY <1>2, <1>3, CanMoveRaisesRank DEF StatusStep
<1>4. ASSUME NEW o \in Orders, InsertOrder(o) PROVE Goal
  <2>1. orders' = Moved(o, "created", None)
    BY <1>2, <1>4 DEF InsertOrder, Moved, Carrier, OrdersTypeOK, OrderRow
  <2>2. "created" \in OrderStatus /\ trail' = Logged(o, "created")
    BY <1>4 DEF InsertOrder, OrderStatus
  <2>3. orders[o].status \notin Terminal /\ Rank[orders[o].status] < Rank["created"]
    BY <1>4 DEF InsertOrder, CanInsert, Exists, Terminal, Rank, OrderStatus
  <2>4. QED
    BY <2>1, <2>2, <2>3 DEF StatusStep
<1>5. ASSUME NEW o \in Orders, NEW new \in OrderStatus, NEW r \in Riders \cup {None},
             Transition(o, new, r)
      PROVE  Goal
  BY <1>3, <1>5 DEF Transition
<1>6. ASSUME NEW o \in Orders, CountRail(o) PROVE Goal
  BY <1>6 DEF CountRail
<1>7. ASSUME NEW o \in Orders, ConfirmCounted(o) PROVE Goal
  <2>1. "confirmed" \in OrderStatus
    BY DEF OrderStatus
  <2>2. QED
    BY <1>3, <1>7, <2>1 DEF ConfirmCounted
<1>8. ASSUME NEW o \in Orders, NEW d \in Decision, DecideKitchen(o, d) PROVE Goal
  BY <1>8 DEF DecideKitchen, DecisionStep
<1>9. ASSUME NEW o \in Orders, NEW g \in ReportStage, RecordRiderReport(o, g) PROVE Goal
  BY <1>9 DEF RecordRiderReport, ReportStep
<1>10. QED
  BY <1>1, <1>4, <1>5, <1>6, <1>7, <1>8, <1>9 DEF OrdersNext

-----------------------------------------------------------------------------
LEMMA LastEnteredType ==
    ASSUME OrdersTypeOK, NEW o \in Orders
    PROVE  LastEntered(o) \in OrderStatus \cup {"absent"}
<1>1. trail[o] \in Seq(TrailEntry)
  BY DEF OrdersTypeOK
<1>2. CASE trail[o] = <<>>
  BY <1>2 DEF LastEntered
<1>3. CASE trail[o] # <<>>
  <2>1. trail[o][Len(trail[o])] \in TrailEntry
    BY <1>1, <1>3, LenProperties, EmptySeq, ElementOfSeq
  <2>2. QED
    BY <1>3, <2>1 DEF LastEntered, TrailEntry
<1>4. QED
  BY <1>2, <1>3

\* What one more entry does to the trails.
LEMMA LoggedProperties ==
    ASSUME OrdersTypeOK, NEW o \in Orders, NEW new \in OrderStatus
    PROVE  LET e == [old |-> LastEntered(o), new |-> new]
               t == Logged(o, new)
           IN  /\ e \in TrailEntry
               /\ t \in [Orders -> Seq(TrailEntry)]
               /\ Len(t[o]) = Len(trail[o]) + 1
               /\ t[o][Len(t[o])] = e
               /\ \A i \in 1..Len(trail[o]) : t[o][i] = trail[o][i]
               /\ \A q \in Orders \ {o} : t[q] = trail[q]
<1> DEFINE e == [old |-> LastEntered(o), new |-> new]
<1>1. e \in TrailEntry
  BY LastEnteredType DEF TrailEntry
<1>2. trail[o] \in Seq(TrailEntry) /\ trail \in [Orders -> Seq(TrailEntry)]
  BY DEF OrdersTypeOK
<1>3. /\ Append(trail[o], e) \in Seq(TrailEntry)
      /\ Len(Append(trail[o], e)) = Len(trail[o]) + 1
      /\ \A i \in 1..Len(trail[o]) : Append(trail[o], e)[i] = trail[o][i]
      /\ Append(trail[o], e)[Len(trail[o]) + 1] = e
  BY <1>1, <1>2, AppendProperties, LenProperties
<1>4. Logged(o, new) = [trail EXCEPT ![o] = Append(trail[o], e)]
  BY DEF Logged
<1> HIDE DEF e
<1>5. QED
  BY <1>1, <1>2, <1>3, <1>4 DEF e

\* ... and moving an order to its row, its own and nobody else's.
LEMMA MovedProperties ==
    ASSUME OrdersTypeOK, NEW o \in Orders, NEW new \in OrderStatus,
           NEW r \in Riders \cup {None}
    PROVE  LET m == Moved(o, new, r)
           IN  /\ m \in [Orders -> OrderRow]
               /\ m[o].status = new /\ m[o].rider = Carrier(o, r)
               /\ m[o].decision = orders[o].decision /\ m[o].reported = orders[o].reported
               /\ \A q \in Orders \ {o} : m[q] = orders[q]
<1> DEFINE row == [orders[o] EXCEPT !.status = new, !.rider = Carrier(o, r)]
<1>1. orders[o] \in OrderRow /\ orders \in [Orders -> OrderRow]
  BY DEF OrdersTypeOK
<1>2. Carrier(o, r) \in Riders \cup {None}
  BY <1>1 DEF Carrier, OrderRow
<1>3. /\ row \in OrderRow
      /\ row.status = new /\ row.rider = Carrier(o, r)
      /\ row.decision = orders[o].decision /\ row.reported = orders[o].reported
  BY <1>1, <1>2 DEF OrderRow
<1>4. Moved(o, new, r) = [orders EXCEPT ![o] = row]
  BY <1>1 DEF Moved
<1> HIDE DEF row
<1>5. QED
  BY <1>1, <1>3, <1>4

LEMMA OrdersTypeStep ==
    ASSUME OrdersTypeOK, [OrdersNext]_orderVars
    PROVE  OrdersTypeOK'
<1>1. counted' \subseteq Orders
  BY DEF OrdersTypeOK, OrdersNext, orderVars, InsertOrder, Transition, CountRail,
         ConfirmCounted, DecideKitchen, RecordRiderReport
<1>2. CASE orders' = orders /\ trail' = trail
  BY <1>1, <1>2 DEF OrdersTypeOK
<1>3. ASSUME NEW o \in Orders, NEW new \in OrderStatus, NEW r \in Riders \cup {None},
             StatusStep(o, new, r)
      PROVE  OrdersTypeOK'
  <2>1. trail' \in [Orders -> Seq(TrailEntry)]
    BY <1>3, LoggedProperties DEF StatusStep
  <2>2. orders' \in [Orders -> OrderRow]
    BY <1>3, MovedProperties DEF StatusStep
  <2>3. QED
    BY <1>1, <2>1, <2>2 DEF OrdersTypeOK
<1>4. ASSUME NEW o \in Orders, NEW d \in Decision, DecisionStep(o, d) PROVE OrdersTypeOK'
  BY ZenonT(60), <1>1, <1>4 DEF DecisionStep, OrdersTypeOK, OrderRow
<1>5. ASSUME NEW o \in Orders, NEW g \in ReportStage, ReportStep(o, g) PROVE OrdersTypeOK'
  BY ZenonT(60), <1>1, <1>5 DEF ReportStep, OrdersTypeOK, OrderRow
<1>6. QED
  BY NextCases, <1>2, <1>3, <1>4, <1>5

\* Every row, trail entry and counted order keeps its shape.
THEOREM OrdersTypeCorrect == OrdersSpec => []OrdersTypeOK
<1>1. OrdersInit => OrdersTypeOK
  BY EmptySeq DEF OrdersInit, OrdersTypeOK, AbsentRow, OrderRow
<1>2. QED
  BY <1>1, OrdersTypeStep, PTL DEF OrdersSpec

-----------------------------------------------------------------------------
(* The trail.  TrailTellsStatus and TrailMovesForward are inductive        *)
(* together with the types: a new entry starts where the last one ended,   *)
(* which is the status whose rank the guard compared.                      *)

TrailInv == OrdersTypeOK /\ TrailTellsStatus /\ TrailMovesForward

LEMMA TrailStep ==
    ASSUME TrailInv, [OrdersNext]_orderVars
    PROVE  TrailInv'
<1> USE DEF TrailInv
<1>1. OrdersTypeOK'
  BY OrdersTypeStep
<1>2. CASE orders' = orders /\ trail' = trail
  BY <1>1, <1>2 DEF TrailTellsStatus, TrailMovesForward, LastEntered
<1>3. ASSUME NEW o \in Orders, NEW new \in OrderStatus, NEW r \in Riders \cup {None},
             StatusStep(o, new, r)
      PROVE  TrailInv'
  <2> DEFINE e == [old |-> LastEntered(o), new |-> new]
             t == Logged(o, new)
  <2>1. /\ e \in TrailEntry
        /\ t \in [Orders -> Seq(TrailEntry)]
        /\ Len(t[o]) = Len(trail[o]) + 1 /\ t[o][Len(t[o])] = e
        /\ \A i \in 1..Len(trail[o]) : t[o][i] = trail[o][i]
        /\ \A q \in Orders \ {o} : t[q] = trail[q]
    BY LoggedProperties
  <2>2. trail' = t /\ orders' = Moved(o, new, r)
    BY <1>3 DEF StatusStep
  <2>3. \A q \in Orders : trail[q] \in Seq(TrailEntry) /\ Len(trail[q]) \in Nat
    BY LenProperties DEF OrdersTypeOK
  <2>4. LastEntered(o) = orders[o].status
    BY DEF TrailTellsStatus
  <2> HIDE DEF t
  <2>5. TrailTellsStatus'
    <3>1. t[o] # <<>> /\ LastEntered(o)' = new
      <4>1. Len(t[o]) # 0
        BY <2>1, <2>3
      <4>2. t[o] # <<>>
        BY <4>1, EmptySeq
      <4>3. QED
        BY <2>1, <2>2, <4>2 DEF LastEntered
    <3>2. \A q \in Orders \ {o} : LastEntered(q)' = LastEntered(q)
      BY <2>1, <2>2 DEF LastEntered
    <3>3. QED
      BY <2>2, <3>1, <3>2, MovedProperties DEF TrailTellsStatus
  <2>6. TrailMovesForward'
    <3> SUFFICES ASSUME NEW q \in Orders, NEW i \in 1..Len(t[q])
                 PROVE  /\ Rank[t[q][i].old] < Rank[t[q][i].new]
                        /\ t[q][i].old \notin Terminal
                        /\ i > 1 => t[q][i].old = t[q][i - 1].new
      BY <2>2 DEF TrailMovesForward
    <3>1. CASE q # o
      BY <2>1, <3>1 DEF TrailMovesForward
    <3>2. CASE q = o /\ i \in 1..Len(trail[o])
      <4>1. i > 1 => i - 1 \in 1..Len(trail[o])
        BY <2>3, <3>2
      <4>2. QED
        BY <2>1, <3>2, <4>1 DEF TrailMovesForward
    <3>3. CASE q = o /\ i = Len(trail[o]) + 1
      <4>1. t[q][i] = e
        BY <2>1, <3>3
      <4>2. Rank[e.old] < Rank[e.new] /\ e.old \notin Terminal
        BY <1>3, <2>4 DEF StatusStep
      <4>3. ASSUME i > 1 PROVE e.old = t[q][i - 1].new
        <5>1. i - 1 = Len(trail[o]) /\ i - 1 \in 1..Len(trail[o])
          BY <2>3, <3>3, <4>3
        <5>2. trail[o] # <<>>
          BY <5>1, EmptySeq
        <5>3. QED
          BY <2>1, <3>3, <5>1, <5>2 DEF LastEntered
      <4>4. QED
        BY <4>1, <4>2, <4>3
    <3>4. QED
      BY <2>1, <2>3, <3>1, <3>2, <3>3
  <2>7. QED
    BY <1>1, <2>5, <2>6
<1>4. ASSUME NEW o \in Orders, NEW d \in Decision, DecisionStep(o, d) PROVE TrailInv'
  BY <1>1, <1>4 DEF DecisionStep, OrdersTypeOK, OrderRow,
                    TrailTellsStatus, TrailMovesForward, LastEntered
<1>5. ASSUME NEW o \in Orders, NEW g \in ReportStage, ReportStep(o, g) PROVE TrailInv'
  BY <1>1, <1>5 DEF ReportStep, OrdersTypeOK, OrderRow,
                    TrailTellsStatus, TrailMovesForward, LastEntered
<1>6. QED
  BY NextCases, <1>2, <1>3, <1>4, <1>5

LEMMA TrailInvariant == OrdersSpec => []TrailInv
<1>1. OrdersInit => TrailInv
  <2> SUFFICES ASSUME OrdersInit PROVE TrailInv
    OBVIOUS
  <2>1. OrdersTypeOK
    BY EmptySeq DEF OrdersInit, OrdersTypeOK, AbsentRow, OrderRow
  <2>2. TrailTellsStatus
    BY DEF OrdersInit, TrailTellsStatus, LastEntered, AbsentRow
  <2>3. TrailMovesForward
    BY EmptySeq DEF OrdersInit, TrailMovesForward
  <2>4. QED
    BY <2>1, <2>2, <2>3 DEF TrailInv
<1>2. QED
  BY <1>1, TrailStep, PTL DEF OrdersSpec

\* However a transition is replayed or overtaken, the trail ends in the status
\* the order has, and is empty while there is no order.
THEOREM TrailIsTrue == OrdersSpec => []TrailTellsStatus
<1>1. TrailInv => TrailTellsStatus
  BY DEF TrailInv
<1>2. QED
  BY <1>1, TrailInvariant, PTL

\* Along its trail an order only moves forward, and leaves no terminal status.
THEOREM TrailIsMonotone == OrdersSpec => []TrailMovesForward
<1>1. TrailInv => TrailMovesForward
  BY DEF TrailInv
<1>2. QED
  BY <1>1, TrailInvariant, PTL

\* Whoever asks the kitchen's answer to be written, and when, it is taken only of
\* an order that has been confirmed.
LEMMA AnswerStep ==
    ASSUME TrailInv, AnsweredWasConfirmed, [OrdersNext]_orderVars
    PROVE  AnsweredWasConfirmed'
<1> DEFINE Confirmed(t, p) == \E i \in 1..Len(t[p]) : t[p][i].new = "confirmed"
<1>1. OrdersTypeOK /\ TrailTellsStatus
  BY DEF TrailInv
<1>2. \A p \in Orders : orders[p].decision # "none" => Confirmed(trail, p)
  BY DEF AnsweredWasConfirmed
<1>3. SUFFICES \A p \in Orders : orders'[p].decision # "none" => Confirmed(trail', p)
  BY DEF AnsweredWasConfirmed
<1>4. CASE orders' = orders /\ trail' = trail
  BY <1>2, <1>4
<1>5. ASSUME NEW o \in Orders, NEW new \in OrderStatus, NEW r \in Riders \cup {None},
             StatusStep(o, new, r), NEW p \in Orders, orders'[p].decision # "none"
      PROVE  Confirmed(trail', p)
  <2> DEFINE m == Moved(o, new, r)
             t == Logged(o, new)
  <2>1. orders' = m /\ trail' = t
    BY <1>5 DEF StatusStep
  <2>2. orders'[p].decision = orders[p].decision
    <3>1. m[p].decision = orders[p].decision
      BY <1>1 DEF Moved, OrdersTypeOK, OrderRow
    <3>2. QED
      BY <2>1, <3>1
  <2>3. PICK i \in 1..Len(trail[p]) : trail[p][i].new = "confirmed"
    BY <1>2, <1>5, <2>2
  <2>4. Len(trail[p]) \in Nat
    BY <1>1, LenProperties DEF OrdersTypeOK
  <2>5. i \in 1..Len(t[p]) /\ t[p][i] = trail[p][i]
    <3>1. /\ Len(t[o]) = Len(trail[o]) + 1
          /\ \A j \in 1..Len(trail[o]) : t[o][j] = trail[o][j]
          /\ \A q \in Orders \ {o} : t[q] = trail[q]
      BY <1>1, LoggedProperties
    <3> HIDE DEF t
    <3>2. QED
      BY <2>3, <2>4, <3>1
  <2>6. QED
    BY <2>1, <2>3, <2>5
<1>6. ASSUME NEW o \in Orders, NEW d \in Decision, DecisionStep(o, d), NEW p \in Orders,
             orders'[p].decision # "none"
      PROVE  Confirmed(trail', p)
  <2>1. trail' = trail
    BY <1>6 DEF DecisionStep
  <2>2. CASE p = o
    <3>1. LastEntered(o) = "confirmed"
      BY <1>1, <1>6 DEF DecisionStep, OnRail, TrailTellsStatus
    <3>2. trail[o] \in Seq(TrailEntry) /\ trail[o] # <<>>
      BY <1>1, <3>1 DEF LastEntered, OrdersTypeOK
    <3>3. Len(trail[o]) \in 1..Len(trail[o]) /\ trail[o][Len(trail[o])].new = "confirmed"
      BY <3>1, <3>2, EmptySeq, LenProperties DEF LastEntered
    <3>4. QED
      BY <2>1, <2>2, <3>3
  <2>3. CASE p # o
    BY <1>1, <1>2, <1>6, <2>1, <2>3 DEF DecisionStep, OrdersTypeOK
  <2>4. QED
    BY <2>2, <2>3
<1>7. ASSUME NEW o \in Orders, NEW g \in ReportStage, ReportStep(o, g), NEW p \in Orders,
             orders'[p].decision # "none"
      PROVE  Confirmed(trail', p)
  BY <1>1, <1>2, <1>7 DEF ReportStep, OrdersTypeOK, OrderRow
<1>8. QED
  BY <1>1, <1>4, <1>5, <1>6, <1>7, NextCases

\* The kitchen's answer is only on orders that have been confirmed.
THEOREM AnswersAreOfConfirmed == OrdersSpec => []AnsweredWasConfirmed
<1>1. OrdersInit => AnsweredWasConfirmed
  BY DEF OrdersInit, AnsweredWasConfirmed, AbsentRow
<1>2. QED
  BY <1>1, AnswerStep, TrailInvariant, PTL DEF OrdersSpec

-----------------------------------------------------------------------------
\* No request takes back a terminal status, a kitchen's answer or a rider's
\* report; a recorded rider may be replaced by another, but is never cleared.
THEOREM NothingIsTakenBack == OrdersSpec => NeverTakenBack
<1>1. ASSUME OrdersTypeOK, [OrdersNext]_orderVars PROVE RowNeverTakenBack
  <2>1. \A o \in Orders : StageRank[orders[o].reported] \in Nat
    BY <1>1 DEF StageRank, ReportStage, OrdersTypeOK, OrderRow
  <2>2. CASE orders' = orders /\ trail' = trail
    BY <2>1, <2>2 DEF RowNeverTakenBack
  <2>3. ASSUME NEW o \in Orders, NEW new \in OrderStatus, NEW r \in Riders \cup {None},
               StatusStep(o, new, r)
        PROVE  RowNeverTakenBack
    <3>1. orders[o].rider # None => Carrier(o, r) # None
      BY DEF Carrier
    <3>2. orders' = Moved(o, new, r) /\ orders[o].status \notin Terminal
      BY <2>3 DEF StatusStep
    <3>3. /\ orders'[o].rider = Carrier(o, r)
          /\ orders'[o].decision = orders[o].decision
          /\ orders'[o].reported = orders[o].reported
          /\ \A q \in Orders \ {o} : orders'[q] = orders[q]
      BY <1>1, <3>2, MovedProperties
    <3>4. QED
      BY <2>1, <3>1, <3>2, <3>3 DEF RowNeverTakenBack
  <2>4. ASSUME NEW o \in Orders, NEW d \in Decision, DecisionStep(o, d)
        PROVE  RowNeverTakenBack
    <3>1. orders'[o] = [orders[o] EXCEPT !.decision = d]
      BY <1>1, <2>4 DEF DecisionStep, OrdersTypeOK
    <3>2. /\ orders[o].decision = "none"
          /\ \A q \in Orders \ {o} : orders'[q] = orders[q]
      BY <1>1, <2>4 DEF DecisionStep, OnRail, OrdersTypeOK
    <3>3. /\ orders'[o].status = orders[o].status
          /\ orders'[o].reported = orders[o].reported
          /\ orders'[o].rider = orders[o].rider
      BY <1>1, <3>1 DEF OrdersTypeOK, OrderRow
    <3>4. QED
      BY <2>1, <3>2, <3>3 DEF RowNeverTakenBack
  <2>5. ASSUME NEW o \in Orders, NEW g \in ReportStage, ReportStep(o, g)
        PROVE  RowNeverTakenBack
    <3>1. orders'[o] = [orders[o] EXCEPT !.reported = g]
      BY <1>1, <2>5 DEF ReportStep, OrdersTypeOK
    <3>2. /\ StageRank[g] > StageRank[orders[o].reported] /\ StageRank[g] \in Nat
          /\ \A q \in Orders \ {o} : orders'[q] = orders[q]
      BY <1>1, <2>5 DEF ReportStep, OrdersTypeOK, StageRank, ReportStage
    <3>3. /\ orders'[o].status = orders[o].status
          /\ orders'[o].decision = orders[o].decision
          /\ orders'[o].reported = g
          /\ orders'[o].rider = orders[o].rider
      BY <1>1, <3>1 DEF OrdersTypeOK, OrderRow
    <3>4. QED
      BY <2>1, <3>2, <3>3 DEF RowNeverTakenBack
  <2>6. QED
    BY <1>1, NextCases, <2>2, <2>3, <2>4, <2>5
<1>2. QED
  BY <1>1, OrdersTypeCorrect, PTL DEF OrdersSpec, NeverTakenBack

-----------------------------------------------------------------------------
(* Payments.                                                               *)
\* An execution that has inserted the order's row, and not died since.
HasInserted(c) == auth[c] \in {"inserted", "charged", "marked"}

\* ChargedAtMostOnce is not inductive: it needs to know that the execution
\* about to charge is the only one that inserted, and has not charged yet.
InserterIsAlone ==
    \A c, d \in AuthCall :
        c.order = d.order /\ HasInserted(c) /\ HasInserted(d) => c = d

InserterIsUncharged ==
    \A c \in AuthCall : auth[c] = "inserted" => charges[c.order] = 0

ChargedOnes ==
    \A c \in AuthCall : auth[c] \in {"charged", "marked"} => charges[c.order] = 1

NoRowNoInserter ==
    \A c \in AuthCall : HasInserted(c) => payments[c.order].status # "none"

NoRowNoCharge ==
    \A o \in Orders : payments[o].status = "none" => charges[o] = 0

KeyWithRow ==
    \A o \in Orders : payments[o].key = "none" <=> payments[o].status = "none"

PayInv ==
    /\ PayTypeOK
    /\ ChargedAtMostOnce /\ AuthorizedWasCharged
    /\ InserterIsAlone /\ InserterIsUncharged /\ ChargedOnes
    /\ NoRowNoInserter /\ NoRowNoCharge /\ KeyWithRow

-----------------------------------------------------------------------------
LEMMA PayInitially == PayInit => PayInv
  BY AttemptsAssumption
     DEF PayInit, PayInv, PayTypeOK, PaymentRow, NoPayment, AuthStep, AuthCall, KeyKind,
         ChargedAtMostOnce, AuthorizedWasCharged, InserterIsAlone, InserterIsUncharged,
         ChargedOnes, NoRowNoInserter, NoRowNoCharge, KeyWithRow, HasInserted

LEMMA PaymentsTypeStep ==
    ASSUME PayTypeOK, KeyWithRow, [PayNext]_payVars
    PROVE  PayTypeOK'
<1> USE DEF PayTypeOK
<1> \A c \in AuthCall : c.order \in Orders /\ c.kind \in KeyKind
  BY DEF AuthCall
<1>1. CASE UNCHANGED payVars
  BY <1>1 DEF payVars
<1>2. ASSUME NEW c \in AuthCall, SendAuth(c) PROVE PayTypeOK'
  BY <1>2 DEF SendAuth, Sent, AuthStep
<1>3. ASSUME NEW c \in AuthCall, FindByKey(c) PROVE PayTypeOK'
  <2>1. payments[c.order] \in PaymentRow /\ c.kind # "none"
    BY DEF KeyKind
  <2>2. payments[c.order].key = c.kind =>
          Replayed[payments[c.order].status] \in AuthStep
    BY <2>1 DEF KeyWithRow, PaymentRow, Replayed, AuthStep
  <2>3. QED
    BY <1>3, <2>2 DEF FindByKey, AuthStep
<1>4. ASSUME NEW c \in AuthCall, InsertPending(c) PROVE PayTypeOK'
  BY SMTT(30), <1>4 DEF InsertPending, AuthStep, PaymentRow
<1>5. ASSUME NEW c \in AuthCall, ChargeCard(c) PROVE PayTypeOK'
  BY <1>5 DEF ChargeCard, AuthStep
<1>6. ASSUME NEW c \in AuthCall, MarkAuthorized(c) PROVE PayTypeOK'
  BY <1>6 DEF MarkAuthorized, AuthStep, PaymentRow
<1>7. ASSUME NEW c \in AuthCall, CrashAuth(c) PROVE PayTypeOK'
  BY <1>7 DEF CrashAuth, AuthStep
<1>8. ASSUME NEW o \in Orders, IssueRefund(o) PROVE PayTypeOK'
  BY <1>8, AttemptsAssumption DEF IssueRefund
<1>9. ASSUME NEW o \in Orders, MarkRefunded(o) PROVE PayTypeOK'
  BY <1>9, AttemptsAssumption DEF MarkRefunded, PaymentRow
<1>10. ASSUME NEW o \in Orders, CrashRefund(o) PROVE PayTypeOK'
  BY <1>10, AttemptsAssumption DEF CrashRefund
<1>11. QED
  BY <1>1, <1>2, <1>3, <1>4, <1>5, <1>6, <1>7, <1>8, <1>9, <1>10 DEF PayNext, AuthoriseStep

LEMMA PayStep ==
    ASSUME PayInv, [PayNext]_payVars
    PROVE  PayInv'
<1> USE DEF PayInv, HasInserted
<1> DEFINE Facts == /\ ChargedAtMostOnce /\ AuthorizedWasCharged
                    /\ InserterIsAlone /\ InserterIsUncharged /\ ChargedOnes
                    /\ NoRowNoInserter /\ NoRowNoCharge /\ KeyWithRow
<1> USE DEF ChargedAtMostOnce, AuthorizedWasCharged, InserterIsAlone, InserterIsUncharged,
            ChargedOnes, NoRowNoInserter, NoRowNoCharge, KeyWithRow
<1>0. PayTypeOK /\ PayTypeOK'
  BY PaymentsTypeStep
<1>1. \A c \in AuthCall : c.order \in Orders /\ c.kind \in KeyKind
  BY DEF AuthCall
<1>2. CASE UNCHANGED payVars
  BY <1>0, <1>2 DEF payVars
<1>3. ASSUME NEW c \in AuthCall,
             SendAuth(c) \/ FindByKey(c) \/ CrashAuth(c)
      PROVE  Facts'
  <2>1. UNCHANGED <<payments, charges>>
    BY <1>3 DEF SendAuth, FindByKey, CrashAuth
  <2>2. \A d \in AuthCall \ {c} : auth'[d] = auth[d]
    BY <1>0, <1>3 DEF SendAuth, Sent, FindByKey, CrashAuth, PayTypeOK
  <2>3. auth'[c] \notin {"inserted", "charged", "marked"}
    BY <1>0, <1>1, <1>3 DEF SendAuth, Sent, FindByKey, CrashAuth, PayTypeOK, PaymentRow,
                            KeyKind, Replayed
  <2>4. QED
    BY <2>1, <2>2, <2>3
<1>4. ASSUME NEW c \in AuthCall, InsertPending(c) PROVE Facts'
  <2>1. CASE payments[c.order].status = "none"
    <3>1. /\ payments' = [payments EXCEPT ![c.order] = [status |-> "pending", key |-> c.kind]]
          /\ auth' = [auth EXCEPT ![c] = "inserted"] /\ charges' = charges
      BY <1>4, <2>1 DEF InsertPending
    <3>2. \A d \in AuthCall : d.order = c.order => ~HasInserted(d)
      BY <2>1
    <3>3. charges[c.order] = 0 /\ c.kind # "none"
      BY <1>1, <2>1 DEF KeyKind
    <3>4. /\ auth'[c] = "inserted" /\ \A d \in AuthCall \ {c} : auth'[d] = auth[d]
          /\ payments'[c.order].status = "pending" /\ payments'[c.order].key = c.kind
          /\ \A o \in Orders \ {c.order} : payments'[o] = payments[o]
      BY <1>0, <1>1, <3>1 DEF PayTypeOK
    <3>5. QED
      BY <1>1, <3>1, <3>2, <3>3, <3>4
  <2>2. CASE payments[c.order].status # "none"
    BY <1>0, <1>1, <1>4, <2>2 DEF InsertPending, PayTypeOK
  <2>3. QED
    BY <2>1, <2>2
<1>5. ASSUME NEW c \in AuthCall, ChargeCard(c) PROVE Facts'
  BY <1>0, <1>1, <1>5 DEF ChargeCard, PayTypeOK
<1>6. ASSUME NEW c \in AuthCall, MarkAuthorized(c) PROVE Facts'
  BY <1>0, <1>1, <1>6 DEF MarkAuthorized, PayTypeOK, PaymentRow
<1>7. ASSUME NEW o \in Orders, IssueRefund(o) \/ CrashRefund(o) PROVE Facts'
  BY <1>7 DEF IssueRefund, CrashRefund
<1>8. ASSUME NEW o \in Orders, MarkRefunded(o) PROVE Facts'
  BY <1>0, <1>8 DEF MarkRefunded, Refundable, PayTypeOK, PaymentRow
<1>9. QED
  BY <1>0, <1>2, <1>3, <1>4, <1>5, <1>6, <1>7, <1>8 DEF PayNext, AuthoriseStep

LEMMA PayInvariant == PaySpec => []PayInv
  BY PayInitially, PayStep, PTL DEF PaySpec

-----------------------------------------------------------------------------
\* The double-charge guarantee.
THEOREM NeverChargedTwice == PaySpec => []ChargedAtMostOnce
<1>1. PayInv => ChargedAtMostOnce
  BY DEF PayInv
<1>2. QED
  BY <1>1, PayInvariant, PTL

\* A payment is 'authorized' only when the gateway was asked.
THEOREM AuthorizedMeansCharged == PaySpec => []AuthorizedWasCharged
<1>1. PayInv => AuthorizedWasCharged
  BY DEF PayInv
<1>2. QED
  BY <1>1, PayInvariant, PTL

-----------------------------------------------------------------------------
(* Riders.                                                                 *)
LEMMA FleetTypeStep ==
    ASSUME FleetTypeOK, [FleetNext]_riders
    PROVE  FleetTypeOK'
<1> USE DEF FleetTypeOK, FleetRow
<1>1. CASE UNCHANGED riders
  BY <1>1
<1>2. ASSUME NEW o \in Orders, NEW r \in Riders, Claim(o, r) PROVE FleetTypeOK'
  BY <1>2 DEF Claim
<1>3. ASSUME NEW o \in Orders, Release(o) PROVE FleetTypeOK'
  BY <1>3 DEF Release
<1>4. ASSUME NEW r \in Riders, NEW b \in BOOLEAN, SetAvailability(r, b)
      PROVE  FleetTypeOK'
  BY <1>4 DEF SetAvailability
<1>5. QED
  BY <1>1, <1>2, <1>3, <1>4 DEF FleetNext

\* Every row keeps its shape.
THEOREM FleetTypeCorrect == FleetSpec => []FleetTypeOK
<1>1. FleetInit => FleetTypeOK
  BY DEF FleetInit, FleetTypeOK, FleetRow
<1>2. QED
  BY <1>1, FleetTypeStep, PTL DEF FleetSpec

LEMMA OneRiderStep ==
    ASSUME FleetTypeOK, OneRiderPerOrder, [FleetNext]_riders
    PROVE  OneRiderPerOrder'
<1> USE DEF OneRiderPerOrder, Holding
<1>1. CASE UNCHANGED riders
  BY <1>1
<1>2. ASSUME NEW o \in Orders, NEW r \in Riders, Claim(o, r) PROVE OneRiderPerOrder'
  BY <1>2 DEF Claim, FleetTypeOK
<1>3. ASSUME NEW o \in Orders, Release(o) PROVE OneRiderPerOrder'
  BY <1>3, NoneAssumption DEF Release, FleetTypeOK
<1>4. ASSUME NEW r \in Riders, NEW b \in BOOLEAN, SetAvailability(r, b)
      PROVE  OneRiderPerOrder'
  BY <1>4, NoneAssumption DEF SetAvailability, FleetTypeOK, FleetRow
<1>5. QED
  BY <1>1, <1>2, <1>3, <1>4 DEF FleetNext

\* An order never has two riders, and a rider who carries one is not offered
\* another, however often and by whom dispatches and releases are called.
THEOREM NeverTwoRiders == FleetSpec => []OneRiderPerOrder
<1>1. FleetInit => OneRiderPerOrder
  BY NoneAssumption DEF FleetInit, OneRiderPerOrder, Holding
<1>2. QED
  BY <1>1, OneRiderStep, FleetTypeCorrect, PTL DEF FleetSpec

\* No toggle and no other dispatch takes an order from the rider who carries it.
THEOREM RidersCarryUntilReleased == FleetSpec => CarriesUntilReleased
<1> DEFINE Carries == \A r \in Riders :
                         riders[r].order # None =>
                            \/ riders'[r].order = riders[r].order
                            \/ riders'[r] = [available |-> TRUE, order |-> None]
<1>1. ASSUME FleetTypeOK, FleetNext PROVE Carries
  <2> USE DEF FleetTypeOK
  <2>1. ASSUME NEW o \in Orders, NEW r \in Riders, Claim(o, r) PROVE Carries
    BY <1>1, <2>1 DEF Claim, Free
  <2>2. ASSUME NEW o \in Orders, Release(o) PROVE Carries
    BY <1>1, <2>2 DEF Release
  <2>3. ASSUME NEW r \in Riders, NEW b \in BOOLEAN, SetAvailability(r, b) PROVE Carries
    BY <1>1, <2>3 DEF SetAvailability
  <2>4. QED
    BY <1>1, <2>1, <2>2, <2>3 DEF FleetNext
<1>2. ASSUME FleetTypeOK, [FleetNext]_riders PROVE [Carries]_riders
  BY <1>1, <1>2
<1>3. QED
  BY <1>2, FleetTypeCorrect, PTL DEF FleetSpec, CarriesUntilReleased
=============================================================================
