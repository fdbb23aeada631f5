--------------------------- MODULE OrderSagaProofs ---------------------------
(***************************************************************************)
(* Proofs about the order saga, for any orders, riders and kitchens, any   *)
(* retry policies and any number of lost attempts: it implements the       *)
(* databases' specifications, so what StoreProofs shows of them is true of *)
(* it; it implements OrderLifecycle; and the order, its money, its rider   *)
(* and its events stay in agreement.                                       *)
(*                                                                         *)
(* SagaInv says of every place a workflow can stand, and of every request, *)
(* handler and report that may still be executed, what it can rely on.     *)
(***************************************************************************)
EXTENDS SagaClaims, StoreProofs, FiniteSetTheorems

\* Where a workflow stands: before it has an order of its own, paying for it,
\* giving it up for its payment, carrying it on, or taking it back.
Before == {"none", "create", "refused", "create_failed", "returned"}
Paying == {"pub_created", "authorize"}
Declining == {"cancel_unpaid", "pub_cancel_unpaid", "declined"}
Delivering == RiderSteps \ {"release_failed"}
Forward == {"confirm", "pub_confirmed", "await_kitchen", "read_decision"} \cup Delivering
Backward == CompensationSteps \cup {"release_failed"}

PaidFor(o) == payments[o].status \in {"authorized", "refunded"}

\* The status of the order for each place of its workflow.
StageFits(o) ==
    LET at == wf[o].pc
        st == orders[o].status
    IN  /\ at \in Before => st \in {"absent", "created"}
        /\ at \in Paying => st = "created"
        /\ at = "confirm" => st \in {"created", "confirmed"}
        /\ at \in {"pub_confirmed", "await_kitchen", "read_decision", "dispatch"} =>
              st = "confirmed"
        /\ at = "assign" => st \in {"confirmed", "assigned"}
        /\ at \in {"pub_assigned", "await_pickup", "read_pickup"} => st = "assigned"
        /\ at = "mark_picked_up" => st \in {"assigned", "picked_up"}
        /\ at \in {"pub_picked_up", "await_delivery", "read_delivery"} => st = "picked_up"
        /\ at = "mark_delivered" => st \in {"picked_up", "delivered"}
        /\ at \in {"pub_delivered", "release_delivered"} => st = "delivered"
        /\ at = "cancel_unpaid" => st \in {"created", "cancelled"}
        /\ at \in {"pub_cancel_unpaid", "declined"} => st = "cancelled"
        /\ at \in {"pub_cancelled", "pub_comp_failed"} => st \in Undone
        /\ at = "finished" => st \in Terminal
        /\ at = "broken" => st # "absent"

\* A reason is given once the order is to be taken back, and for a paid order
\* only; while there is none, no refund is under way.
MoneyFits(o) ==
    LET at == wf[o].pc
        st == orders[o].status
        m  == payments[o].status
    IN  /\ wf[o].reason # "none" =>
              /\ at \in Backward \cup {"finished", "broken"}
              /\ PaidFor(o)
              /\ st \notin {"absent", "delivered"}
              /\ st = "cancelled" => m = "refunded"
        /\ wf[o].reason = "none" =>
              /\ at \notin Backward
              /\ m # "refunded" /\ refunding[o] = 0 /\ st # "compensation_failed"
              /\ at = "finished" => st = "delivered"
        /\ at \in Forward => m = "authorized"
        /\ at \in {"cancel", "pub_cancelled"} => m = "refunded"
        /\ st \notin {"absent", "created", "cancelled"} => PaidFor(o)
        /\ PaidFor(o) => charges[o] = 1

\* An order about to be declined, or left by the workflow that declined it.
Declined(o) ==
    \/ wf[o].pc \in Declining
    \/ wf[o].pc = "broken" /\ wf[o].reason = "none" /\ orders[o].status \in {"created", "cancelled"}

\* Nobody confirms an order that is not paid for, or is declined.
Confirmable(o) == PaidFor(o) /\ wf[o].pc \notin Before \cup Paying /\ ~Declined(o)

\* A rider's step is asked for in its turn: it has been executed, or the
\* workflow still stands at it, or broke there.
InTurn(o, s, from) ==
    \/ Rank[orders[o].status] >= Rank[Enters[s]]
    \/ /\ wf[o].pc \in {s, "broken"} /\ wf[o].reason = "none"
       /\ orders[o].status = from
       /\ orders[o].decision = "accepted"

LateFits(q) ==
    LET o == q.order
        s == q.step
    IN  /\ s # "create" => orders[o].status # "absent"
        /\ s = "confirm" => Confirmable(o)
        /\ s = "assign" => InTurn(o, s, "confirmed") /\ wf[o].rider # None
        /\ s = "mark_picked_up" => InTurn(o, s, "assigned") /\ orders[o].reported # "none"
        /\ s = "mark_delivered" => InTurn(o, s, "picked_up") /\ orders[o].reported = "delivered"
        /\ s \in Releases => wf[o].pc \in Releases \cup Backward \cup {"finished", "broken"}
        /\ s = "cancel_unpaid" => Declined(o)
        /\ s \in {"refund", "cancel", "mark_comp_failed"} => wf[o].reason # "none"
        /\ s = "cancel" => payments[o].status = "refunded"

\* The kitchen's answer, in the workflow, in its handlers and on the row.
AnswerFits(o) ==
    /\ wf[o].decision # "none" => wf[o].decision = orders[o].decision
    /\ wf[o].pc \in RiderSteps => orders[o].decision = "accepted"
    /\ orders[o].status \in {"assigned", "picked_up", "delivered"} =>
          orders[o].decision = "accepted" /\ orders[o].rider # None

HandlerFits(h) ==
    /\ orders[h.order].status # "absent"
    /\ h.step = "publishing" => orders[h.order].decision = h.decision

\* The rider's reports, in the workflow, on their way and on the row.
ReportsFit(o) ==
    /\ wf[o].picked_up => orders[o].reported # "none"
    /\ wf[o].delivered => orders[o].reported = "delivered"
    /\ wf[o].pc = "mark_picked_up" => orders[o].reported # "none"
    /\ wf[o].pc \in {"mark_delivered", "pub_delivered", "release_delivered"}
          \/ orders[o].status = "delivered" => orders[o].reported = "delivered"

ReportFits(x) ==
    /\ orders[x.order].status # "absent"
    /\ x.recorded => StageRank[orders[x.order].reported] >= StageRank[x.stage]

\* From the claim until a release is asked for.
CarrierFits(o) ==
    /\ wf[o].pc \in Delivering \ {"dispatch", "release_delivered"} =>
          wf[o].rider \in Riders /\ riders[wf[o].rider].order = o
    /\ Holding(o) # {} => orders[o].status # "absent"

\* An execution of authorise().
CallFits(c) ==
    /\ auth[c] # "unsent" => orders[c.order].status # "absent"
    /\ auth[c] \in {"inserted", "charged"} => payments[c.order].status = "pending"
    /\ auth[c] \in {"marked", "replayed_authorized", "replayed_refunded"} => PaidFor(c.order)

\* What has been written and announced.
HistoryFits(o) ==
    /\ HasEntered(o, "confirmed") => PaidFor(o)
    /\ "kitchen.decided" \in announced[o] => orders[o].decision # "none"
    /\ "payment.authorized" \in announced[o] => PaidFor(o)
    /\ "payment.refunded" \in announced[o] => payments[o].status = "refunded"
    /\ \A e \in announced[o] \cap Undone : orders[o].status \in Undone
    /\ \A e \in announced[o] \cap (OrderStatus \ Undone) : HasEntered(o, e)

\* Everything said of one order.
OrderInv(o) ==
    /\ StageFits(o) /\ MoneyFits(o) /\ AnswerFits(o) /\ ReportsFit(o) /\ CarrierFits(o)
    /\ HistoryFits(o)
    /\ o \in counted => Confirmable(o)
    /\ \A q \in late : q.order = o => LateFits(q)
    /\ \A h \in handlers : h.order = o => HandlerFits(h)
    /\ \A x \in reports : x.order = o => ReportFits(x)
    /\ \A c \in AuthCall : c.order = o => CallFits(c)

SagaTypeOK ==
    /\ wf \in [Orders -> Workflow]
    /\ \A o \in Orders : wf[o].pc = "authorize" => wf[o].attempt <= AuthAttempts
    /\ handlers \subseteq Handler /\ reports \subseteq Report /\ late \subseteq Request
    /\ announced \in [Orders -> SUBSET Event]

StoresInv == TrailInv /\ PayInv /\ FleetTypeOK

SagaInv == SagaTypeOK /\ StoresInv /\ \A o \in Orders : OrderInv(o)

-----------------------------------------------------------------------------
(* The tables of steps, spelt out.                                         *)

LEMMA StepsSpeltOut ==
    /\ DOMAIN Enters = {"confirm", "assign", "mark_picked_up", "mark_delivered",
                        "cancel", "cancel_unpaid", "mark_comp_failed"}
    /\ Enters["confirm"] = "confirmed" /\ Enters["assign"] = "assigned"
    /\ Enters["mark_picked_up"] = "picked_up" /\ Enters["mark_delivered"] = "delivered"
    /\ Enters["cancel"] = "cancelled" /\ Enters["cancel_unpaid"] = "cancelled"
    /\ Enters["mark_comp_failed"] = "compensation_failed"
    /\ DOMAIN PublishOf = DOMAIN Enters \cup {"create"}
    /\ PublishOf["create"] = "pub_created" /\ PublishOf["confirm"] = "pub_confirmed"
    /\ PublishOf["assign"] = "pub_assigned" /\ PublishOf["mark_picked_up"] = "pub_picked_up"
    /\ PublishOf["mark_delivered"] = "pub_delivered"
    /\ PublishOf["mark_comp_failed"] = "pub_comp_failed"
    /\ PublishOf["cancel"] = "pub_cancelled" /\ PublishOf["cancel_unpaid"] = "pub_cancel_unpaid"
  BY DEF Enters, PublishOf

LEMMA AnnouncesSpeltOut ==
    /\ DOMAIN Announces = {"pub_created", "pub_confirmed", "pub_assigned", "pub_picked_up",
                           "pub_delivered", "pub_comp_failed", "pub_cancelled",
                           "pub_cancel_unpaid"}
    /\ Announces["pub_created"] = "created" /\ Announces["pub_confirmed"] = "confirmed"
    /\ Announces["pub_assigned"] = "assigned" /\ Announces["pub_picked_up"] = "picked_up"
    /\ Announces["pub_delivered"] = "delivered"
    /\ Announces["pub_comp_failed"] = "compensation_failed"
    /\ Announces["pub_cancelled"] = "cancelled"
    /\ Announces["pub_cancel_unpaid"] = "cancelled"
<1>1. DOMAIN Announces = {PublishOf[s] : s \in DOMAIN PublishOf}
  BY DEF Announces
<1>2. DOMAIN Announces = {"pub_created", "pub_confirmed", "pub_assigned", "pub_picked_up",
                          "pub_delivered", "pub_comp_failed", "pub_cancelled",
                          "pub_cancel_unpaid"}
  BY <1>1, StepsSpeltOut
<1>3. ASSUME NEW s \in DOMAIN Enters PROVE Announces[PublishOf[s]] = Enters[s]
  <2>1. PublishOf[s] \in DOMAIN Announces /\ PublishOf[s] # "pub_created"
    BY <1>1, StepsSpeltOut
  <2>2. Announces[PublishOf[s]] =
          Enters[CHOOSE t \in DOMAIN Enters : PublishOf[t] = PublishOf[s]]
    BY <1>1, <2>1 DEF Announces
  <2>3. \A t \in DOMAIN Enters : PublishOf[t] = PublishOf[s] => t = s
    BY StepsSpeltOut
  <2>4. QED
    BY <2>2, <2>3
<1>4. Announces["pub_created"] = "created"
  BY <1>1, <1>2 DEF Announces
<1>5. QED
  BY <1>2, <1>3, <1>4, StepsSpeltOut

LEMMA PlacesSpeltOut ==
    /\ Activities = {"create", "confirm", "assign", "mark_picked_up", "mark_delivered",
                     "cancel", "cancel_unpaid", "mark_comp_failed",
                     "read_decision", "read_pickup", "read_delivery",
                     "release_delivered", "release_failed",
                     "authorize", "dispatch", "refund"}
    /\ Writes = Activities \ {"read_decision", "read_pickup", "read_delivery", "authorize"}
  BY StepsSpeltOut DEF Activities, Reads, Releases, Writes

LEMMA RanksSpeltOut ==
    /\ Rank["absent"] = 0 /\ Rank["created"] = 1 /\ Rank["confirmed"] = 2
    /\ Rank["assigned"] = 3 /\ Rank["picked_up"] = 4 /\ Rank["delivered"] = 5
    /\ Rank["cancelled"] = 6 /\ Rank["compensation_failed"] = 7
    /\ \A t \in OrderStatus \cup {"absent"} : Rank[t] \in Nat
  BY DEF Rank, OrderStatus

LEMMA ToFacts ==
    ASSUME NEW w \in Workflow, NEW p \in Place
    PROVE  /\ To(w, p) \in Workflow
           /\ To(w, p).pc = p /\ To(w, p).attempt = 1 /\ To(w, p).begun = FALSE
           /\ To(w, p).owner = w.owner /\ To(w, p).decision = w.decision
           /\ To(w, p).rider = w.rider /\ To(w, p).searches = w.searches
           /\ To(w, p).picked_up = w.picked_up /\ To(w, p).delivered = w.delivered
           /\ To(w, p).reason = w.reason /\ To(w, p).runs = w.runs
<1> DEFINE u == [w EXCEPT !.pc = p, !.attempt = 1]
<1>1. /\ u.pc = p /\ u.attempt = 1
      /\ u.owner = w.owner /\ u.decision = w.decision /\ u.rider = w.rider
      /\ u.searches = w.searches /\ u.picked_up = w.picked_up /\ u.delivered = w.delivered
      /\ u.reason = w.reason /\ u.runs = w.runs
  BY DEF Workflow
<1>5. u \in Workflow
  BY 1 \in Nat \ {0} DEF Workflow
<1>2. To(w, p) = [u EXCEPT !.begun = FALSE]
  BY DEF To
<1> HIDE DEF u
<1>3. To(w, p) \in Workflow
  BY <1>5, <1>2, FALSE \in BOOLEAN DEF Workflow
<1>4. QED
  BY <1>1, <1>2, <1>3, <1>5 DEF Workflow

LEMMA ForFacts ==
    ASSUME NEW w \in Workflow, NEW p \in Place, NEW why \in Reason
    PROVE  /\ For(w, p, why) \in Workflow
           /\ For(w, p, why).pc = p /\ For(w, p, why).attempt = 1
           /\ For(w, p, why).decision = w.decision
           /\ For(w, p, why).rider = w.rider
           /\ For(w, p, why).picked_up = w.picked_up /\ For(w, p, why).delivered = w.delivered
           /\ For(w, p, why).reason = why
<1> DEFINE t == To(w, p)
<1>1. /\ t \in Workflow
      /\ t.pc = p /\ t.attempt = 1 /\ t.decision = w.decision /\ t.rider = w.rider
      /\ t.picked_up = w.picked_up /\ t.delivered = w.delivered
  BY ToFacts
<1>2. For(w, p, why) = [t EXCEPT !.reason = why]
  BY DEF For
<1> HIDE DEF t
<1>3. QED
  BY <1>1, <1>2 DEF Workflow

\* What an action on one order's workflow does to the workflows.
GoesTo(o, p) ==
    /\ wf' \in [Orders -> Workflow]
    /\ \A q \in Orders \ {o} : wf'[q] = wf[q]
    /\ wf'[o].pc = p /\ wf'[o].attempt = 1
    /\ wf'[o].rider = wf[o].rider
    /\ wf'[o].picked_up = wf[o].picked_up /\ wf'[o].delivered = wf[o].delivered

LEMMA GoesFacts ==
    ASSUME SagaTypeOK, NEW o \in Orders, NEW p \in Place, Goes(o, p)
    PROVE  /\ GoesTo(o, p)
           /\ wf'[o].reason = wf[o].reason /\ wf'[o].decision = wf[o].decision
<1>1. wf[o] \in Workflow /\ wf \in [Orders -> Workflow]
  BY DEF SagaTypeOK
<1>2. wf' = [wf EXCEPT ![o] = To(wf[o], p)]
  BY DEF Goes
<1>3. QED
  BY <1>1, <1>2, ToFacts DEF GoesTo

LEMMA ForGoesFacts ==
    ASSUME SagaTypeOK, NEW o \in Orders, NEW p \in Place, NEW why \in Reason,
           wf' = [wf EXCEPT ![o] = For(@, p, why)]
    PROVE  /\ GoesTo(o, p)
           /\ wf'[o].reason = why /\ wf'[o].decision = wf[o].decision
<1>1. wf[o] \in Workflow /\ wf \in [Orders -> Workflow]
  BY DEF SagaTypeOK
<1>2. wf' = [wf EXCEPT ![o] = For(wf[o], p, why)]
  OBVIOUS
<1>3. QED
  BY <1>1, <1>2, ForFacts DEF GoesTo

\* What a step on one order leaves alone of another.
Untouched(p) ==
    /\ wf'[p] = wf[p] /\ orders'[p] = orders[p] /\ trail'[p] = trail[p]
    /\ payments'[p] = payments[p] /\ charges'[p] = charges[p]
    /\ refunding'[p] = refunding[p] /\ announced'[p] = announced[p]
    /\ p \in counted' => p \in counted
    /\ \A q \in late' : q.order = p => q \in late
    /\ \A h \in handlers' : h.order = p => h \in handlers
    /\ \A x \in reports' : x.order = p => x \in reports
    /\ \A r \in Riders : riders'[r].order = p <=> riders[r].order = p
    /\ \A c \in AuthCall : c.order = p => auth'[c] = auth[c]

LEMMA UntouchedFits ==
    ASSUME NEW p \in Orders, OrderInv(p), Untouched(p)
    PROVE  OrderInv(p)'
<1> USE DEF Untouched
<1>1. (StageFits(p) /\ MoneyFits(p) /\ AnswerFits(p) /\ ReportsFit(p))'
  BY DEF OrderInv, StageFits, MoneyFits, AnswerFits, ReportsFit, PaidFor
<1>2. CarrierFits(p)'
  BY DEF OrderInv, CarrierFits, Holding
<1>3. HistoryFits(p)'
  BY DEF OrderInv, HistoryFits, HasEntered, PaidFor
<1>4. (p \in counted => Confirmable(p))'
  BY DEF OrderInv, Confirmable, PaidFor, Declined
<1>5. \A q \in late' : q.order = p => LateFits(q)'
  BY DEF OrderInv, LateFits, Confirmable, PaidFor, Declined, InTurn
<1>6. \A h \in handlers' : h.order = p => HandlerFits(h)'
  BY DEF OrderInv, HandlerFits
<1>7. \A x \in reports' : x.order = p => ReportFits(x)'
  BY DEF OrderInv, ReportFits
<1>8. \A c \in AuthCall : c.order = p => CallFits(c)'
  BY DEF OrderInv, CallFits, PaidFor
<1>9. QED
  BY <1>1, <1>2, <1>3, <1>4, <1>5, <1>6, <1>7, <1>8 DEF OrderInv

-----------------------------------------------------------------------------
(* What the statements do to an order's row and history.                   *)

LEMMA StatusWasEntered ==
    ASSUME OrdersTypeOK, TrailTellsStatus, NEW o \in Orders, Exists(o)
    PROVE  HasEntered(o, orders[o].status)
<1>1. trail[o] \in Seq(TrailEntry) /\ trail[o] # <<>>
  BY DEF OrdersTypeOK, TrailTellsStatus, LastEntered, Exists
<1>2. Len(trail[o]) \in 1..Len(trail[o])
  BY <1>1, EmptySeq, LenProperties
<1>3. trail[o][Len(trail[o])].new = orders[o].status
  BY <1>1 DEF TrailTellsStatus, LastEntered
<1>4. QED
  BY <1>2, <1>3 DEF HasEntered

\* The order o enters the status s, and r carries it if r is somebody.
EntersNow(o, s, r) ==
    /\ orders'[o].status = s /\ orders'[o].rider = Carrier(o, r)
    /\ orders'[o].decision = orders[o].decision
    /\ orders'[o].reported = orders[o].reported
    /\ \A q \in Orders \ {o} : orders'[q] = orders[q] /\ trail'[q] = trail[q]
    /\ HasEntered(o, s)'
    /\ \A t \in OrderStatus :
          /\ HasEntered(o, t) => HasEntered(o, t)'
          /\ HasEntered(o, t)' => HasEntered(o, t) \/ t = s

LEMMA MovedAndLogged ==
    ASSUME OrdersTypeOK, NEW o \in Orders, NEW s \in OrderStatus, NEW r \in Riders \cup {None},
           orders' = Moved(o, s, r), trail' = Logged(o, s)
    PROVE  EntersNow(o, s, r)
<1> DEFINE t == Logged(o, s)
<1>1. /\ Len(t[o]) = Len(trail[o]) + 1
      /\ t[o][Len(t[o])] = [old |-> LastEntered(o), new |-> s]
      /\ \A i \in 1..Len(trail[o]) : t[o][i] = trail[o][i]
      /\ \A q \in Orders \ {o} : t[q] = trail[q]
  BY LoggedProperties
<1>2. Len(trail[o]) \in Nat
  BY LenProperties DEF OrdersTypeOK
<1> HIDE DEF t
<1>3. trail' = t
  BY DEF t
<1>4. HasEntered(o, s)'
  BY <1>1, <1>2, <1>3 DEF HasEntered
<1>5. ASSUME NEW u \in OrderStatus
      PROVE  /\ HasEntered(o, u) => HasEntered(o, u)'
             /\ HasEntered(o, u)' => HasEntered(o, u) \/ u = s
  <2>1. ASSUME HasEntered(o, u) PROVE HasEntered(o, u)'
    <3>1. PICK i \in 1..Len(trail[o]) : trail[o][i].new = u
      BY <2>1 DEF HasEntered
    <3>2. i \in 1..Len(t[o]) /\ t[o][i].new = u
      BY <1>1, <1>2, <3>1
    <3>3. QED
      BY <1>3, <3>2 DEF HasEntered
  <2>2. ASSUME HasEntered(o, u)', u # s PROVE HasEntered(o, u)
    <3>1. PICK i \in 1..Len(t[o]) : t[o][i].new = u
      BY <1>3, <2>2 DEF HasEntered
    <3>2. i # Len(t[o])
      BY <1>1, <2>2, <3>1
    <3>3. i \in 1..Len(trail[o]) /\ trail[o][i].new = u
      BY <1>1, <1>2, <3>1, <3>2
    <3>4. QED
      BY <3>3 DEF HasEntered
  <2>3. QED
    BY <2>1, <2>2
<1>6. QED
  BY <1>1, <1>3, <1>4, <1>5, MovedProperties DEF EntersNow

LEMMA InsertFacts ==
    ASSUME OrdersTypeOK, NEW o \in Orders, InsertOrder(o)
    PROVE  ~Exists(o) /\ EntersNow(o, "created", None) /\ counted' = counted
<1>1. orders[o] \in OrderRow /\ orders \in [Orders -> OrderRow]
  BY DEF OrdersTypeOK
<1>2. orders' = Moved(o, "created", None)
  BY <1>1 DEF InsertOrder, Moved, Carrier, OrderRow
<1>3. "created" \in OrderStatus
  BY DEF OrderStatus
<1>4. QED
  BY <1>2, <1>3, MovedAndLogged DEF InsertOrder, CanInsert

LEMMA TransitionFacts ==
    ASSUME OrdersTypeOK, NEW o \in Orders, NEW s \in OrderStatus, NEW r \in Riders \cup {None},
           Transition(o, s, r)
    PROVE  /\ counted' = counted
           /\ CanMove(o, s) => EntersNow(o, s, r)
           /\ ~CanMove(o, s) => orders' = orders /\ trail' = trail
  BY MovedAndLogged DEF Transition

LEMMA ConfirmFacts ==
    ASSUME OrdersTypeOK, NEW o \in Orders, ConfirmCounted(o)
    PROVE  /\ o \in counted /\ counted' = counted \ {o}
           /\ CanMove(o, "confirmed") => EntersNow(o, "confirmed", None)
           /\ ~CanMove(o, "confirmed") => orders' = orders /\ trail' = trail
<1>1. "confirmed" \in OrderStatus
  BY DEF OrderStatus
<1>2. QED
  BY <1>1, MovedAndLogged DEF ConfirmCounted

\* The order o's row takes an answer or a report, ...
LEMMA DecideFacts ==
    ASSUME OrdersTypeOK, NEW o \in Orders, NEW d \in Decision, DecideKitchen(o, d)
    PROVE  /\ trail' = trail /\ counted' = counted
           /\ \A q \in Orders \ {o} : orders'[q] = orders[q]
           /\ orders'[o].status = orders[o].status /\ orders'[o].rider = orders[o].rider
           /\ orders'[o].reported = orders[o].reported
           /\ orders'[o].decision = IF OnRail(o) THEN d ELSE orders[o].decision
<1>1. orders[o] \in OrderRow /\ orders \in [Orders -> OrderRow]
  BY DEF OrdersTypeOK
<1>2. QED
  BY <1>1 DEF DecideKitchen, OrderRow

\* ... which only goes forward.
LEMMA ReportFacts ==
    ASSUME OrdersTypeOK, NEW o \in Orders, NEW g \in ReportStage, RecordRiderReport(o, g)
    PROVE  /\ trail' = trail /\ counted' = counted
           /\ \A q \in Orders \ {o} : orders'[q] = orders[q]
           /\ orders'[o].status = orders[o].status /\ orders'[o].rider = orders[o].rider
           /\ orders'[o].decision = orders[o].decision
           /\ StageRank[orders'[o].reported] >= StageRank[orders[o].reported]
           /\ Exists(o) => StageRank[orders'[o].reported] >= StageRank[g]
<1>1. orders[o] \in OrderRow /\ orders \in [Orders -> OrderRow]
  BY DEF OrdersTypeOK
<1>2. StageRank[g] \in Nat /\ StageRank[orders[o].reported] \in Nat
  BY <1>1 DEF StageRank, OrderRow, ReportStage
<1>3. CASE Exists(o) /\ StageRank[g] > StageRank[orders[o].reported]
  <2>1. orders' = [orders EXCEPT ![o].reported = g]
    BY <1>3 DEF RecordRiderReport
  <2>2. QED
    BY <1>1, <1>2, <1>3, <2>1 DEF RecordRiderReport, OrderRow
<1>4. CASE ~(Exists(o) /\ StageRank[g] > StageRank[orders[o].reported])
  BY <1>1, <1>2, <1>4 DEF RecordRiderReport
<1>5. QED
  BY <1>3, <1>4

-----------------------------------------------------------------------------
(* One lemma for each action: it keeps what is said of its order, and      *)
(* leaves the others alone.                                                *)

StepFits(o) ==
    /\ SagaTypeOK' /\ OrderInv(o)'
    /\ \A p \in Orders \ {o} : Untouched(p)

\* A step of the workflow alone.
LEMMA WorkflowStep ==
    ASSUME SagaInv, NEW o \in Orders,
           UNCHANGED <<orderVars, payVars, riders, handlers, reports, late>>,
           wf' \in [Orders -> Workflow],
           \A q \in Orders \ {o} : wf'[q] = wf[q],
           wf'[o].pc = "authorize" => wf'[o].attempt <= AuthAttempts,
           announced' \in [Orders -> SUBSET Event],
           \A q \in Orders \ {o} : announced'[q] = announced[q],
           (StageFits(o) /\ MoneyFits(o) /\ AnswerFits(o) /\ ReportsFit(o))',
           (CarrierFits(o) /\ HistoryFits(o))',
           Confirmable(o) => Confirmable(o)',
           \A q \in late : q.order = o => LateFits(q)'
    PROVE  StepFits(o)
<1>1. SagaTypeOK'
  BY DEF SagaInv, SagaTypeOK
<1>2. \A p \in Orders \ {o} : Untouched(p)
  BY DEF Untouched, orderVars, payVars
<1>3. o \in counted' => Confirmable(o)'
  BY DEF SagaInv, OrderInv, orderVars
<1>4. \A h \in handlers' : h.order = o => HandlerFits(h)'
  BY DEF SagaInv, OrderInv, HandlerFits, orderVars
<1>5. \A x \in reports' : x.order = o => ReportFits(x)'
  BY DEF SagaInv, OrderInv, ReportFits, orderVars
<1>6. \A c \in AuthCall : c.order = o => CallFits(c)'
  BY DEF SagaInv, OrderInv, CallFits, PaidFor, orderVars, payVars
<1>7. QED
  BY <1>1, <1>2, <1>3, <1>4, <1>5, <1>6 DEF StepFits, OrderInv

USE DEF orderVars, payVars, Before, Paying, Declining, Forward, Backward, Delivering,
        RiderSteps, CompensationSteps, Releases, PaidFor, GoesTo

LEMMA CheckoutFits ==
    ASSUME SagaInv, NEW o \in Orders, Checkout(o)
    PROVE  StepFits(o)
<1>1. /\ UNCHANGED <<orderVars, payVars, riders, announced, handlers, reports, late>>
      /\ wf[o].pc \in {"none", "refused", "create_failed", "returned"} /\ OrderInv(o)
  BY DEF Checkout, aside, SagaInv
<1>2. /\ GoesTo(o, "create")
      /\ wf'[o].reason = wf[o].reason /\ wf'[o].decision = wf[o].decision
  BY GoesFacts, PlacesSpeltOut DEF SagaInv, Checkout, Place
<1>3. (StageFits(o) /\ MoneyFits(o) /\ AnswerFits(o) /\ ReportsFit(o))'
  BY <1>1, <1>2 DEF OrderInv, StageFits, MoneyFits, AnswerFits, ReportsFit
<1>4. (CarrierFits(o) /\ HistoryFits(o))'
  BY <1>1, <1>2 DEF OrderInv, CarrierFits, HistoryFits, HasEntered, Holding
<1>5. /\ Confirmable(o) => Confirmable(o)'
      /\ \A q \in late : q.order = o => LateFits(q)'
  BY <1>1, <1>2 DEF OrderInv, Confirmable, LateFits, InTurn, Declined
<1>6. QED
  BY <1>1, <1>2, <1>3, <1>4, <1>5, WorkflowStep DEF SagaInv, SagaTypeOK

LEMMA PublishFits ==
    ASSUME SagaInv, NEW o \in Orders, Publish(o)
    PROVE  StepFits(o)
<1>1. /\ UNCHANGED <<orderVars, payVars, riders, handlers, reports, late>>
      /\ wf[o].pc \in DOMAIN Announces
      /\ announced' = [announced EXCEPT ![o] = @ \cup {Announces[wf[o].pc]}]
      /\ Goes(o, AfterPublish(wf[o]))
  BY DEF Publish, aside
<1>2. OrderInv(o) /\ SagaTypeOK /\ OrdersTypeOK /\ TrailTellsStatus
  BY DEF SagaInv, StoresInv, TrailInv
<1> DEFINE p == AfterPublish(wf[o])
           e == Announces[wf[o].pc]
<1>3. /\ wf[o].pc = "pub_created"   => p = "authorize" /\ e = "created"
      /\ wf[o].pc = "pub_confirmed" => p = "await_kitchen" /\ e = "confirmed"
      /\ wf[o].pc = "pub_assigned"  => p = "await_pickup" /\ e = "assigned"
      /\ wf[o].pc = "pub_picked_up" => /\ e = "picked_up"
                                       /\ \/ p = "mark_delivered" /\ wf[o].delivered
                                          \/ p = "await_delivery"
      /\ wf[o].pc = "pub_delivered" => p = "release_delivered" /\ e = "delivered"
      /\ wf[o].pc = "pub_cancelled" => p = "finished" /\ e = "cancelled"
      /\ wf[o].pc = "pub_comp_failed" => p = "finished" /\ e = "compensation_failed"
      /\ wf[o].pc = "pub_cancel_unpaid" => p = "declined" /\ e = "cancelled"
  BY AnnouncesSpeltOut DEF AfterPublish
<1>4. /\ GoesTo(o, p) /\ wf'[o].reason = wf[o].reason /\ wf'[o].decision = wf[o].decision
      /\ e \in OrderStatus
  <2>1. p \in Place /\ e \in OrderStatus
    BY <1>1, <1>3, AnnouncesSpeltOut, PlacesSpeltOut DEF Place, Waits, Ends, OrderStatus
  <2>2. QED
    BY <1>1, <1>2, <2>1, GoesFacts
<1>5. /\ announced'[o] = announced[o] \cup {e}
      /\ announced' \in [Orders -> SUBSET Event]
      /\ \A q \in Orders \ {o} : announced'[q] = announced[q]
  BY <1>1, <1>2, <1>4 DEF SagaTypeOK, Event
<1> HIDE DEF p, e
<1>6. (StageFits(o) /\ MoneyFits(o) /\ AnswerFits(o) /\ ReportsFit(o))'
  BY <1>1, <1>2, <1>3, <1>4, AnnouncesSpeltOut
     DEF OrderInv, StageFits, MoneyFits, AnswerFits, ReportsFit, Undone, Terminal
<1>7. CarrierFits(o)'
  BY <1>1, <1>2, <1>3, <1>4, AnnouncesSpeltOut DEF OrderInv, CarrierFits, Holding
<1>8. HistoryFits(o)'
  <2>1. e \in Undone => orders[o].status \in Undone
    BY <1>1, <1>2, <1>3, AnnouncesSpeltOut DEF OrderInv, StageFits, Undone
  <2>2. e \notin Undone => HasEntered(o, e)
    <3>1. e \notin Undone => orders[o].status = e /\ Exists(o)
      BY <1>1, <1>2, <1>3, AnnouncesSpeltOut DEF OrderInv, StageFits, Undone, Exists
    <3>2. QED
      BY <1>2, <3>1, StatusWasEntered
  <2>3. e \notin {"kitchen.decided", "payment.authorized", "payment.refunded"}
    BY <1>4 DEF OrderStatus
  <2>4. QED
    BY <1>1, <1>2, <1>5, <2>1, <2>2, <2>3 DEF OrderInv, HistoryFits, HasEntered
<1>9. Confirmable(o) => Confirmable(o)'
  BY <1>1, <1>2, <1>3, <1>4, AnnouncesSpeltOut DEF OrderInv, Confirmable, Declined
<1>10. ASSUME NEW q \in late, q.order = o PROVE LateFits(q)'
  BY <1>1, <1>2, <1>3, <1>4, <1>9, <1>10, AnnouncesSpeltOut DEF OrderInv, LateFits, InTurn, Declined
<1>11. QED
  BY <1>1, <1>3, <1>4, <1>5, <1>6, <1>7, <1>8, <1>9, <1>10, AttemptsAssumption, WorkflowStep

\* A step that moves the order's row, with its workflow or without it.
LEMMA EnteredStep ==
    ASSUME SagaInv, NEW o \in Orders, NEW s \in OrderStatus, NEW r \in Riders \cup {None},
           EntersNow(o, s, r), orders[o].status \notin Terminal,
           s = "confirmed" => PaidFor(o),
           UNCHANGED <<payVars, riders, handlers, reports, announced>>,
           counted' \subseteq counted, late' \subseteq late,
           wf' \in [Orders -> Workflow],
           \A q \in Orders \ {o} : wf'[q] = wf[q],
           wf'[o].pc = "authorize" => wf'[o].attempt <= AuthAttempts,
           (StageFits(o) /\ MoneyFits(o) /\ AnswerFits(o) /\ ReportsFit(o))',
           CarrierFits(o)',
           o \in counted' => Confirmable(o)',
           \A q \in late' : q.order = o => LateFits(q)'
    PROVE  StepFits(o)
<1>0. OrderInv(o) /\ s # "absent"
  BY DEF SagaInv, OrderStatus
<1>1. SagaTypeOK'
  BY DEF SagaInv, SagaTypeOK
<1>2. \A p \in Orders \ {o} : Untouched(p)
  BY DEF Untouched, EntersNow
<1>3. HistoryFits(o)'
  <2>1. "confirmed" \in OrderStatus /\ Undone \subseteq Terminal
    BY DEF OrderStatus, Undone, Terminal
  <2>2. \A e \in announced'[o] \cap (OrderStatus \ Undone) : HasEntered(o, e)'
    BY <1>0 DEF OrderInv, HistoryFits, EntersNow
  <2>3. HasEntered(o, "confirmed")' => PaidFor(o)'
    BY <1>0, <2>1 DEF OrderInv, HistoryFits, EntersNow
  <2>4. \A e \in announced'[o] \cap Undone : FALSE
    BY <1>0, <2>1 DEF OrderInv, HistoryFits
  <2>5. QED
    BY <1>0, <2>2, <2>3, <2>4 DEF OrderInv, HistoryFits, EntersNow
<1>4. \A h \in handlers' : h.order = o => HandlerFits(h)'
  BY <1>0 DEF OrderInv, HandlerFits, EntersNow
<1>5. \A x \in reports' : x.order = o => ReportFits(x)'
  BY <1>0 DEF OrderInv, ReportFits, EntersNow
<1>6. \A c \in AuthCall : c.order = o => CallFits(c)'
  BY <1>0 DEF OrderInv, CallFits, EntersNow
<1>7. QED
  BY <1>1, <1>2, <1>3, <1>4, <1>5, <1>6 DEF StepFits, OrderInv

LEMMA CreateOrderFits ==
    ASSUME SagaInv, NEW o \in Orders, CreateOrder(o)
    PROVE  StepFits(o)
<1>1. /\ wf[o].pc = "create"
      /\ UNCHANGED <<payVars, riders, announced, handlers, reports, late>>
  BY DEF CreateOrder, aside, At
<1>2. /\ OrderInv(o) /\ SagaTypeOK /\ OrdersTypeOK
      /\ wf[o] \in Workflow /\ wf \in [Orders -> Workflow]
  BY DEF SagaInv, StoresInv, TrailInv, SagaTypeOK
<1>3. CASE InsertOrder(o) /\ wf' = [wf EXCEPT ![o] = [To(@, "pub_created") EXCEPT !.owner = TRUE]]
  <2>1. "created" \in OrderStatus /\ None \in Riders \cup {None} /\ "pub_created" \in Place
    BY AnnouncesSpeltOut DEF OrderStatus, Place
  <2>2. ~Exists(o) /\ EntersNow(o, "created", None) /\ counted' = counted
    BY <1>2, <1>3, InsertFacts
  <2>3. /\ wf' \in [Orders -> Workflow] /\ \A q \in Orders \ {o} : wf'[q] = wf[q]
        /\ wf'[o].pc = "pub_created" /\ wf'[o].reason = wf[o].reason
        /\ wf'[o].decision = wf[o].decision /\ wf'[o].rider = wf[o].rider
        /\ wf'[o].picked_up = wf[o].picked_up /\ wf'[o].delivered = wf[o].delivered
    <3> DEFINE w == To(wf[o], "pub_created")
    <3>1. /\ w \in Workflow /\ w.pc = "pub_created"
          /\ w.reason = wf[o].reason /\ w.decision = wf[o].decision
          /\ w.rider = wf[o].rider /\ w.picked_up = wf[o].picked_up
          /\ w.delivered = wf[o].delivered
      BY <1>2, <2>1, ToFacts
    <3>2. wf' = [wf EXCEPT ![o] = [w EXCEPT !.owner = TRUE]]
      BY <1>3
    <3> HIDE DEF w
    <3>3. [w EXCEPT !.owner = TRUE] \in Workflow
      BY <3>1, TRUE \in BOOLEAN DEF Workflow
    <3>4. QED
      BY <1>2, <3>1, <3>2, <3>3 DEF Workflow
  <2>4. orders[o].status = "absent" /\ orders'[o].status = "created"
    BY <2>2 DEF Exists, EntersNow
  <2>5. (StageFits(o) /\ MoneyFits(o) /\ AnswerFits(o) /\ ReportsFit(o))'
    BY <1>1, <1>2, <2>2, <2>3, <2>4
       DEF OrderInv, StageFits, MoneyFits, AnswerFits, ReportsFit, EntersNow
  <2>6. CarrierFits(o)'
    BY <1>1, <1>2, <2>3, <2>4 DEF OrderInv, CarrierFits, Holding
  <2>7. o \notin counted' /\ \A q \in late' : q.order = o => LateFits(q)'
    BY <1>1, <1>2, <2>2, <2>3, <2>4 DEF OrderInv, Confirmable, LateFits, InTurn, Declined
  <2>8. orders[o].status \notin Terminal
    BY <2>4 DEF Terminal
  <2>9. QED
    BY <1>1, <2>1, <2>2, <2>3, <2>5, <2>6, <2>7, <2>8, EnteredStep
<1>4. ASSUME NEW p \in {"returned", "refused"}, Goes(o, p), UNCHANGED orderVars
      PROVE  StepFits(o)
  <2>1. p \in Place
    BY DEF Place, Ends
  <2>2. GoesTo(o, p) /\ wf'[o].reason = wf[o].reason /\ wf'[o].decision = wf[o].decision
    BY <1>2, <1>4, <2>1, GoesFacts
  <2>3. (StageFits(o) /\ MoneyFits(o) /\ AnswerFits(o) /\ ReportsFit(o))'
    BY <1>1, <1>2, <1>4, <2>2 DEF OrderInv, StageFits, MoneyFits, AnswerFits, ReportsFit
  <2>4. (CarrierFits(o) /\ HistoryFits(o))'
    BY <1>1, <1>2, <1>4, <2>2 DEF OrderInv, CarrierFits, HistoryFits, HasEntered, Holding
  <2>5. /\ Confirmable(o) => Confirmable(o)'
        /\ \A q \in late : q.order = o => LateFits(q)'
    BY <1>1, <1>2, <1>4, <2>2 DEF OrderInv, Confirmable, LateFits, InTurn, Declined
  <2>6. QED
    BY <1>1, <1>2, <1>4, <2>2, <2>3, <2>4, <2>5, WorkflowStep DEF SagaTypeOK
<1>5. QED
  BY <1>3, <1>4 DEF CreateOrder

LEMMA TransitionOrderFits ==
    ASSUME SagaInv, NEW o \in Orders, TransitionOrder(o)
    PROVE  StepFits(o)
<1> DEFINE s == wf[o].pc
           n == Enters[s]
           r == IF s = "assign" THEN wf[o].rider ELSE None
           p == PublishOf[s]
<1>1. /\ UNCHANGED <<payVars, riders, announced, handlers, reports, late>>
      /\ s \in DOMAIN Enters \ {"confirm"}
      /\ Transition(o, n, r) /\ Goes(o, p)
  BY DEF TransitionOrder, aside
<1>2. /\ OrderInv(o) /\ SagaTypeOK /\ OrdersTypeOK
      /\ wf[o] \in Workflow /\ orders[o] \in OrderRow
  BY DEF SagaInv, StoresInv, TrailInv, SagaTypeOK, OrdersTypeOK
<1>3. \/ s = "assign" /\ n = "assigned" /\ p = "pub_assigned"
      \/ s = "mark_picked_up" /\ n = "picked_up" /\ p = "pub_picked_up"
      \/ s = "mark_delivered" /\ n = "delivered" /\ p = "pub_delivered"
      \/ s = "cancel" /\ n = "cancelled" /\ p = "pub_cancelled"
      \/ s = "cancel_unpaid" /\ n = "cancelled" /\ p = "pub_cancel_unpaid"
      \/ s = "mark_comp_failed" /\ n = "compensation_failed" /\ p = "pub_comp_failed"
  BY <1>1, StepsSpeltOut
<1>4. /\ n \in OrderStatus /\ r \in Riders \cup {None} /\ p \in Place
      /\ s = "assign" => r # None
  <2>1. r \in Riders \cup {None}
    BY <1>2 DEF Workflow
  <2>2. s = "assign" => r # None
    BY <1>2, NoneAssumption DEF OrderInv, CarrierFits
  <2>3. n \in OrderStatus /\ p \in Place
    BY <1>3, AnnouncesSpeltOut DEF OrderStatus, Place
  <2>4. QED
    BY <2>1, <2>2, <2>3
<1>5. GoesTo(o, p) /\ wf'[o].reason = wf[o].reason /\ wf'[o].decision = wf[o].decision
  BY <1>1, <1>2, <1>4, GoesFacts
<1>6. /\ counted' = counted
      /\ CanMove(o, n) => EntersNow(o, n, r)
      /\ ~CanMove(o, n) => orders' = orders /\ trail' = trail
  BY <1>1, <1>2, <1>4, TransitionFacts
<1> HIDE DEF n, r, p
<1>7. CASE CanMove(o, n)
  <2>1. /\ orders[o].status \notin Terminal /\ orders[o].status # "absent"
        /\ Rank[orders[o].status] < Rank[n] /\ orders'[o].status = n
    BY <1>2, <1>4, <1>6, <1>7, CanMoveRaisesRank DEF OrderRow, EntersNow, CanMove, Exists
  <2>2. (StageFits(o) /\ MoneyFits(o))'
    BY <1>1, <1>2, <1>3, <1>5, <2>1 DEF OrderInv, StageFits, MoneyFits, Undone, Terminal
  <2>3. (AnswerFits(o) /\ ReportsFit(o))'
    BY <1>1, <1>2, <1>3, <1>4, <1>5, <1>6, <1>7, <2>1
       DEF OrderInv, StageFits, AnswerFits, ReportsFit, EntersNow, Carrier, Terminal
  <2>4. CarrierFits(o)'
    BY <1>1, <1>2, <1>3, <1>4, <1>5, <2>1 DEF OrderInv, CarrierFits, Holding
  <2>5. Confirmable(o) => Confirmable(o)'
    BY <1>1, <1>2, <1>3, <1>5, <2>1 DEF OrderInv, Confirmable, Declined
  <2>6. ASSUME NEW q \in late, q.order = o PROVE LateFits(q)'
    <3>1. ASSUME NEW u \in {"assign", "mark_picked_up", "mark_delivered"},
                 NEW from \in OrderStatus, InTurn(o, u, from)
          PROVE  InTurn(o, u, from)'
      <4>1. Rank[orders'[o].status] >= Rank[Enters[u]]
        BY <1>1, <1>2, <1>3, <2>1, <3>1, StepsSpeltOut, RanksSpeltOut DEF InTurn, OrderRow, n
      <4>2. QED
        BY <4>1 DEF InTurn
    <3>2. QED
      BY <1>1, <1>2, <1>3, <1>5, <1>6, <1>7, <2>1, <2>5, <2>6, <3>1
         DEF OrderInv, LateFits, Declined, EntersNow, OrderStatus
  <2>7. QED
    BY <1>1, <1>2, <1>3, <1>4, <1>5, <1>6, <1>7, <2>1, <2>2, <2>3, <2>4, <2>5, <2>6, EnteredStep
       DEF OrderInv
<1>8. CASE ~CanMove(o, n)
  <2>1. /\ UNCHANGED orderVars
        /\ \/ orders[o].status \in {n} \cup Undone
           \/ Rank[n] <= Rank[orders[o].status] /\ n \notin Undone
    BY <1>2, <1>3, <1>6, <1>8
       DEF OrderInv, StageFits, MoneyFits, CanMove, Exists, Terminal, Undone, Rank, OrderStatus
  <2>2. (StageFits(o) /\ MoneyFits(o) /\ AnswerFits(o) /\ ReportsFit(o))'
    BY <1>1, <1>2, <1>3, <1>5, <2>1
       DEF OrderInv, StageFits, MoneyFits, AnswerFits, ReportsFit, Undone, Rank, OrderStatus
  <2>3. (CarrierFits(o) /\ HistoryFits(o))'
    BY <1>1, <1>2, <1>3, <1>5, <2>1 DEF OrderInv, CarrierFits, HistoryFits, HasEntered, Holding
  <2>4. Confirmable(o) => Confirmable(o)'
    BY <1>1, <1>2, <1>3, <1>5, <2>1 DEF OrderInv, Confirmable, Declined
  <2>5. ASSUME NEW q \in late, q.order = o PROVE LateFits(q)'
    <3>1. ASSUME NEW u \in {"assign", "mark_picked_up", "mark_delivered"},
                 NEW from \in OrderStatus, InTurn(o, u, from)
          PROVE  InTurn(o, u, from)'
      <4>1. u = s => Rank[orders[o].status] >= Rank[Enters[u]]
        BY <1>2, <1>3, <2>1, StepsSpeltOut, RanksSpeltOut DEF Undone
      <4>2. QED
        BY <1>1, <1>3, <1>5, <2>1, <3>1, <4>1 DEF InTurn
    <3>2. QED
      BY <1>1, <1>2, <1>3, <1>5, <2>1, <2>4, <2>5, <3>1
         DEF OrderInv, LateFits, Declined, OrderStatus
  <2>6. QED
    BY <1>1, <1>2, <1>3, <1>5, <2>1, <2>2, <2>3, <2>4, <2>5, WorkflowStep DEF SagaTypeOK
<1>9. QED
  BY <1>7, <1>8

-----------------------------------------------------------------------------
(* Steps that leave the workflow where it is.                              *)

Stays(o) ==
    /\ wf' \in [Orders -> Workflow]
    /\ \A q \in Orders \ {o} : wf'[q] = wf[q]
    /\ wf'[o].pc = wf[o].pc /\ wf'[o].rider = wf[o].rider
    /\ wf'[o].picked_up = wf[o].picked_up /\ wf'[o].delivered = wf[o].delivered
    /\ wf'[o].reason = wf[o].reason /\ wf'[o].decision = wf[o].decision
    /\ wf'[o].pc = "authorize" => wf'[o].attempt <= AuthAttempts

\* The order's money does not move, unless it is being given back.
MoneyKept(o) ==
    /\ payments[o].status = "refunded" => payments'[o].status = "refunded"
    /\ payments[o].status = "authorized" =>
          \/ payments'[o].status = "authorized"
          \/ payments'[o].status = "refunded" /\ wf[o].reason # "none"
    /\ payments'[o].status = "refunded" =>
          payments[o].status = "refunded" \/ wf[o].reason # "none"
    /\ PaidFor(o)' => charges'[o] = 1
    /\ refunding'[o] = refunding[o] \/ wf[o].reason # "none"

LEMMA BegunFacts ==
    ASSUME SagaTypeOK, NEW o \in Orders, wf' = [wf EXCEPT ![o].begun = TRUE]
    PROVE  Stays(o)
<1>1. wf[o] \in Workflow /\ wf \in [Orders -> Workflow]
  BY DEF SagaTypeOK
<1>2. [wf[o] EXCEPT !.begun = TRUE] \in Workflow
  BY <1>1, TRUE \in BOOLEAN DEF Workflow
<1>3. wf' = [wf EXCEPT ![o] = [wf[o] EXCEPT !.begun = TRUE]]
  OBVIOUS
<1> HIDE DEF SagaTypeOK
<1>4. QED
  BY <1>1, <1>2, <1>3 DEF Stays, Workflow, SagaTypeOK

\* An attempt fails: the next one begins, or the activity has failed for good.
LEMMA FailsFacts ==
    ASSUME SagaTypeOK, NEW o \in Orders, AttemptFails(o)
    PROVE  Stays(o) \/ wf' = [wf EXCEPT ![o] = GivenUp(wf[o])]
<1>1. wf[o] \in Workflow /\ wf \in [Orders -> Workflow]
  BY DEF SagaTypeOK
<1>5. wf' = [wf EXCEPT ![o] = IF wf[o].attempt < Attempts(wf[o].pc)
                                THEN Again(wf[o]) ELSE GivenUp(wf[o])]
  BY DEF AttemptFails
<1> DEFINE u == [wf[o] EXCEPT !.attempt = @ + 1]
           w == Again(wf[o])
<1>2. /\ u.pc = wf[o].pc /\ u.rider = wf[o].rider /\ u.attempt = wf[o].attempt + 1
      /\ u.picked_up = wf[o].picked_up /\ u.delivered = wf[o].delivered
      /\ u.reason = wf[o].reason /\ u.decision = wf[o].decision
      /\ u \in Workflow
  <2>1. wf[o].attempt + 1 \in Nat \ {0}
    BY <1>1 DEF Workflow
  <2>2. QED
    BY <1>1, <2>1 DEF Workflow
<1>3. w = [u EXCEPT !.begun = FALSE]
  BY DEF Again
<1> HIDE DEF u
<1>4. /\ w.pc = wf[o].pc /\ w.rider = wf[o].rider /\ w.attempt = wf[o].attempt + 1
      /\ w.picked_up = wf[o].picked_up /\ w.delivered = wf[o].delivered
      /\ w.reason = wf[o].reason /\ w.decision = wf[o].decision
      /\ w \in Workflow
  BY <1>2, <1>3, FALSE \in BOOLEAN DEF Workflow
<1> HIDE DEF w
<1>6. CASE wf[o].attempt < Attempts(wf[o].pc)
  <2>1. wf' = [wf EXCEPT ![o] = w]
    BY <1>5, <1>6 DEF w
  <2>2. wf[o].pc = "authorize" => wf[o].attempt < AuthAttempts
    BY <1>6 DEF Attempts
  <2>3. wf[o].pc = "authorize" => wf[o].attempt + 1 <= AuthAttempts
    BY <1>1, <2>2, AttemptsAssumption DEF Workflow
  <2>4. QED
    BY <1>1, <1>4, <2>1, <2>3 DEF Stays
<1>7. CASE ~(wf[o].attempt < Attempts(wf[o].pc))
  BY <1>5, <1>7
<1>8. QED
  BY <1>6, <1>7

LEMMA StaysFits ==
    ASSUME SagaInv, NEW o \in Orders, Stays(o), MoneyKept(o),
           UNCHANGED <<orders, trail, riders>>, announced'[o] = announced[o]
    PROVE  /\ (StageFits(o) /\ MoneyFits(o) /\ AnswerFits(o) /\ ReportsFit(o))'
           /\ (CarrierFits(o) /\ HistoryFits(o))'
           /\ Confirmable(o) => Confirmable(o)'
           /\ \A q \in late : q.order = o => LateFits(q)'
<1> USE DEF SagaInv, OrderInv, Stays, MoneyKept
<1>1. (StageFits(o) /\ MoneyFits(o) /\ AnswerFits(o) /\ ReportsFit(o))'
  BY DEF StageFits, MoneyFits, AnswerFits, ReportsFit
<1>2. CarrierFits(o)'
  BY DEF CarrierFits, Holding
<1>3. HistoryFits(o)'
  BY DEF HistoryFits, HasEntered
<1>4. Confirmable(o) => Confirmable(o)'
  BY DEF Confirmable, Declined
<1>5. \A q \in late : q.order = o => LateFits(q)'
  BY <1>4 DEF LateFits, InTurn, Declined
<1>6. QED
  BY <1>1, <1>2, <1>3, <1>4, <1>5

-----------------------------------------------------------------------------
(* Executions of authorise().                                              *)

CallMoves(c) ==
    \/ SendAuth(c) /\ Exists(c.order)
    \/ AuthoriseStep(c)
    \/ CrashAuth(c)

LEMMA CallFacts ==
    ASSUME SagaInv, NEW c \in AuthCall, CallMoves(c), orders' = orders
    PROVE  /\ c.order \in Orders /\ refunding' = refunding
           /\ \A p \in Orders \ {c.order} : payments'[p] = payments[p] /\ charges'[p] = charges[p]
           /\ \A d \in AuthCall \ {c} : auth'[d] = auth[d]
           /\ MoneyKept(c.order)
           /\ \A d \in AuthCall : d.order = c.order => CallFits(d)'
<1> DEFINE o == c.order
<1>1. o \in Orders /\ c.kind \in KeyKind /\ \A d \in AuthCall : d.order \in Orders
  BY DEF AuthCall
<1>2. OrderInv(o) /\ PayInv /\ PayTypeOK
  BY <1>1 DEF SagaInv, StoresInv, PayInv
<1>3. /\ \A d \in AuthCall : d.order = o => CallFits(d)
      /\ PaidFor(o) => charges[o] = 1
  BY <1>1, <1>2 DEF OrderInv, MoneyFits
<1> HIDE DEF SagaInv, o
<1>4. CASE (SendAuth(c) /\ Exists(o)) \/ CrashAuth(c) \/ FindByKey(c)
  <2>1. /\ payments' = payments /\ charges' = charges /\ refunding' = refunding
        /\ \A d \in AuthCall \ {c} : auth'[d] = auth[d]
        /\ auth[c] # "unsent" \/ Exists(o)
        /\ \/ auth'[c] \in {"sent", "checked", "crashed", "replayed_pending"}
           \/ auth'[c] \in {"replayed_authorized", "replayed_refunded"} /\ PaidFor(o)
    <3>1. CASE SendAuth(c) /\ Exists(o)
      BY <1>2, <3>1 DEF SendAuth, Sent, PayTypeOK
    <3>2. CASE CrashAuth(c)
      BY <1>2, <3>2 DEF CrashAuth, PayTypeOK, Running
    <3>3. CASE FindByKey(c)
      <4>1. payments[o] \in PaymentRow /\ (payments[o].key = "none" <=> payments[o].status = "none")
        BY <1>1, <1>2 DEF PayInv, PayTypeOK, KeyWithRow
      <4>2. payments[o].key = c.kind =>
              /\ payments[o].status \in {"pending", "authorized", "refunded"}
              /\ Replayed[payments[o].status] = "replayed_pending" \/ PaidFor(o)
              /\ Replayed[payments[o].status] \in
                   {"replayed_pending", "replayed_authorized", "replayed_refunded"}
        BY <1>1, <4>1 DEF PaymentRow, KeyKind, Replayed
      <4>3. QED
        BY <1>2, <3>3, <4>2 DEF FindByKey, PayTypeOK, o
    <3>4. QED
      BY <1>4, <3>1, <3>2, <3>3
  <2>2. MoneyKept(o)
    BY <1>3, <2>1 DEF MoneyKept
  <2>3. \A d \in AuthCall : d.order = o => CallFits(d)'
    BY <1>3, <2>1 DEF CallFits, Exists, o
  <2>4. QED
    BY <1>1, <2>1, <2>2, <2>3 DEF o
<1>5. CASE InsertPending(c) \/ ChargeCard(c) \/ MarkAuthorized(c)
  <2>1. /\ refunding' = refunding
        /\ \A p \in Orders \ {o} : payments'[p] = payments[p] /\ charges'[p] = charges[p]
        /\ \A d \in AuthCall \ {c} : auth'[d] = auth[d]
    BY <1>1, <1>2, <1>5 DEF InsertPending, ChargeCard, MarkAuthorized, PayTypeOK, o
  <2>2. CASE InsertPending(c)
    <3>1. /\ charges' = charges /\ auth[c] = "checked"
          /\ \/ /\ payments[o].status = "none" /\ payments'[o].status = "pending"
                /\ auth'[c] = "inserted"
             \/ payments' = payments /\ auth'[c] = "conflict"
      BY <1>1, <1>2, <2>2 DEF InsertPending, PayTypeOK, o
    <3>2. MoneyKept(o)
      BY <1>3, <2>1, <3>1 DEF MoneyKept
    <3>3. \A d \in AuthCall : d.order = o => CallFits(d)'
      BY <1>1, <1>3, <2>1, <3>1 DEF CallFits, o
    <3>4. QED
      BY <1>1, <2>1, <3>2, <3>3 DEF o
  <2>3. CASE ChargeCard(c)
    <3>1. payments' = payments /\ auth[c] = "inserted" /\ auth'[c] = "charged"
      BY <1>1, <1>2, <2>3 DEF ChargeCard, PayTypeOK, o
    <3>2. payments[o].status = "pending"
      BY <1>3, <3>1 DEF CallFits, o
    <3>3. MoneyKept(o)
      BY <2>1, <3>1, <3>2 DEF MoneyKept
    <3>4. \A d \in AuthCall : d.order = o => CallFits(d)'
      BY <1>1, <1>3, <2>1, <3>1, <3>2 DEF CallFits, o
    <3>5. QED
      BY <1>1, <2>1, <3>3, <3>4 DEF o
  <2>4. CASE MarkAuthorized(c)
    <3>1. /\ charges' = charges /\ auth[c] = "charged" /\ auth'[c] = "marked"
          /\ payments'[o].status = "authorized"
      BY <1>1, <1>2, <2>4 DEF MarkAuthorized, PayTypeOK, PaymentRow, o
    <3>2. payments[o].status = "pending" /\ charges[o] = 1
      BY <1>2, <1>3, <3>1 DEF CallFits, PayInv, ChargedOnes, o
    <3>3. MoneyKept(o)
      BY <2>1, <3>1, <3>2 DEF MoneyKept
    <3>4. \A d \in AuthCall \ {c} : d.order = o => auth[d] \notin {"inserted", "charged"}
      BY <1>2, <3>1 DEF PayInv, InserterIsAlone, HasInserted, o
    <3>5. \A d \in AuthCall : d.order = o => CallFits(d)'
      BY <1>1, <1>3, <2>1, <3>1, <3>2, <3>4 DEF CallFits, o
    <3>6. QED
      BY <1>1, <2>1, <3>3, <3>5 DEF o
  <2>5. QED
    BY <1>5, <2>2, <2>3, <2>4
<1>6. QED
  BY <1>4, <1>5 DEF CallMoves, AuthoriseStep, o

LEMMA CallMovesFits ==
    ASSUME SagaInv, NEW c \in AuthCall, CallMoves(c), Stays(c.order),
           UNCHANGED <<orderVars, riders, handlers, reports, late, announced>>
    PROVE  StepFits(c.order)
<1> DEFINE o == c.order
<1>1. /\ o \in Orders /\ refunding' = refunding
      /\ \A p \in Orders \ {o} : payments'[p] = payments[p] /\ charges'[p] = charges[p]
      /\ \A d \in AuthCall \ {c} : auth'[d] = auth[d]
      /\ MoneyKept(o)
      /\ \A d \in AuthCall : d.order = o => CallFits(d)'
  BY CallFacts
<1> HIDE DEF o
<1>2. SagaTypeOK'
  BY <1>1 DEF SagaInv, SagaTypeOK, Stays, o
<1>3. \A p \in Orders \ {o} : Untouched(p)
  BY <1>1 DEF Untouched, Stays, o
<1>4. /\ (StageFits(o) /\ MoneyFits(o) /\ AnswerFits(o) /\ ReportsFit(o))'
      /\ (CarrierFits(o) /\ HistoryFits(o))'
      /\ Confirmable(o) => Confirmable(o)'
      /\ \A q \in late : q.order = o => LateFits(q)'
  BY <1>1, StaysFits DEF o
<1>5. /\ o \in counted' => Confirmable(o)'
      /\ \A h \in handlers' : h.order = o => HandlerFits(h)'
      /\ \A x \in reports' : x.order = o => ReportFits(x)'
  BY <1>1, <1>4 DEF SagaInv, OrderInv, HandlerFits, ReportFits
<1>6. QED
  BY <1>1, <1>2, <1>3, <1>4, <1>5 DEF StepFits, OrderInv, o

LEMMA SendAuthorizeFits ==
    ASSUME SagaInv, NEW o \in Orders, SendAuthorize(o)
    PROVE  StepFits(o)
<1> DEFINE c == CurrentAuth(o)
<1>1. /\ UNCHANGED <<orderVars, riders, announced, handlers, reports, late>>
      /\ wf[o].pc = "authorize" /\ SendAuth(c) /\ wf' = [wf EXCEPT ![o].begun = TRUE]
  BY DEF SendAuthorize, aside, At
<1>2. c \in AuthCall /\ c.order = o /\ Exists(o)
  BY <1>1 DEF SagaInv, SagaTypeOK, CurrentAuth, AuthCall, KeyKind, Workflow, OrderInv, StageFits,
              Exists
<1>3. Stays(o)
  BY <1>1, BegunFacts DEF SagaInv
<1> HIDE DEF c
<1>4. QED
  BY <1>1, <1>2, <1>3, CallMovesFits DEF CallMoves

LEMMA UnmovedStays ==
    ASSUME SagaTypeOK, NEW o \in Orders, wf' = wf
    PROVE  Stays(o)
  BY DEF SagaTypeOK, Stays

LEMMA ServeAuthorizeFits ==
    ASSUME SagaInv, NEW o \in Orders, ServeAuthorize(o)
    PROVE  StepFits(o)
<1> DEFINE c == CurrentAuth(o)
<1>1. /\ UNCHANGED <<orderVars, riders, announced, handlers, reports, late, wf>>
      /\ wf[o].pc = "authorize" /\ AuthoriseStep(c)
  BY DEF ServeAuthorize, sagaVars, At
<1>2. c \in AuthCall /\ c.order = o /\ Stays(o)
  BY <1>1, UnmovedStays DEF SagaInv, SagaTypeOK, CurrentAuth, AuthCall, KeyKind, Workflow
<1> HIDE DEF c
<1>3. QED
  BY <1>1, <1>2, CallMovesFits DEF CallMoves

LEMMA ServeUnwaitedFits ==
    ASSUME SagaInv, NEW c \in AuthCall, ServeUnwaited(c) \/ PayManually(c)
    PROVE  c.order \in Orders /\ StepFits(c.order)
<1>1. /\ UNCHANGED <<orderVars, riders, announced, handlers, reports, late, wf>>
      /\ CallMoves(c)
  BY DEF ServeUnwaited, PayManually, sagaVars, CallMoves
<1>2. c.order \in Orders /\ Stays(c.order)
  BY <1>1, UnmovedStays DEF SagaInv, AuthCall
<1>3. QED
  BY <1>1, <1>2, CallMovesFits

-----------------------------------------------------------------------------
(* Attempts that fail.                                                     *)

\* What it does to a workflow that an activity has failed for good.
GaveUp(o) ==
    LET p == wf'[o].pc
        s == wf[o].pc
    IN  /\ GoesTo(o, p) /\ wf'[o].decision = wf[o].decision
        /\ \/ /\ \/ s = "create" /\ p = "create_failed"
                 \/ s = "authorize" /\ p = "cancel_unpaid"
                 \/ s = "refund" /\ p = "mark_comp_failed"
                 \/ s \in {"cancel", "mark_comp_failed"} /\ p = "refund"
                 \/ /\ s \in {"assign", "mark_picked_up", "mark_delivered", "cancel",
                              "cancel_unpaid", "mark_comp_failed", "release_delivered",
                              "release_failed", "dispatch"}
                    /\ p = "broken"
              /\ wf'[o].reason = wf[o].reason
           \/ /\ \/ s \in {"confirm", "read_decision", "dispatch"} /\ p = "refund"
                 \/ s \in {"read_pickup", "read_delivery"} /\ p = "release_failed"
              /\ wf'[o].reason # "none"

LEMMA GivenUpFacts ==
    ASSUME SagaTypeOK, NEW o \in Orders, wf[o].pc \in Activities,
           wf' = [wf EXCEPT ![o] = GivenUp(wf[o])]
    PROVE  GaveUp(o)
<1> DEFINE w == wf[o]
           u == GivenUp(w)
<1>1. w \in Workflow /\ wf \in [Orders -> Workflow]
  BY DEF SagaTypeOK
<1>2. /\ {"create_failed", "cancel_unpaid", "refund", "release_failed", "mark_comp_failed",
          "broken"} \subseteq Place
      /\ {"kitchen_at_capacity", "kitchen_timeout", "pickup_timeout", "delivery_timeout"}
           \subseteq Reason
      /\ "none" \notin Reason
  BY PlacesSpeltOut DEF Place, Ends, Reason
<1> DEFINE Same(v) == /\ v \in Workflow
                      /\ v.attempt = 1 /\ v.decision = w.decision /\ v.rider = w.rider
                      /\ v.picked_up = w.picked_up /\ v.delivered = w.delivered
<1>3. ASSUME NEW p \in Place
      PROVE  Same(To(w, p)) /\ To(w, p).pc = p /\ To(w, p).reason = w.reason
  BY <1>1, ToFacts
<1>4. ASSUME NEW p \in Place, NEW why \in Reason
      PROVE  Same(For(w, p, why)) /\ For(w, p, why).pc = p /\ For(w, p, why).reason = why
  BY <1>1, ForFacts
<1>5. LET v == [To(w, "refund") EXCEPT !.runs = @ + 1]
      IN  Same(v) /\ v.pc = "refund" /\ v.reason = w.reason
  <2> DEFINE t == To(w, "refund")
  <2>1. Same(t) /\ t.pc = "refund" /\ t.reason = w.reason
    BY <1>2, <1>3
  <2> HIDE DEF t
  <2>2. t.runs + 1 \in Nat
    BY <2>1 DEF Workflow
  <2>3. [t EXCEPT !.runs = @ + 1] \in Workflow
    BY <2>1, <2>2 DEF Workflow
  <2>4. Same([t EXCEPT !.runs = @ + 1]) /\ [t EXCEPT !.runs = @ + 1].pc = "refund"
        /\ [t EXCEPT !.runs = @ + 1].reason = w.reason
    BY <2>1, <2>3 DEF Workflow
  <2>5. QED
    BY <2>4 DEF t
<1>6. w.pc \in {"create", "confirm", "assign", "mark_picked_up", "mark_delivered",
                "cancel", "cancel_unpaid", "mark_comp_failed",
                "read_decision", "read_pickup", "read_delivery",
                "release_delivered", "release_failed", "authorize", "dispatch", "refund"}
  BY PlacesSpeltOut
<1>7. \/ w.pc = "create" /\ u = To(w, "create_failed")
      \/ w.pc = "authorize" /\ u = To(w, "cancel_unpaid")
      \/ w.pc = "confirm" /\ u = For(w, "refund", "kitchen_at_capacity")
      \/ w.pc = "read_decision" /\ u = For(w, "refund", "kitchen_timeout")
      \/ w.pc = "read_pickup" /\ u = For(w, "release_failed", "pickup_timeout")
      \/ w.pc = "read_delivery" /\ u = For(w, "release_failed", "delivery_timeout")
      \/ w.pc = "refund" /\ u = To(w, "mark_comp_failed")
      \/ w.pc \in {"cancel", "mark_comp_failed"} /\ u = [To(w, "refund") EXCEPT !.runs = @ + 1]
      \/ w.pc \in {"assign", "mark_picked_up", "mark_delivered", "cancel",
                   "cancel_unpaid", "mark_comp_failed", "release_delivered",
                   "release_failed", "dispatch"} /\ u = To(w, "broken")
  BY <1>6 DEF GivenUp
<1>8. /\ Same(u)
      /\ \/ /\ \/ w.pc = "create" /\ u.pc = "create_failed"
               \/ w.pc = "authorize" /\ u.pc = "cancel_unpaid"
               \/ w.pc = "refund" /\ u.pc = "mark_comp_failed"
               \/ w.pc \in {"cancel", "mark_comp_failed"} /\ u.pc = "refund"
               \/ /\ w.pc \in {"assign", "mark_picked_up", "mark_delivered", "cancel",
                               "cancel_unpaid", "mark_comp_failed", "release_delivered",
                               "release_failed", "dispatch"}
                  /\ u.pc = "broken"
            /\ u.reason = w.reason
         \/ /\ \/ w.pc \in {"confirm", "read_decision"} /\ u.pc = "refund"
               \/ w.pc \in {"read_pickup", "read_delivery"} /\ u.pc = "release_failed"
            /\ u.reason # "none"
  <2>1. ASSUME NEW p \in {"create_failed", "cancel_unpaid", "mark_comp_failed", "broken"},
               u = To(w, p)
        PROVE  Same(u) /\ u.pc = p /\ u.reason = w.reason
    BY <1>2, <1>3, <2>1
  <2>2. ASSUME NEW p \in {"refund", "release_failed"},
               NEW why \in {"kitchen_at_capacity", "kitchen_timeout", "pickup_timeout",
                            "delivery_timeout"},
               u = For(w, p, why)
        PROVE  Same(u) /\ u.pc = p /\ u.reason # "none"
    BY <1>2, <1>4, <2>2
  <2> HIDE DEF u, w, Same
  <2>3. QED
    BY <1>5, <1>7, <2>1, <2>2
<1> HIDE DEF u
<1>9. wf'[o] = u /\ \A q \in Orders \ {o} : wf'[q] = wf[q]
  BY <1>1 DEF u
<1>10. wf' \in [Orders -> Workflow]
  BY <1>1, <1>8 DEF u
<1>11. QED
  BY <1>8, <1>9, <1>10 DEF GaveUp

LEMMA GaveUpFits ==
    ASSUME SagaInv, NEW o \in Orders, GaveUp(o), MoneyKept(o),
           UNCHANGED <<orders, trail, riders>>, announced'[o] = announced[o]
    PROVE  /\ (StageFits(o) /\ MoneyFits(o) /\ AnswerFits(o) /\ ReportsFit(o))'
           /\ (CarrierFits(o) /\ HistoryFits(o))'
           /\ Confirmable(o) => Confirmable(o)'
           /\ \A q \in late : q.order = o => LateFits(q)'
<1> USE DEF SagaInv, OrderInv, GaveUp, MoneyKept
<1>1. StageFits(o)'
  BY DEF StageFits, MoneyFits, Undone
<1>2. MoneyFits(o)'
  BY DEF StageFits, MoneyFits
<1>3. (AnswerFits(o) /\ ReportsFit(o))'
  BY DEF AnswerFits, ReportsFit
<1>4. CarrierFits(o)'
  BY DEF CarrierFits, Holding
<1>5. HistoryFits(o)'
  BY DEF HistoryFits, HasEntered
<1>6. Confirmable(o) => Confirmable(o)'
  BY DEF Confirmable, Declined, StageFits, MoneyFits
<1>7. \A q \in late : q.order = o => LateFits(q)'
  BY <1>6 DEF LateFits, InTurn, Declined, StageFits, MoneyFits
<1>8. QED
  BY <1>1, <1>2, <1>3, <1>4, <1>5, <1>6, <1>7

LEMMA FailsFits ==
    ASSUME SagaInv, NEW o \in Orders, wf[o].pc \in Activities, AttemptFails(o), MoneyKept(o),
           UNCHANGED <<orders, trail, riders>>, announced'[o] = announced[o]
    PROVE  /\ wf' \in [Orders -> Workflow]
           /\ \A q \in Orders \ {o} : wf'[q] = wf[q]
           /\ wf'[o].pc = "authorize" => wf'[o].attempt <= AuthAttempts
           /\ (StageFits(o) /\ MoneyFits(o) /\ AnswerFits(o) /\ ReportsFit(o))'
           /\ (CarrierFits(o) /\ HistoryFits(o))'
           /\ Confirmable(o) => Confirmable(o)'
           /\ \A q \in late : q.order = o => LateFits(q)'
           /\ Stays(o) \/ GaveUp(o)
<1>1. CASE Stays(o)
  BY <1>1, StaysFits DEF Stays
<1>2. CASE wf' = [wf EXCEPT ![o] = GivenUp(wf[o])]
  <2>1. GaveUp(o)
    BY <1>2, GivenUpFacts DEF SagaInv
  <2>2. wf'[o].pc # "authorize"
    BY <2>1 DEF GaveUp
  <2>3. QED
    BY <2>1, <2>2, GaveUpFits DEF GaveUp
<1>3. QED
  BY <1>1, <1>2, FailsFacts DEF SagaInv

LEMMA RefundFacts ==
    ASSUME SagaInv, NEW o \in Orders, wf[o].reason # "none",
           IssueRefund(o) \/ MarkRefunded(o) \/ CrashRefund(o), orders' = orders
    PROVE  /\ auth' = auth /\ charges' = charges
           /\ \A p \in Orders \ {o} : payments'[p] = payments[p] /\ refunding'[p] = refunding[p]
           /\ MoneyKept(o)
           /\ \A c \in AuthCall : c.order = o => CallFits(c)'
           /\ MarkRefunded(o) => payments'[o].status = "refunded"
<1>1. /\ OrderInv(o) /\ PayTypeOK
      /\ payments[o].status \in {"authorized", "refunded"} /\ charges[o] = 1
  BY DEF SagaInv, StoresInv, PayInv, OrderInv, MoneyFits
<1>2. /\ auth' = auth /\ charges' = charges
      /\ \A p \in Orders \ {o} : payments'[p] = payments[p] /\ refunding'[p] = refunding[p]
      /\ payments'[o].status \in {payments[o].status, "refunded"}
      /\ MarkRefunded(o) => payments'[o].status = "refunded"
  BY <1>1 DEF IssueRefund, MarkRefunded, CrashRefund, PayTypeOK, PaymentRow, Refundable
<1>3. MoneyKept(o)
  BY <1>1, <1>2 DEF MoneyKept
<1>4. \A c \in AuthCall : c.order = o => CallFits(c)'
  BY <1>1, <1>2 DEF OrderInv, CallFits
<1>5. QED
  BY <1>2, <1>3, <1>4

LEMMA LoseAttemptFits ==
    ASSUME SagaInv, NEW o \in Orders, LoseAttempt(o)
    PROVE  StepFits(o)
<1> DEFINE s == wf[o].pc
           lost == [order |-> o, step |-> s]
<1>1. /\ UNCHANGED <<orderVars, payVars, riders, handlers, reports, announced>>
      /\ s \in Activities
      /\ late' = late \cup (IF s \in Writes /\ ~wf[o].begun THEN {lost} ELSE {})
      /\ AttemptFails(o) \/ (s = "create" /\ Goes(o, "create_failed"))
  BY DEF LoseAttempt, At
<1>2. OrderInv(o) /\ SagaTypeOK /\ MoneyKept(o)
  BY <1>1 DEF SagaInv, OrderInv, MoneyFits, MoneyKept
<1>3. /\ wf' \in [Orders -> Workflow]
      /\ \A q \in Orders \ {o} : wf'[q] = wf[q]
      /\ wf'[o].pc = "authorize" => wf'[o].attempt <= AuthAttempts
      /\ (StageFits(o) /\ MoneyFits(o) /\ AnswerFits(o) /\ ReportsFit(o))'
      /\ (CarrierFits(o) /\ HistoryFits(o))'
      /\ Confirmable(o) => Confirmable(o)'
      /\ \A q \in late : q.order = o => LateFits(q)'
      /\ Stays(o) \/ GaveUp(o)
  <2>1. CASE AttemptFails(o)
    BY <1>1, <1>2, <2>1, FailsFits
  <2>2. CASE s = "create" /\ Goes(o, "create_failed")
    <3>1. GoesTo(o, "create_failed") /\ wf'[o].reason = wf[o].reason
          /\ wf'[o].decision = wf[o].decision
      BY <1>2, <2>2, GoesFacts DEF Place, Ends
    <3>2. GaveUp(o)
      BY <2>2, <3>1 DEF GaveUp
    <3>3. QED
      BY <1>1, <1>2, <3>1, <3>2, GaveUpFits
  <2>3. QED
    BY <1>1, <2>1, <2>2
<1>4. SagaTypeOK'
  <2>1. lost \in Request
    BY <1>1 DEF Request
  <2>2. QED
    BY <1>1, <1>2, <1>3, <2>1 DEF SagaTypeOK
<1>5. \A p \in Orders \ {o} : Untouched(p)
  BY <1>1, <1>3 DEF Untouched
<1>6. ASSUME NEW q, q = lost, s \in Writes PROVE LateFits(q)'
  <2>1. /\ q.order = o /\ q.step = s
        /\ s # "create" => orders[o].status # "absent"
    BY <1>1, <1>2, <1>6, PlacesSpeltOut DEF OrderInv, StageFits, MoneyFits, Undone
  <2>2. s = "confirm" => Confirmable(o)
    BY <1>2 DEF Confirmable, Declined, OrderInv, MoneyFits
  <2>3. s = "assign" => InTurn(o, "assign", "confirmed")' /\ wf[o].rider # None
    BY <1>1, <1>2, <1>3, StepsSpeltOut, RanksSpeltOut, NoneAssumption
       DEF Stays, GaveUp, InTurn, OrderInv, StageFits, MoneyFits, AnswerFits, CarrierFits
  <2>4. s = "mark_picked_up" => InTurn(o, "mark_picked_up", "assigned")' /\ orders[o].reported # "none"
    BY <1>1, <1>2, <1>3, StepsSpeltOut, RanksSpeltOut
       DEF Stays, GaveUp, InTurn, OrderInv, StageFits, MoneyFits, AnswerFits, ReportsFit
  <2>5. s = "mark_delivered" => InTurn(o, "mark_delivered", "picked_up")' /\ orders[o].reported = "delivered"
    BY <1>1, <1>2, <1>3, StepsSpeltOut, RanksSpeltOut
       DEF Stays, GaveUp, InTurn, OrderInv, StageFits, MoneyFits, AnswerFits, ReportsFit
  <2>6. s = "cancel_unpaid" => Declined(o)'
    BY <1>1, <1>2, <1>3 DEF Stays, GaveUp, Declined, OrderInv, StageFits, MoneyFits
  <2>7. s \in Releases => wf'[o].pc \in Releases \cup Backward \cup {"finished", "broken"}
    BY <1>1, <1>3 DEF Stays, GaveUp
  <2>8. s \in {"refund", "cancel", "mark_comp_failed"} => wf'[o].reason # "none"
    BY <1>1, <1>2, <1>3 DEF Stays, GaveUp, OrderInv, MoneyFits
  <2>9. s = "cancel" => payments[o].status = "refunded"
    BY <1>2 DEF OrderInv, MoneyFits
  <2> HIDE DEF s, lost
  <2>10. wf'[o].rider = wf[o].rider
    BY <1>3 DEF Stays, GaveUp
  <2>11. QED
    BY <1>1, <1>3, <2>1, <2>2, <2>3, <2>4, <2>5, <2>6, <2>7, <2>8, <2>9, <2>10 DEF LateFits
<1>7. \A q \in late' : q.order = o => LateFits(q)'
  BY <1>1, <1>3, <1>6
<1>8. /\ o \in counted' => Confirmable(o)'
      /\ \A h \in handlers' : h.order = o => HandlerFits(h)'
      /\ \A x \in reports' : x.order = o => ReportFits(x)'
      /\ \A c \in AuthCall : c.order = o => CallFits(c)'
  BY <1>1, <1>2, <1>3 DEF OrderInv, HandlerFits, ReportFits, CallFits
<1>9. QED
  BY <1>3, <1>4, <1>5, <1>7, <1>8 DEF StepFits, OrderInv

LEMMA CrashPaymentFits ==
    ASSUME SagaInv, NEW o \in Orders, CrashPayment(o)
    PROVE  StepFits(o)
<1> DEFINE c == CurrentAuth(o)
<1>1. /\ UNCHANGED <<orderVars, riders, handlers, reports, late, announced>>
      /\ AttemptFails(o) /\ wf[o].pc \in Activities
      /\ \/ wf[o].pc = "authorize" /\ CrashAuth(c)
         \/ wf[o].pc = "refund" /\ CrashRefund(o)
  BY PlacesSpeltOut DEF CrashPayment, At
<1>2. OrderInv(o) /\ SagaTypeOK
  BY DEF SagaInv
<1>3. /\ \A p \in Orders \ {o} : /\ payments'[p] = payments[p] /\ charges'[p] = charges[p]
                                 /\ refunding'[p] = refunding[p]
      /\ \A d \in AuthCall : d.order # o => auth'[d] = auth[d]
      /\ MoneyKept(o)
      /\ \A d \in AuthCall : d.order = o => CallFits(d)'
  <2>1. CASE wf[o].pc = "authorize" /\ CrashAuth(c)
    <3>1. c \in AuthCall /\ c.order = o
      BY <1>2, <2>1 DEF SagaTypeOK, CurrentAuth, AuthCall, KeyKind, Workflow
    <3> HIDE DEF c
    <3>2. QED
      BY <1>1, <2>1, <3>1, CallFacts DEF CallMoves
  <2>2. CASE wf[o].pc = "refund" /\ CrashRefund(o)
    <3>1. wf[o].reason # "none"
      BY <1>2, <2>2 DEF OrderInv, MoneyFits
    <3>2. QED
      BY <1>1, <2>2, <3>1, RefundFacts
  <2>3. QED
    BY <1>1, <2>1, <2>2
<1>4. /\ wf' \in [Orders -> Workflow]
      /\ \A q \in Orders \ {o} : wf'[q] = wf[q]
      /\ wf'[o].pc = "authorize" => wf'[o].attempt <= AuthAttempts
      /\ (StageFits(o) /\ MoneyFits(o) /\ AnswerFits(o) /\ ReportsFit(o))'
      /\ (CarrierFits(o) /\ HistoryFits(o))'
      /\ Confirmable(o) => Confirmable(o)'
      /\ \A q \in late : q.order = o => LateFits(q)'
  BY <1>1, <1>3, FailsFits
<1>5. SagaTypeOK' /\ \A p \in Orders \ {o} : Untouched(p)
  BY <1>1, <1>2, <1>3, <1>4 DEF SagaTypeOK, Untouched
<1>6. /\ o \in counted' => Confirmable(o)'
      /\ \A h \in handlers' : h.order = o => HandlerFits(h)'
      /\ \A x \in reports' : x.order = o => ReportFits(x)'
  BY <1>1, <1>2, <1>4 DEF OrderInv, HandlerFits, ReportFits
<1>7. QED
  BY <1>1, <1>3, <1>4, <1>5, <1>6 DEF StepFits, OrderInv

-----------------------------------------------------------------------------
(* The rail.                                                               *)

LEMMA CountOnRailFits ==
    ASSUME SagaInv, NEW o \in Orders, CountOnRail(o)
    PROVE  StepFits(o)
<1>1. /\ wf[o].pc = "confirm"
      /\ UNCHANGED <<orders, trail, payVars, riders, announced, handlers, reports, late>>
      /\ \/ counted' = counted \cup {o} /\ wf' = [wf EXCEPT ![o].begun = TRUE]
         \/ counted' = counted /\ Compensates(o, "kitchen_at_capacity")
  BY DEF CountOnRail, CountRail, aside, At
<1>2. OrderInv(o) /\ SagaTypeOK /\ MoneyKept(o)
  BY <1>1 DEF SagaInv, OrderInv, MoneyFits, MoneyKept
<1>3. Stays(o) \/ GaveUp(o)
  <2>1. CASE wf' = [wf EXCEPT ![o].begun = TRUE]
    BY <1>2, <2>1, BegunFacts
  <2>2. CASE Compensates(o, "kitchen_at_capacity")
    <3>1. "refund" \in Place /\ "kitchen_at_capacity" \in Reason /\ "none" \notin Reason
      BY PlacesSpeltOut DEF Place, Reason
    <3>2. wf' = [wf EXCEPT ![o] = For(@, "refund", "kitchen_at_capacity")]
      BY <2>2 DEF Compensates
    <3>3. GoesTo(o, "refund") /\ wf'[o].reason # "none" /\ wf'[o].decision = wf[o].decision
      BY ZenonT(60), <1>2, <3>1, <3>2, ForGoesFacts
    <3>4. QED
      BY <1>1, <3>3 DEF GaveUp
  <2>3. QED
    BY <1>1, <2>1, <2>2
<1>4. /\ (StageFits(o) /\ MoneyFits(o) /\ AnswerFits(o) /\ ReportsFit(o))'
      /\ (CarrierFits(o) /\ HistoryFits(o))'
      /\ Confirmable(o) => Confirmable(o)'
      /\ \A q \in late : q.order = o => LateFits(q)'
  BY <1>1, <1>2, <1>3, StaysFits, GaveUpFits
<1>5. /\ wf' \in [Orders -> Workflow]
      /\ \A q \in Orders \ {o} : wf'[q] = wf[q]
      /\ wf'[o].pc # "authorize"
  BY <1>1, <1>3 DEF Stays, GaveUp
<1>6. SagaTypeOK' /\ \A p \in Orders \ {o} : Untouched(p)
  BY <1>1, <1>2, <1>5 DEF SagaTypeOK, Untouched
<1>7. Confirmable(o)
  BY <1>1, <1>2 DEF Confirmable, Declined, OrderInv, MoneyFits
<1>8. /\ \A h \in handlers' : h.order = o => HandlerFits(h)'
      /\ \A x \in reports' : x.order = o => ReportFits(x)'
      /\ \A c \in AuthCall : c.order = o => CallFits(c)'
  BY <1>1, <1>2 DEF OrderInv, HandlerFits, ReportFits, CallFits
<1>9. QED
  BY <1>1, <1>4, <1>6, <1>7, <1>8 DEF StepFits, OrderInv

\* The confirming transaction's UPDATE, with its workflow or long after it.
LEMMA ConfirmedFits ==
    ASSUME SagaInv, NEW o \in Orders, ConfirmCounted(o),
           UNCHANGED <<payVars, riders, announced, handlers, reports, late>>,
           \/ wf[o].pc = "confirm" /\ Goes(o, "pub_confirmed")
           \/ wf' = wf
    PROVE  StepFits(o)
<1>1. /\ OrderInv(o) /\ SagaTypeOK /\ OrdersTypeOK /\ MoneyKept(o)
      /\ orders[o].status \in OrderStatus \cup {"absent"} /\ "confirmed" \in OrderStatus
  BY DEF SagaInv, StoresInv, TrailInv, OrderInv, MoneyFits, MoneyKept, OrdersTypeOK, OrderRow,
         OrderStatus
<1>2. /\ counted' = counted \ {o} /\ Confirmable(o)
      /\ CanMove(o, "confirmed") => EntersNow(o, "confirmed", None)
      /\ ~CanMove(o, "confirmed") => orders' = orders /\ trail' = trail
  BY <1>1, ConfirmFacts DEF OrderInv
<1>3. CASE wf[o].pc = "confirm" /\ Goes(o, "pub_confirmed")
  <2>1. GoesTo(o, "pub_confirmed") /\ wf'[o].reason = wf[o].reason
        /\ wf'[o].decision = wf[o].decision
    BY <1>1, <1>3, AnnouncesSpeltOut, GoesFacts DEF Place
  <2>2. /\ orders[o].status \in {"created", "confirmed"}
        /\ CanMove(o, "confirmed") <=> orders[o].status = "created"
        /\ orders'[o].status = "confirmed"
    BY <1>1, <1>2, <1>3, RanksSpeltOut
       DEF OrderInv, StageFits, CanMove, Exists, Terminal, EntersNow, Undone
  <2>3. (StageFits(o) /\ MoneyFits(o))'
    BY <1>1, <1>2, <1>3, <2>1, <2>2 DEF OrderInv, StageFits, MoneyFits
  <2>4. (AnswerFits(o) /\ ReportsFit(o) /\ CarrierFits(o))'
    BY <1>1, <1>2, <1>3, <2>1, <2>2
       DEF OrderInv, AnswerFits, ReportsFit, CarrierFits, Holding, EntersNow
  <2>5. Confirmable(o)'
    BY <1>1, <1>2, <1>3, <2>1 DEF Confirmable, Declined
  <2>6. ASSUME NEW q \in late, q.order = o PROVE LateFits(q)'
    BY <1>1, <1>2, <1>3, <2>1, <2>2, <2>5, <2>6, StepsSpeltOut, RanksSpeltOut
       DEF OrderInv, LateFits, InTurn, Declined, EntersNow
  <2>7. CASE CanMove(o, "confirmed")
    BY <1>1, <1>2, <1>3, <2>1, <2>2, <2>3, <2>4, <2>5, <2>6, <2>7, EnteredStep
       DEF Confirmable, Terminal
  <2>8. CASE ~CanMove(o, "confirmed")
    <3>1. HistoryFits(o)'
      BY <1>1, <1>2, <2>8 DEF OrderInv, HistoryFits, HasEntered
    <3>2. SagaTypeOK' /\ \A p \in Orders \ {o} : Untouched(p)
      BY <1>1, <1>2, <2>1, <2>8 DEF SagaTypeOK, Untouched
    <3>3. /\ \A h \in handlers' : h.order = o => HandlerFits(h)'
          /\ \A x \in reports' : x.order = o => ReportFits(x)'
          /\ \A c \in AuthCall : c.order = o => CallFits(c)'
      BY <1>1, <1>2, <2>8 DEF OrderInv, HandlerFits, ReportFits, CallFits
    <3>4. QED
      BY <1>2, <2>3, <2>4, <2>6, <3>1, <3>2, <3>3 DEF StepFits, OrderInv
  <2>9. QED
    BY <2>7, <2>8
<1>4. CASE wf' = wf
  <2>1. CASE CanMove(o, "confirmed")
    <3>1. /\ orders[o].status = "created" /\ orders'[o].status = "confirmed"
          /\ wf[o].pc \notin (Forward \ {"confirm"}) \cup Before \cup Paying \cup Declining
      BY <1>1, <1>2, <1>4, <2>1, RanksSpeltOut
         DEF OrderInv, StageFits, Confirmable, Declined, CanMove, Exists, Terminal, EntersNow,
             OrderStatus, Undone
    <3>2. (StageFits(o) /\ MoneyFits(o))'
      BY <1>1, <1>2, <1>4, <3>1 DEF OrderInv, StageFits, MoneyFits, Undone, Terminal, Confirmable
    <3>3. (AnswerFits(o) /\ ReportsFit(o) /\ CarrierFits(o))'
      BY <1>1, <1>2, <1>4, <2>1, <3>1
         DEF OrderInv, AnswerFits, ReportsFit, CarrierFits, Holding, EntersNow
    <3>4. Confirmable(o)'
      BY <1>1, <1>2, <1>4, <3>1 DEF Confirmable, Declined
    <3>5. ASSUME NEW q \in late, q.order = o PROVE LateFits(q)'
      BY <1>1, <1>2, <1>4, <2>1, <3>1, <3>4, <3>5, StepsSpeltOut, RanksSpeltOut
         DEF OrderInv, LateFits, InTurn, Declined, EntersNow, Confirmable
    <3>6. QED
      BY <1>1, <1>2, <1>4, <2>1, <3>1, <3>2, <3>3, <3>4, <3>5, EnteredStep
         DEF Confirmable, Terminal, SagaTypeOK
  <2>2. CASE ~CanMove(o, "confirmed")
    <3>1. Stays(o)
      BY <1>1, <1>4, UnmovedStays
    <3>2. /\ (StageFits(o) /\ MoneyFits(o) /\ AnswerFits(o) /\ ReportsFit(o))'
          /\ (CarrierFits(o) /\ HistoryFits(o))'
          /\ Confirmable(o) => Confirmable(o)'
          /\ \A q \in late : q.order = o => LateFits(q)'
      BY <1>1, <1>2, <2>2, <3>1, StaysFits
    <3>3. SagaTypeOK' /\ \A p \in Orders \ {o} : Untouched(p)
      BY <1>1, <1>2, <1>4, <2>2 DEF SagaTypeOK, Untouched
    <3>4. /\ \A h \in handlers' : h.order = o => HandlerFits(h)'
          /\ \A x \in reports' : x.order = o => ReportFits(x)'
          /\ \A c \in AuthCall : c.order = o => CallFits(c)'
      BY <1>1, <1>2, <2>2 DEF OrderInv, HandlerFits, ReportFits, CallFits
    <3>5. QED
      BY <1>2, <3>2, <3>3, <3>4 DEF StepFits, OrderInv
  <2>3. QED
    BY <2>1, <2>2
<1>5. QED
  BY <1>3, <1>4

LEMMA JoinRailFits ==
    ASSUME SagaInv, NEW o \in Orders, JoinRail(o)
    PROVE  StepFits(o)
  BY ConfirmedFits DEF JoinRail, aside, At

-----------------------------------------------------------------------------
(* The workflow's answers, timers and signals.                             *)

\* One workflow moves on, and nothing else happens but an announcement.
LEMMA MovesOnFits ==
    ASSUME SagaInv, NEW o \in Orders,
           UNCHANGED <<orderVars, payVars, riders, handlers, reports, late>>,
           GoesTo(o, wf'[o].pc),
           announced' \in [Orders -> SUBSET Event],
           \A q \in Orders \ {o} : announced'[q] = announced[q],
           (StageFits(o) /\ MoneyFits(o) /\ AnswerFits(o) /\ ReportsFit(o))',
           (CarrierFits(o) /\ HistoryFits(o))',
           Confirmable(o) => Confirmable(o)',
           \A q \in late : q.order = o => LateFits(q)'
    PROVE  StepFits(o)
<1>1. wf'[o].pc = "authorize" => wf'[o].attempt <= AuthAttempts
  BY AttemptsAssumption
<1>2. QED
  BY <1>1, WorkflowStep

LEMMA AuthorizeAnsweredFits ==
    ASSUME SagaInv, NEW o \in Orders, AuthorizeAnswered(o)
    PROVE  StepFits(o)
<1> DEFINE c == CurrentAuth(o)
<1>1. /\ UNCHANGED <<orderVars, payVars, riders, handlers, reports, late>>
      /\ wf[o].pc = "authorize"
      /\ \/ /\ auth[c] \in {"marked", "replayed_authorized"} /\ Goes(o, "confirm")
            /\ announced' = [announced EXCEPT ![o] = @ \cup {"payment.authorized"}]
         \/ Goes(o, "cancel_unpaid") /\ announced' = announced
         \/ AttemptFails(o) /\ announced' = announced
  BY DEF AuthorizeAnswered, aside, At
<1>2. OrderInv(o) /\ SagaTypeOK /\ c \in AuthCall /\ c.order = o
  BY <1>1 DEF SagaInv, SagaTypeOK, CurrentAuth, AuthCall, KeyKind, Workflow
<1>3. auth[c] \in {"marked", "replayed_authorized"} => PaidFor(o)
  BY <1>2 DEF OrderInv, CallFits
<1> HIDE DEF c
<1>4. "confirm" \in Place /\ "cancel_unpaid" \in Place
  BY PlacesSpeltOut DEF Place
<1>5. CASE AttemptFails(o) /\ announced' = announced
  <2>1. MoneyKept(o) /\ wf[o].pc \in Activities
    BY <1>1, <1>2, PlacesSpeltOut DEF OrderInv, MoneyFits, MoneyKept
  <2>2. /\ wf' \in [Orders -> Workflow]
        /\ \A q \in Orders \ {o} : wf'[q] = wf[q]
        /\ wf'[o].pc = "authorize" => wf'[o].attempt <= AuthAttempts
        /\ (StageFits(o) /\ MoneyFits(o) /\ AnswerFits(o) /\ ReportsFit(o))'
        /\ (CarrierFits(o) /\ HistoryFits(o))'
        /\ Confirmable(o) => Confirmable(o)'
        /\ \A q \in late : q.order = o => LateFits(q)'
    BY <1>1, <1>5, <2>1, FailsFits
  <2>3. QED
    BY <1>1, <1>2, <1>5, <2>2, WorkflowStep DEF SagaTypeOK
<1>6. ASSUME NEW p \in {"confirm", "cancel_unpaid"}, Goes(o, p),
             \/ /\ p = "confirm" /\ PaidFor(o)
                /\ announced' = [announced EXCEPT ![o] = @ \cup {"payment.authorized"}]
             \/ p = "cancel_unpaid" /\ announced' = announced
      PROVE  StepFits(o)
  <2>1. GoesTo(o, p) /\ wf'[o].reason = wf[o].reason /\ wf'[o].decision = wf[o].decision
    BY <1>2, <1>4, <1>6, GoesFacts
  <2>2. /\ announced' \in [Orders -> SUBSET Event]
        /\ \A q \in Orders \ {o} : announced'[q] = announced[q]
        /\ announced'[o] \subseteq announced[o] \cup {"payment.authorized"}
        /\ announced'[o] # announced[o] => PaidFor(o)
    BY <1>2, <1>6 DEF SagaTypeOK, Event
  <2>3. (StageFits(o) /\ MoneyFits(o) /\ AnswerFits(o) /\ ReportsFit(o))'
    BY <1>1, <1>2, <1>6, <2>1 DEF OrderInv, StageFits, MoneyFits, AnswerFits, ReportsFit
  <2>4. CarrierFits(o)'
    BY <1>1, <1>2, <1>6, <2>1 DEF OrderInv, CarrierFits, Holding
  <2>5. HistoryFits(o)'
    BY <1>1, <1>2, <2>2 DEF OrderInv, HistoryFits, HasEntered, OrderStatus, Undone
  <2>6. Confirmable(o) => Confirmable(o)'
    BY <1>1 DEF Confirmable
  <2>7. \A q \in late : q.order = o => LateFits(q)'
    BY <1>1, <1>2, <1>6, <2>1, <2>6 DEF OrderInv, LateFits, InTurn, Declined
  <2>8. QED
    BY <1>1, <2>1, <2>2, <2>3, <2>4, <2>5, <2>6, <2>7, MovesOnFits
<1>7. QED
  BY <1>1, <1>3, <1>5, <1>6

LEMMA DecidedFacts ==
    ASSUME SagaTypeOK, NEW o \in Orders, NEW d \in Decision \cup {"none"},
           wf' = [wf EXCEPT ![o] = Decided(wf[o], d)]
    PROVE  /\ GoesTo(o, wf'[o].pc) /\ wf'[o].decision = d
           /\ \/ d = "accepted" /\ wf'[o].pc = "dispatch" /\ wf'[o].reason = wf[o].reason
              \/ wf'[o].pc = "refund" /\ wf'[o].reason # "none"
<1> DEFINE t == CASE d = "accepted" -> To(wf[o], "dispatch")
                  [] d = "rejected" -> For(wf[o], "refund", "kitchen_rejected")
                  [] d = "none"     -> For(wf[o], "refund", "kitchen_timeout")
<1>1. wf[o] \in Workflow /\ wf \in [Orders -> Workflow]
  BY DEF SagaTypeOK
<1>2. /\ {"dispatch", "refund"} \subseteq Place
      /\ {"kitchen_rejected", "kitchen_timeout"} \subseteq Reason /\ "none" \notin Reason
  BY PlacesSpeltOut DEF Place, Reason
<1>3. \/ d = "accepted" /\ t = To(wf[o], "dispatch")
      \/ d = "rejected" /\ t = For(wf[o], "refund", "kitchen_rejected")
      \/ d = "none" /\ t = For(wf[o], "refund", "kitchen_timeout")
  BY DEF Decision
<1> HIDE DEF t
<1>4. /\ t \in Workflow /\ t.attempt = 1 /\ t.rider = wf[o].rider
      /\ t.picked_up = wf[o].picked_up /\ t.delivered = wf[o].delivered
      /\ \/ d = "accepted" /\ t.pc = "dispatch" /\ t.reason = wf[o].reason
         \/ t.pc = "refund" /\ t.reason # "none"
  <2>1. CASE t = To(wf[o], "dispatch") /\ d = "accepted"
    BY <1>1, <1>2, <2>1, ToFacts
  <2>2. ASSUME NEW why \in {"kitchen_rejected", "kitchen_timeout"},
               t = For(wf[o], "refund", why)
        PROVE  /\ t \in Workflow /\ t.attempt = 1 /\ t.rider = wf[o].rider
               /\ t.picked_up = wf[o].picked_up /\ t.delivered = wf[o].delivered
               /\ t.pc = "refund" /\ t.reason # "none"
    BY <1>1, <1>2, <2>2, ForFacts
  <2>3. QED
    BY <1>3, <2>1, <2>2
<1>5. wf' = [wf EXCEPT ![o] = [t EXCEPT !.decision = d]]
  BY DEF Decided, t
<1>6. [t EXCEPT !.decision = d] \in Workflow
  BY <1>4 DEF Workflow
<1>7. QED
  BY <1>1, <1>4, <1>5, <1>6 DEF Workflow

\* The kitchen's answer, or the lack of one, is acted on as the row has it.
LEMMA DecidedFits ==
    ASSUME SagaInv, NEW o \in Orders,
           UNCHANGED <<orderVars, payVars, riders, announced, handlers, reports, late>>,
           wf[o].pc \in {"await_kitchen", "read_decision"},
           wf' = [wf EXCEPT ![o] = Decided(wf[o], orders[o].decision)]
    PROVE  StepFits(o)
<1>1. OrderInv(o) /\ SagaTypeOK /\ orders[o].decision \in Decision \cup {"none"}
  BY DEF SagaInv, StoresInv, TrailInv, OrdersTypeOK, OrderRow
<1>2. /\ GoesTo(o, wf'[o].pc) /\ wf'[o].decision = orders[o].decision
      /\ \/ /\ orders[o].decision = "accepted" /\ wf'[o].pc = "dispatch"
            /\ wf'[o].reason = wf[o].reason
         \/ wf'[o].pc = "refund" /\ wf'[o].reason # "none"
  BY <1>1, DecidedFacts
<1>3. (StageFits(o) /\ MoneyFits(o) /\ AnswerFits(o) /\ ReportsFit(o))'
  BY <1>1, <1>2 DEF OrderInv, StageFits, MoneyFits, AnswerFits, ReportsFit
<1>4. (CarrierFits(o) /\ HistoryFits(o))'
  BY <1>1, <1>2 DEF OrderInv, CarrierFits, HistoryFits, HasEntered, Holding
<1>5. Confirmable(o) => Confirmable(o)'
  BY <1>1, <1>2 DEF Confirmable, Declined
<1>6. \A q \in late : q.order = o => LateFits(q)'
  BY <1>1, <1>2, <1>5 DEF OrderInv, StageFits, LateFits, InTurn, Declined
<1>7. QED
  BY <1>1, <1>2, <1>3, <1>4, <1>5, <1>6, MovesOnFits DEF SagaTypeOK

LEMMA KitchenAnsweredFits ==
    ASSUME SagaInv, NEW o \in Orders, KitchenAnswered(o) \/ ReadDecision(o)
    PROVE  StepFits(o)
<1>1. UNCHANGED <<orderVars, payVars, riders, announced, handlers, reports, late>>
  BY DEF KitchenAnswered, ReadDecision, aside
<1>2. CASE KitchenAnswered(o)
  <2>1. wf[o].pc = "await_kitchen" /\ wf[o].decision = orders[o].decision
        /\ wf' = [wf EXCEPT ![o] = Decided(wf[o], wf[o].decision)]
    BY <1>2 DEF KitchenAnswered, At, SagaInv, OrderInv, AnswerFits
  <2>2. QED
    BY <1>1, <2>1, DecidedFits
<1>3. CASE ReadDecision(o)
  BY <1>1, <1>3, DecidedFits DEF ReadDecision, At
<1>4. QED
  BY <1>2, <1>3

\* The workflow's timers, and the signals it waits for.
LEMMA TimerFits ==
    ASSUME SagaInv, NEW o \in Orders,
           KitchenTimer(o) \/ RiderSignalled(o) \/ DeliveryTimer(o)
    PROVE  StepFits(o)
<1> DEFINE s == wf[o].pc
<1>1. /\ UNCHANGED <<orderVars, payVars, riders, announced, handlers, reports, late>>
      /\ \/ s = "await_kitchen" /\ Goes(o, "read_decision")
         \/ s = "await_pickup" /\ wf[o].picked_up /\ Goes(o, "mark_picked_up")
         \/ s = "await_delivery" /\ wf[o].delivered /\ Goes(o, "mark_delivered")
         \/ s = "await_pickup" /\ Goes(o, "read_pickup")
         \/ s = "await_delivery" /\ Goes(o, "read_delivery")
  BY DEF KitchenTimer, RiderSignalled, DeliveryTimer, aside, At
<1>2. OrderInv(o) /\ SagaTypeOK
  BY DEF SagaInv
<1>3. ASSUME NEW p \in {"read_decision", "mark_picked_up", "mark_delivered", "read_pickup",
                        "read_delivery"}, Goes(o, p)
      PROVE  GoesTo(o, p) /\ wf'[o].reason = wf[o].reason /\ wf'[o].decision = wf[o].decision
  BY <1>2, <1>3, PlacesSpeltOut, GoesFacts DEF Place
<1>4. /\ GoesTo(o, wf'[o].pc) /\ wf'[o].reason = wf[o].reason /\ wf'[o].decision = wf[o].decision
      /\ \/ s = "await_kitchen" /\ wf'[o].pc = "read_decision"
         \/ s = "await_pickup" /\ wf[o].picked_up /\ wf'[o].pc = "mark_picked_up"
         \/ s = "await_delivery" /\ wf[o].delivered /\ wf'[o].pc = "mark_delivered"
         \/ s = "await_pickup" /\ wf'[o].pc = "read_pickup"
         \/ s = "await_delivery" /\ wf'[o].pc = "read_delivery"
  BY <1>1, <1>3
<1>5. (StageFits(o) /\ MoneyFits(o) /\ AnswerFits(o) /\ ReportsFit(o))'
  BY <1>1, <1>2, <1>4 DEF OrderInv, StageFits, MoneyFits, AnswerFits, ReportsFit
<1>6. (CarrierFits(o) /\ HistoryFits(o))'
  BY <1>1, <1>2, <1>4 DEF OrderInv, CarrierFits, HistoryFits, HasEntered, Holding
<1>7. Confirmable(o) => Confirmable(o)'
  BY <1>1, <1>2, <1>4 DEF Confirmable, Declined
<1>8. \A q \in late : q.order = o => LateFits(q)'
  BY <1>1, <1>2, <1>4, <1>7 DEF OrderInv, StageFits, LateFits, InTurn, Declined
<1>9. QED
  BY <1>1, <1>2, <1>4, <1>5, <1>6, <1>7, <1>8, MovesOnFits DEF SagaTypeOK

-----------------------------------------------------------------------------
(* The rider.                                                              *)

LEMMA ReportedFacts ==
    ASSUME NEW w \in Workflow, NEW g \in ReportStage
    PROVE  LET v == Reported(w, g)
           IN  /\ v \in Workflow
               /\ v.pc = w.pc /\ v.attempt = w.attempt /\ v.rider = w.rider
               /\ v.decision = w.decision /\ v.reason = w.reason
               /\ v.picked_up = TRUE
               /\ v.delivered => w.delivered \/ g = "delivered"
<1> DEFINE u == [w EXCEPT !.picked_up = TRUE]
           b == w.delivered \/ g = "delivered"
<1>1. /\ u \in Workflow /\ u.picked_up = TRUE
      /\ u.pc = w.pc /\ u.attempt = w.attempt /\ u.rider = w.rider
      /\ u.decision = w.decision /\ u.reason = w.reason
  BY TRUE \in BOOLEAN DEF Workflow
<1>2. b \in BOOLEAN
  OBVIOUS
<1>3. Reported(w, g) = [u EXCEPT !.delivered = b]
  BY DEF Reported
<1> HIDE DEF u
<1>4. QED
  BY <1>1, <1>2, <1>3 DEF Workflow

LEMMA ReadReportFits ==
    ASSUME SagaInv, NEW o \in Orders, ReadReport(o)
    PROVE  StepFits(o)
<1> DEFINE s == wf[o].pc
           g == orders[o].reported
           late_pickup == g = "none" \/ (s = "read_delivery" /\ g = "picked_up")
           why == IF s = "read_pickup" THEN "pickup_timeout" ELSE "delivery_timeout"
           p == IF s = "read_pickup" THEN "mark_picked_up" ELSE "mark_delivered"
<1>1. /\ UNCHANGED <<orderVars, payVars, riders, announced, handlers, reports, late>>
      /\ s \in {"read_pickup", "read_delivery"}
      /\ wf' = [wf EXCEPT ![o] = IF late_pickup THEN For(wf[o], "release_failed", why)
                                                ELSE To(Reported(wf[o], g), p)]
  BY DEF ReadReport, aside
<1>2. /\ OrderInv(o) /\ SagaTypeOK /\ g \in ReportStage \cup {"none"} /\ MoneyKept(o)
      /\ wf[o] \in Workflow /\ wf \in [Orders -> Workflow]
  BY <1>1 DEF SagaInv, StoresInv, TrailInv, OrdersTypeOK, OrderRow, SagaTypeOK, OrderInv, MoneyFits,
              MoneyKept
<1>3. CASE late_pickup
  <2>1. wf' = [wf EXCEPT ![o] = For(@, "release_failed", why)]
    BY <1>1, <1>3
  <2>2. why \in {"pickup_timeout", "delivery_timeout"} /\ "release_failed" \in Place
    BY PlacesSpeltOut DEF Place
  <2> HIDE DEF why
  <2>3. ASSUME NEW y \in {"pickup_timeout", "delivery_timeout"}, y = why
        PROVE  /\ GoesTo(o, "release_failed") /\ wf'[o].reason # "none"
               /\ wf'[o].decision = wf[o].decision
    BY <1>2, <2>1, <2>2, <2>3, ForGoesFacts DEF Reason
  <2>4. GaveUp(o)
    BY <1>1, <2>2, <2>3 DEF GaveUp
  <2>5. /\ (StageFits(o) /\ MoneyFits(o) /\ AnswerFits(o) /\ ReportsFit(o))'
        /\ (CarrierFits(o) /\ HistoryFits(o))'
        /\ Confirmable(o) => Confirmable(o)'
        /\ \A q \in late : q.order = o => LateFits(q)'
    BY <1>1, <1>2, <2>4, GaveUpFits
  <2>6. QED
    BY <1>1, <1>2, <2>4, <2>5, WorkflowStep DEF SagaTypeOK, GaveUp
<1>4. CASE ~late_pickup
  <2> DEFINE v == Reported(wf[o], g)
  <2>1. g \in ReportStage /\ (s = "read_delivery" => g = "delivered") /\ p \in Place
    BY <1>2, <1>4, PlacesSpeltOut DEF ReportStage, Place
  <2>2. wf' = [wf EXCEPT ![o] = To(v, p)]
    BY <1>1, <1>4
  <2>3. /\ v \in Workflow
        /\ v.rider = wf[o].rider /\ v.decision = wf[o].decision /\ v.reason = wf[o].reason
        /\ v.picked_up = TRUE
        /\ v.delivered => wf[o].delivered \/ g = "delivered"
    BY ZenonT(60), <1>2, <2>1, ReportedFacts
  <2> HIDE DEF v
  <2>4. /\ wf' \in [Orders -> Workflow] /\ \A q \in Orders \ {o} : wf'[q] = wf[q]
        /\ wf'[o].pc = p /\ wf'[o].rider = wf[o].rider
        /\ wf'[o].decision = wf[o].decision /\ wf'[o].reason = wf[o].reason
        /\ wf'[o].delivered => wf[o].delivered \/ g = "delivered"
    BY ZenonT(60), <1>2, <2>1, <2>2, <2>3, ToFacts
  <2>5. (StageFits(o) /\ MoneyFits(o) /\ AnswerFits(o) /\ ReportsFit(o))'
    BY <1>1, <1>2, <2>1, <2>4
       DEF OrderInv, StageFits, MoneyFits, AnswerFits, ReportsFit, ReportStage
  <2>6. (CarrierFits(o) /\ HistoryFits(o))'
    BY <1>1, <1>2, <2>4 DEF OrderInv, CarrierFits, HistoryFits, HasEntered, Holding
  <2>7. Confirmable(o) => Confirmable(o)'
    BY <1>1, <1>2, <2>4 DEF Confirmable, Declined
  <2>8. \A q \in late : q.order = o => LateFits(q)'
    BY <1>1, <1>2, <2>4, <2>7 DEF OrderInv, StageFits, LateFits, InTurn, Declined
  <2>9. wf'[o].pc # "authorize"
    BY <2>4
  <2>10. QED
    BY <1>1, <1>2, <2>4, <2>5, <2>6, <2>7, <2>8, <2>9, WorkflowStep DEF SagaTypeOK
<1>5. QED
  BY <1>3, <1>4

\* A step that moves the workflow and the fleet.
LEMMA FleetStepFits ==
    ASSUME SagaInv, NEW o \in Orders,
           UNCHANGED <<orderVars, payVars, announced, handlers, reports, late>>,
           wf' \in [Orders -> Workflow],
           \A q \in Orders \ {o} : wf'[q] = wf[q],
           wf'[o].pc # "authorize",
           \A p \in Orders \ {o} : \A r \in Riders : riders'[r].order = p <=> riders[r].order = p,
           (StageFits(o) /\ MoneyFits(o) /\ AnswerFits(o) /\ ReportsFit(o))',
           CarrierFits(o)',
           Confirmable(o) => Confirmable(o)',
           \A q \in late : q.order = o => LateFits(q)'
    PROVE  StepFits(o)
<1>1. OrderInv(o) /\ SagaTypeOK
  BY DEF SagaInv
<1>2. SagaTypeOK' /\ \A p \in Orders \ {o} : Untouched(p)
  BY <1>1 DEF SagaTypeOK, Untouched
<1>3. HistoryFits(o)'
  BY <1>1 DEF OrderInv, HistoryFits, HasEntered
<1>4. /\ o \in counted' => Confirmable(o)'
      /\ \A h \in handlers' : h.order = o => HandlerFits(h)'
      /\ \A x \in reports' : x.order = o => ReportFits(x)'
      /\ \A c \in AuthCall : c.order = o => CallFits(c)'
  BY <1>1 DEF OrderInv, HandlerFits, ReportFits, CallFits
<1>5. QED
  BY <1>2, <1>3, <1>4 DEF StepFits, OrderInv

LEMMA ReleaseFacts ==
    ASSUME NEW o \in Orders, Release(o), FleetTypeOK
    PROVE  /\ \A p \in Orders \ {o} : \A r \in Riders : riders'[r].order = p <=> riders[r].order = p
           /\ \A r \in Riders : riders'[r].order # o
  BY NoneAssumption DEF Release, FleetTypeOK, FleetRow

LEMMA ClaimFacts ==
    ASSUME NEW o \in Orders, NEW r \in Riders, Claim(o, r), FleetTypeOK
    PROVE  /\ \A p \in Orders \ {o} : \A x \in Riders : riders'[x].order = p <=> riders[x].order = p
           /\ riders'[r].order = o
  BY NoneAssumption DEF Claim, Free, FleetTypeOK, FleetRow

LEMMA SearchedFacts ==
    ASSUME SagaTypeOK, NEW o \in Orders, wf[o].pc = "dispatch",
           wf' = [wf EXCEPT ![o] = Searched(wf[o])]
    PROVE  Stays(o) \/ GaveUp(o)
<1> DEFINE w == wf[o]
           t == IF w.searches + 1 < SearchAttempts
                  THEN To(w, "dispatch") ELSE For(w, "refund", "no_rider_available")
<1>1. w \in Workflow /\ wf \in [Orders -> Workflow]
  BY DEF SagaTypeOK
<1>2. /\ {"dispatch", "refund"} \subseteq Place
      /\ "no_rider_available" \in Reason /\ "none" \notin Reason
  BY PlacesSpeltOut DEF Place, Reason
<1>3. \/ t = To(w, "dispatch")
      \/ t = For(w, "refund", "no_rider_available")
  OBVIOUS
<1>4. wf' = [wf EXCEPT ![o] = [t EXCEPT !.searches = @ + 1]]
  BY DEF Searched
<1> HIDE DEF t
<1>5. /\ t \in Workflow /\ t.attempt = 1 /\ t.rider = w.rider /\ t.decision = w.decision
      /\ t.picked_up = w.picked_up /\ t.delivered = w.delivered
      /\ \/ t.pc = "dispatch" /\ t.reason = w.reason
         \/ t.pc = "refund" /\ t.reason # "none"
  <2>1. CASE t = To(w, "dispatch")
    BY <1>1, <1>2, <2>1, ToFacts
  <2>2. CASE t = For(w, "refund", "no_rider_available")
    BY <1>1, <1>2, <2>2, ForFacts
  <2>3. QED
    BY <1>3, <2>1, <2>2
<1>6. t.searches + 1 \in Nat
  BY <1>5 DEF Workflow
<1>7. [t EXCEPT !.searches = @ + 1] \in Workflow
  BY <1>5, <1>6 DEF Workflow
<1>8. /\ wf' \in [Orders -> Workflow] /\ \A q \in Orders \ {o} : wf'[q] = wf[q]
      /\ wf'[o].attempt = 1 /\ wf'[o].rider = w.rider /\ wf'[o].decision = w.decision
      /\ wf'[o].picked_up = w.picked_up /\ wf'[o].delivered = w.delivered
      /\ \/ wf'[o].pc = "dispatch" /\ wf'[o].reason = w.reason
         \/ wf'[o].pc = "refund" /\ wf'[o].reason # "none"
  BY <1>1, <1>4, <1>5, <1>7 DEF Workflow
<1>9. QED
  BY <1>8 DEF Stays, GaveUp

LEMMA DispatchRiderFits ==
    ASSUME SagaInv, NEW o \in Orders, DispatchRider(o)
    PROVE  StepFits(o)
<1>1. /\ UNCHANGED <<orderVars, payVars, announced, handlers, reports, late>>
      /\ wf[o].pc = "dispatch"
      /\ \/ \E r \in Riders : /\ \/ r \in Holding(o) /\ UNCHANGED riders
                                 \/ Claim(o, r)
                              /\ wf' = [wf EXCEPT ![o] = [To(@, "assign") EXCEPT !.rider = r]]
         \/ wf' = [wf EXCEPT ![o] = Searched(wf[o])] /\ UNCHANGED riders
  BY DEF DispatchRider, aside, At
<1>2. /\ OrderInv(o) /\ SagaTypeOK /\ FleetTypeOK /\ MoneyKept(o)
      /\ wf[o] \in Workflow /\ wf \in [Orders -> Workflow]
  BY <1>1 DEF SagaInv, StoresInv, SagaTypeOK, OrderInv, MoneyFits, MoneyKept
<1>3. CASE wf' = [wf EXCEPT ![o] = Searched(wf[o])] /\ UNCHANGED riders
  <2>1. Stays(o) \/ GaveUp(o)
    BY <1>1, <1>2, <1>3, SearchedFacts
  <2>2. /\ (StageFits(o) /\ MoneyFits(o) /\ AnswerFits(o) /\ ReportsFit(o))'
        /\ (CarrierFits(o) /\ HistoryFits(o))'
        /\ Confirmable(o) => Confirmable(o)'
        /\ \A q \in late : q.order = o => LateFits(q)'
    BY <1>1, <1>2, <1>3, <2>1, StaysFits, GaveUpFits
  <2>3. /\ wf' \in [Orders -> Workflow] /\ \A q \in Orders \ {o} : wf'[q] = wf[q]
        /\ wf'[o].pc # "authorize"
    BY <1>1, <2>1 DEF Stays, GaveUp
  <2>4. QED
    BY <1>1, <1>2, <1>3, <2>2, <2>3, WorkflowStep DEF SagaTypeOK
<1>4. ASSUME NEW r \in Riders, (r \in Holding(o) /\ UNCHANGED riders) \/ Claim(o, r),
             wf' = [wf EXCEPT ![o] = [To(@, "assign") EXCEPT !.rider = r]]
      PROVE  StepFits(o)
  <2>1. /\ riders'[r].order = o /\ r # None
        /\ \A p \in Orders \ {o} : \A x \in Riders : riders'[x].order = p <=> riders[x].order = p
    BY <1>2, <1>4, ClaimFacts, NoneAssumption DEF Holding
  <2> DEFINE t == To(wf[o], "assign")
  <2>2. /\ t \in Workflow /\ t.pc = "assign" /\ t.decision = wf[o].decision
        /\ t.reason = wf[o].reason
        /\ t.picked_up = wf[o].picked_up /\ t.delivered = wf[o].delivered
    BY ZenonT(60), <1>2, PlacesSpeltOut, ToFacts DEF Place
  <2>3. wf' = [wf EXCEPT ![o] = [t EXCEPT !.rider = r]]
    BY <1>4
  <2> HIDE DEF t
  <2>4. [t EXCEPT !.rider = r] \in Workflow
    BY <2>2 DEF Workflow
  <2>5. /\ wf' \in [Orders -> Workflow] /\ \A q \in Orders \ {o} : wf'[q] = wf[q]
        /\ wf'[o].pc = "assign" /\ wf'[o].rider = r
        /\ wf'[o].decision = wf[o].decision /\ wf'[o].reason = wf[o].reason
        /\ wf'[o].picked_up = wf[o].picked_up /\ wf'[o].delivered = wf[o].delivered
    BY <1>2, <2>2, <2>3, <2>4 DEF Workflow
  <2>6. (StageFits(o) /\ MoneyFits(o) /\ AnswerFits(o) /\ ReportsFit(o))'
    BY <1>1, <1>2, <2>5 DEF OrderInv, StageFits, MoneyFits, AnswerFits, ReportsFit
  <2>7. CarrierFits(o)'
    BY <1>1, <1>2, <2>1, <2>5 DEF OrderInv, StageFits, CarrierFits
  <2>8. Confirmable(o) => Confirmable(o)'
    BY <1>1, <1>2, <2>5 DEF Confirmable, Declined
  <2>9. \A q \in late : q.order = o => LateFits(q)'
    BY <1>1, <1>2, <2>1, <2>5, <2>8 DEF OrderInv, StageFits, LateFits, InTurn, Declined
  <2>10. QED
    BY <1>1, <2>1, <2>5, <2>6, <2>7, <2>8, <2>9, FleetStepFits
<1>5. QED
  BY <1>1, <1>3, <1>4

LEMMA ReleaseRiderFits ==
    ASSUME SagaInv, NEW o \in Orders, ReleaseRider(o)
    PROVE  StepFits(o)
<1> DEFINE p == IF wf[o].pc = "release_delivered" THEN "finished" ELSE "refund"
<1>1. /\ UNCHANGED <<orderVars, payVars, announced, handlers, reports, late>>
      /\ wf[o].pc \in {"release_delivered", "release_failed"}
      /\ Release(o) /\ Goes(o, p)
  BY DEF ReleaseRider, aside, At
<1>2. OrderInv(o) /\ SagaTypeOK /\ FleetTypeOK
  BY DEF SagaInv, StoresInv
<1>3. /\ GoesTo(o, p) /\ wf'[o].reason = wf[o].reason /\ wf'[o].decision = wf[o].decision
      /\ p # "authorize"
  BY <1>1, <1>2, PlacesSpeltOut, GoesFacts DEF Place, Ends
<1>4. (StageFits(o) /\ MoneyFits(o) /\ AnswerFits(o) /\ ReportsFit(o))'
  BY <1>1, <1>2, <1>3 DEF OrderInv, StageFits, MoneyFits, AnswerFits, ReportsFit, Terminal
<1>5. /\ CarrierFits(o)'
      /\ \A q \in Orders \ {o} : \A r \in Riders : riders'[r].order = q <=> riders[r].order = q
  BY <1>1, <1>2, <1>3, ReleaseFacts DEF CarrierFits, Holding
<1>6. Confirmable(o) => Confirmable(o)'
  BY <1>1, <1>2, <1>3 DEF Confirmable, Declined
<1>7. \A q \in late : q.order = o => LateFits(q)'
  BY <1>1, <1>2, <1>3, <1>6 DEF OrderInv, StageFits, LateFits, InTurn, Declined
<1>8. QED
  BY <1>1, <1>3, <1>4, <1>5, <1>6, <1>7, FleetStepFits

-----------------------------------------------------------------------------
(* Handlers, reports, and requests nobody waits for.                       *)

\* A step beside the workflow that only adds or removes something under way.
LEMMA BesideFits ==
    ASSUME SagaInv, NEW o \in Orders,
           UNCHANGED <<orderVars, payVars, riders, announced, wf>>,
           handlers' \subseteq Handler /\ reports' \subseteq Report /\ late' \subseteq Request,
           \A h \in handlers' : h \in handlers \/ (h.order = o /\ HandlerFits(h)'),
           \A x \in reports' : x \in reports \/ (x.order = o /\ ReportFits(x)'),
           \A q \in late' : q \in late \/ (q.order = o /\ LateFits(q)')
    PROVE  StepFits(o)
<1>1. OrderInv(o) /\ SagaTypeOK /\ MoneyKept(o) /\ Stays(o)
  BY UnmovedStays DEF SagaInv, OrderInv, MoneyFits, MoneyKept
<1>2. SagaTypeOK' /\ \A p \in Orders \ {o} : Untouched(p)
  BY <1>1 DEF SagaTypeOK, Untouched
<1>3. /\ (StageFits(o) /\ MoneyFits(o) /\ AnswerFits(o) /\ ReportsFit(o))'
      /\ (CarrierFits(o) /\ HistoryFits(o))'
      /\ Confirmable(o) => Confirmable(o)'
      /\ \A q \in late : q.order = o => LateFits(q)'
  BY <1>1, StaysFits
<1>4. /\ o \in counted' => Confirmable(o)'
      /\ \A q \in late' : q.order = o => LateFits(q)'
      /\ \A h \in handlers' : h.order = o => HandlerFits(h)'
      /\ \A x \in reports' : x.order = o => ReportFits(x)'
      /\ \A c \in AuthCall : c.order = o => CallFits(c)'
  BY <1>1, <1>3 DEF OrderInv, HandlerFits, ReportFits, CallFits
<1>5. QED
  BY <1>2, <1>3, <1>4 DEF StepFits, OrderInv

LEMMA KitchenClicksFits ==
    ASSUME SagaInv, NEW o \in Orders, NEW d \in Decision, KitchenClicks(o, d)
    PROVE  StepFits(o)
<1> DEFINE h == [order |-> o, decision |-> d, step |-> "deciding"]
<1>1. /\ UNCHANGED <<orderVars, payVars, riders, announced, wf, reports, late>>
      /\ orders[o].status # "absent" /\ handlers' = handlers \cup {h}
  BY DEF KitchenClicks, Exists
<1>2. h \in Handler /\ h.order = o /\ h.step = "deciding"
  BY DEF Handler
<1>3. ASSUME NEW g, g = h PROVE HandlerFits(g)'
  BY <1>1, <1>2, <1>3 DEF HandlerFits
<1> HIDE DEF h
<1>4. QED
  BY <1>1, <1>2, <1>3, BesideFits DEF SagaInv, SagaTypeOK

LEMMA LoseDecisionFits ==
    ASSUME SagaInv, NEW h \in handlers, LoseDecision(h)
    PROVE  h.order \in Orders /\ StepFits(h.order)
<1> DEFINE q == [order |-> h.order, step |-> h.decision]
<1>1. /\ UNCHANGED <<orderVars, payVars, riders, announced, wf, reports>>
      /\ handlers' = handlers \ {h} /\ late' = late \cup {q}
  BY DEF LoseDecision
<1>2. /\ h \in Handler /\ h.order \in Orders /\ h.decision \in Decision
      /\ q \in Request /\ q.order = h.order /\ q.step \in Decision
      /\ HandlerFits(h)
  BY DEF SagaInv, SagaTypeOK, OrderInv, Handler, Request
<1>3. ASSUME NEW r, r = q PROVE LateFits(r)'
  BY <1>1, <1>2, <1>3 DEF LateFits, HandlerFits, Decision
<1> HIDE DEF q
<1>4. QED
  BY <1>1, <1>2, <1>3, BesideFits DEF SagaInv, SagaTypeOK

LEMMA RiderReportsFits ==
    ASSUME SagaInv, NEW o \in Orders, NEW g \in ReportStage, RiderReports(o, g)
    PROVE  StepFits(o)
<1> DEFINE x == [order |-> o, stage |-> g, recorded |-> FALSE]
<1>1. /\ UNCHANGED <<orderVars, payVars, riders, announced, wf, handlers, late>>
      /\ orders[o].status # "absent" /\ reports' = reports \cup {x}
  BY DEF RiderReports, SagaInv, OrderInv, CarrierFits
<1>2. x \in Report /\ x.order = o /\ x.recorded = FALSE
  BY FALSE \in BOOLEAN DEF Report
<1>3. ASSUME NEW y, y = x PROVE ReportFits(y)'
  BY <1>1, <1>2, <1>3 DEF ReportFits
<1> HIDE DEF x
<1>4. QED
  BY <1>1, <1>2, <1>3, BesideFits DEF SagaInv, SagaTypeOK

LEMMA LoseReportFits ==
    ASSUME SagaInv, NEW x \in reports, LoseReport(x)
    PROVE  x.order \in Orders /\ StepFits(x.order)
<1>1. /\ UNCHANGED <<orderVars, payVars, riders, announced, wf, handlers, late>>
      /\ reports' = reports \ {x}
  BY DEF LoseReport
<1>2. x.order \in Orders
  BY DEF SagaInv, SagaTypeOK, Report
<1>3. QED
  BY <1>1, <1>2, BesideFits DEF SagaInv, SagaTypeOK

\* The signal reaches the workflow, if that still runs.
LEMMA SignalReportFits ==
    ASSUME SagaInv, NEW x \in reports, SignalReport(x)
    PROVE  x.order \in Orders /\ StepFits(x.order)
<1> DEFINE o == x.order
<1>1. /\ UNCHANGED <<orderVars, payVars, riders, announced, handlers, late>>
      /\ x.recorded = TRUE /\ reports' = reports \ {x}
      /\ \/ RiderRuns(o) /\ wf' = [wf EXCEPT ![o] = Reported(wf[o], x.stage)]
         \/ wf' = wf
  <2>1. x.recorded \in BOOLEAN
    BY DEF SagaInv, SagaTypeOK, Report
  <2>2. QED
    BY <2>1 DEF SignalReport
<1>2. /\ o \in Orders /\ x.stage \in ReportStage
      /\ wf \in [Orders -> Workflow]
  BY DEF SagaInv, SagaTypeOK, Report
<1>3. wf[o] \in Workflow /\ OrderInv(o) /\ ReportFits(x) /\ SagaTypeOK
      /\ orders[o].reported \in ReportStage \cup {"none"}
  BY <1>2 DEF SagaInv, OrderInv, StoresInv, TrailInv, OrdersTypeOK, OrderRow
<1>4. orders[o].reported # "none" /\ (x.stage = "delivered" => orders[o].reported = "delivered")
  BY <1>1, <1>2, <1>3 DEF ReportFits, StageRank, ReportStage
<1> HIDE DEF o
<1>5. CASE wf' = wf
  BY <1>1, <1>2, <1>5, BesideFits DEF SagaInv, SagaTypeOK, o
<1>6. CASE RiderRuns(o) /\ wf' = [wf EXCEPT ![o] = Reported(wf[o], x.stage)]
  <2>1. /\ wf' \in [Orders -> Workflow] /\ \A p \in Orders \ {o} : wf'[p] = wf[p]
        /\ wf'[o].pc = wf[o].pc /\ wf'[o].attempt = wf[o].attempt
        /\ wf'[o].rider = wf[o].rider
        /\ wf'[o].decision = wf[o].decision /\ wf'[o].reason = wf[o].reason
        /\ wf'[o].delivered => wf[o].delivered \/ x.stage = "delivered"
    <3> DEFINE v == Reported(wf[o], x.stage)
    <3>1. /\ v \in Workflow
          /\ v.pc = wf[o].pc /\ v.attempt = wf[o].attempt /\ v.rider = wf[o].rider
          /\ v.decision = wf[o].decision /\ v.reason = wf[o].reason
          /\ v.delivered => wf[o].delivered \/ x.stage = "delivered"
      BY ZenonT(60), <1>2, <1>3, ReportedFacts
    <3>2. wf' = [wf EXCEPT ![o] = v]
      BY <1>6
    <3> HIDE DEF v
    <3>3. QED
      BY <1>2, <1>3, <3>1, <3>2
  <2>2. (StageFits(o) /\ MoneyFits(o) /\ AnswerFits(o) /\ ReportsFit(o))'
    BY <1>1, <1>3, <1>4, <2>1 DEF OrderInv, StageFits, MoneyFits, AnswerFits, ReportsFit
  <2>3. (CarrierFits(o) /\ HistoryFits(o))'
    BY <1>1, <1>3, <2>1 DEF OrderInv, CarrierFits, HistoryFits, HasEntered, Holding
  <2>4. Confirmable(o) => Confirmable(o)'
    BY <1>1, <2>1 DEF Confirmable, Declined
  <2>5. \A q \in late : q.order = o => LateFits(q)'
    BY <1>1, <1>3, <2>1, <2>4 DEF OrderInv, LateFits, InTurn, Declined
  <2>6. SagaTypeOK' /\ \A p \in Orders \ {o} : Untouched(p)
    BY <1>1, <1>3, <2>1 DEF SagaTypeOK, Untouched
  <2>7. /\ o \in counted' => Confirmable(o)'
        /\ \A h \in handlers' : h.order = o => HandlerFits(h)'
        /\ \A y \in reports' : y.order = o => ReportFits(y)'
        /\ \A c \in AuthCall : c.order = o => CallFits(c)'
    BY <1>1, <1>3, <2>4 DEF OrderInv, HandlerFits, ReportFits, CallFits
  <2>8. QED
    BY <1>1, <1>2, <2>2, <2>3, <2>5, <2>6, <2>7 DEF StepFits, OrderInv, o
<1>7. QED
  BY <1>1, <1>5, <1>6

\* The publishing handler sets what run() waits for, if that still runs.
LEMMA HandlerPublishesFits ==
    ASSUME SagaInv, NEW h \in handlers, HandlerPublishes(h)
    PROVE  h.order \in Orders /\ StepFits(h.order)
<1> DEFINE o == h.order
<1>1. /\ UNCHANGED <<orderVars, payVars, riders, reports, late>>
      /\ handlers' = handlers \ {h} /\ h.step = "publishing"
      /\ \/ /\ FulfillmentRuns(o) /\ wf' = [wf EXCEPT ![o].decision = h.decision]
            /\ announced' = [announced EXCEPT ![o] = @ \cup {"kitchen.decided"}]
         \/ wf' = wf /\ announced' = announced
  BY DEF HandlerPublishes
<1>2. /\ o \in Orders /\ h.decision \in Decision
      /\ wf \in [Orders -> Workflow] /\ announced \in [Orders -> SUBSET Event]
  BY DEF SagaInv, SagaTypeOK, Handler
<1>3. wf[o] \in Workflow /\ OrderInv(o) /\ SagaTypeOK /\ orders[o].decision = h.decision
  BY <1>1, <1>2 DEF SagaInv, OrderInv, HandlerFits
<1> HIDE DEF o
<1>4. CASE wf' = wf /\ announced' = announced
  BY <1>1, <1>2, <1>4, BesideFits DEF SagaInv, SagaTypeOK, o
<1>5. CASE /\ FulfillmentRuns(o) /\ wf' = [wf EXCEPT ![o].decision = h.decision]
           /\ announced' = [announced EXCEPT ![o] = @ \cup {"kitchen.decided"}]
  <2>1. [wf[o] EXCEPT !.decision = h.decision] \in Workflow
    BY <1>2, <1>3 DEF Workflow
  <2>2. /\ wf' \in [Orders -> Workflow] /\ \A p \in Orders \ {o} : wf'[p] = wf[p]
        /\ wf'[o].pc = wf[o].pc /\ wf'[o].attempt = wf[o].attempt
        /\ wf'[o].rider = wf[o].rider
        /\ wf'[o].picked_up = wf[o].picked_up /\ wf'[o].delivered = wf[o].delivered
        /\ wf'[o].decision = h.decision /\ wf'[o].reason = wf[o].reason
    BY <1>2, <1>3, <1>5, <2>1 DEF Workflow
  <2>3. /\ announced' \in [Orders -> SUBSET Event]
        /\ \A p \in Orders \ {o} : announced'[p] = announced[p]
        /\ announced'[o] = announced[o] \cup {"kitchen.decided"}
    BY <1>2, <1>5 DEF Event
  <2>4. (StageFits(o) /\ MoneyFits(o) /\ AnswerFits(o) /\ ReportsFit(o))'
    BY <1>1, <1>3, <2>2 DEF OrderInv, StageFits, MoneyFits, AnswerFits, ReportsFit
  <2>5. CarrierFits(o)'
    BY <1>1, <1>3, <2>2 DEF OrderInv, CarrierFits, Holding
  <2>6. HistoryFits(o)'
    BY <1>1, <1>2, <1>3, <2>3
       DEF OrderInv, HistoryFits, HasEntered, OrderStatus, Undone, Decision
  <2>7. Confirmable(o) => Confirmable(o)'
    BY <1>1, <2>2 DEF Confirmable, Declined
  <2>8. \A q \in late : q.order = o => LateFits(q)'
    BY <1>1, <1>3, <2>2, <2>7 DEF OrderInv, LateFits, InTurn, Declined
  <2>9. SagaTypeOK' /\ \A p \in Orders \ {o} : Untouched(p)
    BY <1>1, <1>3, <2>2, <2>3 DEF SagaTypeOK, Untouched
  <2>10. /\ o \in counted' => Confirmable(o)'
         /\ \A g \in handlers' : g.order = o => HandlerFits(g)'
         /\ \A x \in reports' : x.order = o => ReportFits(x)'
         /\ \A c \in AuthCall : c.order = o => CallFits(c)'
    BY <1>1, <1>3, <2>7 DEF OrderInv, HandlerFits, ReportFits, CallFits
  <2>11. QED
    BY <1>1, <1>2, <2>4, <2>5, <2>6, <2>8, <2>9, <2>10 DEF StepFits, OrderInv, o
<1>6. QED
  BY <1>1, <1>4, <1>5

\* The order's row takes an answer or a report, and keeps what it had.
RowTakes(o) ==
    /\ trail' = trail /\ counted' = counted
    /\ \A p \in Orders \ {o} : orders'[p] = orders[p]
    /\ orders'[o].status = orders[o].status /\ orders'[o].rider = orders[o].rider
    /\ orders[o].decision # "none" => orders'[o].decision = orders[o].decision
    /\ orders[o].reported # "none" => orders'[o].reported # "none"
    /\ orders[o].reported = "delivered" => orders'[o].reported = "delivered"
    /\ StageRank[orders'[o].reported] >= StageRank[orders[o].reported]

LEMMA RowTakesFits ==
    ASSUME SagaInv, NEW o \in Orders, RowTakes(o), OrdersTypeOK',
           UNCHANGED <<payVars, riders, announced, wf>>,
           handlers' \subseteq Handler /\ reports' \subseteq Report /\ late' \subseteq late,
           \A h \in handlers' : h \in handlers \/ (h.order = o /\ HandlerFits(h)'),
           \A x \in reports' : x \in reports \/ (x.order = o /\ ReportFits(x)')
    PROVE  StepFits(o)
<1> USE DEF RowTakes
<1>1. OrderInv(o) /\ SagaTypeOK /\ OrdersTypeOK
  BY DEF SagaInv, StoresInv, TrailInv
<1>2. \A g \in ReportStage \cup {"none"} : StageRank[g] \in Nat
  BY DEF StageRank, ReportStage
<1>3. /\ orders[o].reported \in ReportStage \cup {"none"}
      /\ orders'[o].reported \in ReportStage \cup {"none"}
  BY <1>1 DEF OrdersTypeOK, OrderRow
<1>4. SagaTypeOK' /\ \A p \in Orders \ {o} : Untouched(p)
  BY <1>1 DEF SagaTypeOK, Untouched
<1>5. (StageFits(o) /\ MoneyFits(o) /\ AnswerFits(o) /\ ReportsFit(o))'
  BY <1>1 DEF OrderInv, StageFits, MoneyFits, AnswerFits, ReportsFit
<1>6. (CarrierFits(o) /\ HistoryFits(o))'
  BY <1>1 DEF OrderInv, CarrierFits, HistoryFits, HasEntered, Holding
<1>7. Confirmable(o) => Confirmable(o)'
  BY DEF Confirmable, Declined
<1>8. \A q \in late' : q.order = o => LateFits(q)'
  BY <1>1, <1>7 DEF OrderInv, LateFits, InTurn, Declined
<1>9. \A h \in handlers' : h.order = o => HandlerFits(h)'
  <2>1. ASSUME NEW h \in handlers, h.order = o PROVE HandlerFits(h)'
    <3>1. h.decision # "none"
      BY <1>1 DEF SagaTypeOK, Handler, Decision
    <3>2. QED
      BY <1>1, <2>1, <3>1 DEF OrderInv, HandlerFits
  <2>2. QED
    BY <2>1
<1>10. \A x \in reports' : x.order = o => ReportFits(x)'
  <2>1. ASSUME NEW x \in reports, x.order = o PROVE ReportFits(x)'
    <3>1. StageRank[x.stage] \in Nat
      BY <1>1, <1>2 DEF SagaTypeOK, Report
    <3>2. QED
      BY <1>1, <1>2, <1>3, <2>1, <3>1 DEF OrderInv, ReportFits
  <2>2. QED
    BY <2>1
<1>11. /\ o \in counted' => Confirmable(o)'
       /\ \A c \in AuthCall : c.order = o => CallFits(c)'
  BY <1>1, <1>7 DEF OrderInv, CallFits
<1>12. QED
  BY <1>4, <1>5, <1>6, <1>8, <1>9, <1>10, <1>11 DEF StepFits, OrderInv

LEMMA DecideTakes ==
    ASSUME OrdersTypeOK, NEW o \in Orders, NEW d \in Decision, DecideKitchen(o, d)
    PROVE  RowTakes(o) /\ OrdersTypeOK'
<1>1. OrdersTypeOK'
  BY OrdersTypeStep DEF OrdersNext
<1>2. StageRank[orders[o].reported] \in Nat
  BY DEF StageRank, ReportStage, OrdersTypeOK, OrderRow
<1>3. QED
  BY <1>1, <1>2, DecideFacts DEF RowTakes, OnRail

LEMMA HandlerDecidesFits ==
    ASSUME SagaInv, NEW h \in handlers, HandlerDecides(h)
    PROVE  h.order \in Orders /\ StepFits(h.order)
<1> DEFINE o == h.order
           g == [h EXCEPT !.step = "publishing"]
<1>1. /\ UNCHANGED <<payVars, riders, announced, wf, reports, late>>
      /\ h.step = "deciding" /\ DecideKitchen(o, h.decision)
      /\ handlers' = (handlers \ {h}) \cup (IF OnRail(o) THEN {g} ELSE {})
  BY DEF HandlerDecides
<1>2. /\ h \in Handler /\ o \in Orders /\ h.decision \in Decision /\ SagaTypeOK /\ OrdersTypeOK
  BY DEF SagaInv, SagaTypeOK, Handler, StoresInv, TrailInv
<1>3. RowTakes(o) /\ OrdersTypeOK' /\ (OnRail(o) => orders'[o].decision = h.decision)
  BY <1>1, <1>2, DecideTakes, DecideFacts
<1>4. g \in Handler /\ g.order = o /\ g.decision = h.decision
  BY <1>2 DEF Handler
<1>5. ASSUME NEW k, k = g, OnRail(o) PROVE HandlerFits(k)'
  BY <1>3, <1>4, <1>5 DEF HandlerFits, OnRail, RowTakes, o
<1> HIDE DEF g, o
<1>6. QED
  BY <1>1, <1>2, <1>3, <1>4, <1>5, RowTakesFits DEF SagaTypeOK, o

LEMMA RecordReportFits ==
    ASSUME SagaInv, NEW x \in reports, RecordReport(x)
    PROVE  x.order \in Orders /\ StepFits(x.order)
<1> DEFINE o == x.order
           y == [x EXCEPT !.recorded = TRUE]
<1>1. /\ UNCHANGED <<payVars, riders, announced, wf, handlers, late>>
      /\ RecordRiderReport(o, x.stage) /\ reports' = (reports \ {x}) \cup {y}
  BY DEF RecordReport
<1>2. /\ x \in Report /\ o \in Orders /\ x.stage \in ReportStage /\ SagaTypeOK /\ OrdersTypeOK
      /\ ReportFits(x)
  BY DEF SagaInv, SagaTypeOK, Report, StoresInv, TrailInv, OrderInv
<1>3. OrdersTypeOK'
  BY <1>1, <1>2, OrdersTypeStep DEF OrdersNext
<1>4. /\ trail' = trail /\ counted' = counted
      /\ \A q \in Orders \ {o} : orders'[q] = orders[q]
      /\ orders'[o].status = orders[o].status /\ orders'[o].rider = orders[o].rider
      /\ orders'[o].decision = orders[o].decision
      /\ StageRank[orders'[o].reported] >= StageRank[orders[o].reported]
      /\ StageRank[orders'[o].reported] >= StageRank[x.stage]
  BY <1>1, <1>2, ReportFacts DEF ReportFits, Exists
<1>5. RowTakes(o)
  <2>1. /\ orders[o].reported \in ReportStage \cup {"none"}
        /\ orders'[o].reported \in ReportStage \cup {"none"}
    BY <1>2, <1>3 DEF OrdersTypeOK, OrderRow
  <2>2. /\ orders[o].reported # "none" => orders'[o].reported # "none"
        /\ orders[o].reported = "delivered" => orders'[o].reported = "delivered"
    BY <1>4, <2>1 DEF StageRank, ReportStage
  <2>3. QED
    BY <1>4, <2>2 DEF RowTakes
<1>6. y \in Report /\ y.order = o /\ y.stage = x.stage
  BY <1>2, TRUE \in BOOLEAN DEF Report
<1>7. ASSUME NEW z, z = y PROVE ReportFits(z)'
  BY <1>2, <1>4, <1>6, <1>7 DEF ReportFits
<1> HIDE DEF y, o
<1>8. QED
  BY <1>1, <1>2, <1>3, <1>5, <1>6, <1>7, RowTakesFits DEF SagaTypeOK, o

-----------------------------------------------------------------------------
(* Refunds, and requests executed late.                                    *)

LEMMA RefundMovesFits ==
    ASSUME SagaInv, NEW o \in Orders, Stays(o), wf[o].reason # "none",
           IssueRefund(o) \/ MarkRefunded(o) \/ CrashRefund(o),
           UNCHANGED <<orderVars, riders, announced, handlers, reports>>, late' \subseteq late
    PROVE  StepFits(o)
<1>1. OrderInv(o) /\ SagaTypeOK
  BY DEF SagaInv
<1>2. /\ auth' = auth /\ charges' = charges
      /\ \A p \in Orders \ {o} : payments'[p] = payments[p] /\ refunding'[p] = refunding[p]
      /\ MoneyKept(o)
      /\ \A c \in AuthCall : c.order = o => CallFits(c)'
  BY RefundFacts
<1>3. /\ (StageFits(o) /\ MoneyFits(o) /\ AnswerFits(o) /\ ReportsFit(o))'
      /\ (CarrierFits(o) /\ HistoryFits(o))'
      /\ Confirmable(o) => Confirmable(o)'
      /\ \A q \in late : q.order = o => LateFits(q)'
  BY <1>2, StaysFits
<1>4. SagaTypeOK' /\ \A p \in Orders \ {o} : Untouched(p)
  BY <1>1, <1>2 DEF SagaTypeOK, Untouched, Stays
<1>5. /\ o \in counted' => Confirmable(o)'
      /\ \A q \in late' : q.order = o => LateFits(q)'
      /\ \A h \in handlers' : h.order = o => HandlerFits(h)'
      /\ \A x \in reports' : x.order = o => ReportFits(x)'
  BY <1>1, <1>3 DEF OrderInv, HandlerFits, ReportFits
<1>6. QED
  BY <1>2, <1>3, <1>4, <1>5 DEF StepFits, OrderInv

LEMMA SendRefundFits ==
    ASSUME SagaInv, NEW o \in Orders, SendRefund(o)
    PROVE  StepFits(o)
<1>1. /\ UNCHANGED <<orderVars, riders, announced, handlers, reports, late>>
      /\ wf[o].pc = "refund" /\ IssueRefund(o) /\ wf' = [wf EXCEPT ![o].begun = TRUE]
  BY DEF SendRefund, aside, At
<1>2. Stays(o) /\ wf[o].reason # "none"
  BY <1>1, BegunFacts DEF SagaInv, OrderInv, MoneyFits
<1>3. QED
  BY <1>1, <1>2, RefundMovesFits

LEMMA RefundAnsweredFits ==
    ASSUME SagaInv, NEW o \in Orders, RefundAnswered(o)
    PROVE  StepFits(o)
<1>1. /\ UNCHANGED <<orderVars, riders, handlers, reports, late>>
      /\ wf[o].pc = "refund" /\ Goes(o, "cancel")
      /\ MarkRefunded(o) \/ (payments[o].status = "refunded" /\ UNCHANGED payVars)
      /\ announced' = [announced EXCEPT ![o] = @ \cup {"payment.refunded"}]
  BY DEF RefundAnswered, aside, At
<1>2. OrderInv(o) /\ SagaTypeOK /\ wf[o].reason # "none"
  BY <1>1 DEF SagaInv, OrderInv, MoneyFits
<1>3. GoesTo(o, "cancel") /\ wf'[o].reason = wf[o].reason /\ wf'[o].decision = wf[o].decision
  BY <1>1, <1>2, PlacesSpeltOut, GoesFacts DEF Place
<1>4. /\ auth' = auth /\ charges' = charges
      /\ \A p \in Orders \ {o} : payments'[p] = payments[p] /\ refunding'[p] = refunding[p]
      /\ payments'[o].status = "refunded"
      /\ \A c \in AuthCall : c.order = o => CallFits(c)'
  BY <1>1, <1>2, RefundFacts DEF OrderInv, CallFits
<1>5. /\ announced' \in [Orders -> SUBSET Event]
      /\ \A p \in Orders \ {o} : announced'[p] = announced[p]
      /\ announced'[o] = announced[o] \cup {"payment.refunded"}
  BY <1>1, <1>2 DEF SagaTypeOK, Event
<1>6. (StageFits(o) /\ MoneyFits(o) /\ AnswerFits(o) /\ ReportsFit(o))'
  BY <1>1, <1>2, <1>3, <1>4 DEF OrderInv, StageFits, MoneyFits, AnswerFits, ReportsFit
<1>7. CarrierFits(o)'
  BY <1>1, <1>2, <1>3 DEF OrderInv, CarrierFits, Holding
<1>8. HistoryFits(o)'
  BY <1>1, <1>2, <1>4, <1>5 DEF OrderInv, HistoryFits, HasEntered, OrderStatus, Undone
<1>9. Confirmable(o) => Confirmable(o)'
  BY <1>1, <1>2, <1>3, <1>4 DEF Confirmable, Declined
<1>10. \A q \in late' : q.order = o => LateFits(q)'
  BY <1>1, <1>2, <1>3, <1>4, <1>9 DEF OrderInv, LateFits, InTurn, Declined
<1>11. SagaTypeOK' /\ \A p \in Orders \ {o} : Untouched(p)
  BY <1>1, <1>2, <1>3, <1>4, <1>5 DEF SagaTypeOK, Untouched
<1>12. /\ o \in counted' => Confirmable(o)'
       /\ \A h \in handlers' : h.order = o => HandlerFits(h)'
       /\ \A x \in reports' : x.order = o => ReportFits(x)'
  BY <1>1, <1>2, <1>9 DEF OrderInv, HandlerFits, ReportFits
<1>13. QED
  BY <1>4, <1>6, <1>7, <1>8, <1>10, <1>11, <1>12 DEF StepFits, OrderInv

LEMMA FinishLateFits ==
    ASSUME SagaInv, NEW o \in Orders, FinishLate(o)
    PROVE  StepFits(o)
<1>1. UNCHANGED <<riders, wf, handlers, reports, late, announced>>
  BY DEF FinishLate, sagaVars
<1>2. CASE ConfirmCounted(o) /\ UNCHANGED payVars
  BY <1>1, <1>2, ConfirmedFits
<1>3. CASE refunding[o] > 0 /\ MarkRefunded(o) /\ UNCHANGED orderVars
  <2>1. Stays(o) /\ wf[o].reason # "none"
    BY <1>1, <1>3, UnmovedStays DEF SagaInv, OrderInv, MoneyFits
  <2>2. QED
    BY <1>1, <1>3, <2>1, RefundMovesFits
<1>4. refunding[o] \in Nat /\ (refunding[o] > Current(o, "refund") => refunding[o] > 0)
  BY DEF Current, SagaInv, StoresInv, PayInv, PayTypeOK
<1>5. QED
  BY <1>2, <1>3, <1>4 DEF FinishLate

\* A request to move the order that is executed after all.
LEMMA LateTransitionFits ==
    ASSUME SagaInv, NEW o \in Orders, NEW s \in DOMAIN Enters \ {"confirm"},
           \E q \in late : q.order = o /\ q.step = s,
           Transition(o, Enters[s], IF s = "assign" THEN wf[o].rider ELSE None),
           UNCHANGED <<payVars, riders, announced, wf, handlers, reports>>, late' \subseteq late
    PROVE  StepFits(o)
<1> DEFINE n == Enters[s]
           r == IF s = "assign" THEN wf[o].rider ELSE None
<1>1. /\ OrderInv(o) /\ SagaTypeOK /\ OrdersTypeOK /\ Stays(o) /\ MoneyKept(o)
      /\ wf[o] \in Workflow /\ orders[o] \in OrderRow
  BY UnmovedStays DEF SagaInv, StoresInv, TrailInv, SagaTypeOK, OrdersTypeOK, OrderInv, MoneyFits,
                      MoneyKept
<1>2. PICK q \in late : q.order = o /\ q.step = s
  OBVIOUS
<1>3. LateFits(q)
  BY <1>1, <1>2 DEF OrderInv
<1>4. \/ s = "assign" /\ n = "assigned"
      \/ s = "mark_picked_up" /\ n = "picked_up"
      \/ s = "mark_delivered" /\ n = "delivered"
      \/ s = "cancel" /\ n = "cancelled"
      \/ s = "cancel_unpaid" /\ n = "cancelled"
      \/ s = "mark_comp_failed" /\ n = "compensation_failed"
  BY StepsSpeltOut
<1>5. n \in OrderStatus /\ r \in Riders \cup {None} /\ (s = "assign" => r # None)
  BY <1>1, <1>2, <1>3, <1>4 DEF Workflow, LateFits, OrderStatus
<1>6. /\ counted' = counted
      /\ CanMove(o, n) => EntersNow(o, n, r)
      /\ ~CanMove(o, n) => orders' = orders /\ trail' = trail
  BY <1>1, <1>5, TransitionFacts
<1> HIDE DEF n, r
<1>7. CASE CanMove(o, n)
  <2>1. /\ orders[o].status \notin Terminal /\ orders[o].status # "absent"
        /\ Rank[orders[o].status] < Rank[n] /\ orders'[o].status = n
    BY <1>1, <1>5, <1>6, <1>7, CanMoveRaisesRank DEF OrderRow, EntersNow, CanMove, Exists
  <2>2. Rank[orders[o].status] \in Nat /\ Rank[n] \in Nat /\ Rank[Enters[s]] = Rank[n]
    BY <1>1, <1>5, RanksSpeltOut DEF OrderRow, n
  <2>3. \/ /\ s \in {"assign", "mark_picked_up", "mark_delivered"}
           /\ wf[o].pc \in {s, "broken"} /\ wf[o].reason = "none"
           /\ orders[o].decision = "accepted"
           /\ orders[o].status = IF s = "assign" THEN "confirmed"
                                 ELSE IF s = "mark_picked_up" THEN "assigned" ELSE "picked_up"
           /\ s = "mark_delivered" => orders[o].reported = "delivered"
        \/ s = "cancel_unpaid" /\ Declined(o)
        \/ /\ s \in {"cancel", "mark_comp_failed"} /\ wf[o].reason # "none"
           /\ s = "cancel" => payments[o].status = "refunded"
    BY <1>2, <1>3, <1>4, <2>1, <2>2 DEF LateFits, InTurn
  <2>4. (StageFits(o) /\ MoneyFits(o))'
    BY <1>1, <1>4, <2>1, <2>3 DEF OrderInv, StageFits, MoneyFits, Undone, Terminal, Declined
  <2>5. (AnswerFits(o) /\ ReportsFit(o))'
    BY <1>1, <1>4, <1>5, <1>6, <1>7, <2>1, <2>3
       DEF OrderInv, StageFits, AnswerFits, ReportsFit, EntersNow, Carrier, Terminal
  <2>6. CarrierFits(o)'
    BY <1>1, <1>5, <2>1, NoneAssumption DEF OrderInv, CarrierFits, Holding, OrderStatus
  <2>7. Confirmable(o) => Confirmable(o)'
    BY <1>1, <1>4, <2>1, <2>3 DEF OrderInv, MoneyFits, Confirmable, Declined
  <2>8. ASSUME NEW z \in late, z.order = o PROVE LateFits(z)'
    <3>1. ASSUME NEW u \in {"assign", "mark_picked_up", "mark_delivered"},
                 NEW from \in OrderStatus, InTurn(o, u, from),
                 from = IF u = "assign" THEN "confirmed"
                        ELSE IF u = "mark_picked_up" THEN "assigned" ELSE "picked_up"
          PROVE  InTurn(o, u, from)'
      <4>1. Rank[orders'[o].status] >= Rank[Enters[u]]
        BY <1>1, <1>4, <2>1, <2>2, <2>3, <3>1, StepsSpeltOut, RanksSpeltOut
           DEF InTurn, Declined, Terminal
      <4>2. QED
        BY <4>1 DEF InTurn
    <3>2. Declined(o) => Declined(o)'
      BY <1>4, <2>1, <2>3 DEF Declined
    <3>3. QED
      BY <1>1, <1>5, <1>6, <1>7, <2>1, <2>7, <2>8, <3>1, <3>2
         DEF OrderInv, LateFits, EntersNow, OrderStatus
  <2>9. QED
    BY <1>1, <1>4, <1>5, <1>6, <1>7, <2>1, <2>4, <2>5, <2>6, <2>7, <2>8, EnteredStep
       DEF OrderInv, SagaTypeOK
<1>8. CASE ~CanMove(o, n)
  BY <1>1, <1>6, <1>8, BesideFits DEF SagaInv, SagaTypeOK
<1>9. QED
  BY <1>7, <1>8

LEMMA ExecuteLateFits ==
    ASSUME SagaInv, NEW q \in late, ExecuteLate(q)
    PROVE  q.order \in Orders /\ StepFits(q.order)
<1> DEFINE o == q.order
           s == q.step
<1>1. /\ late' = late \ {q} /\ UNCHANGED <<wf, handlers, reports, announced>>
      /\ \/ s = "create" /\ InsertOrder(o) /\ UNCHANGED <<payVars, riders>>
         \/ s = "confirm" /\ CountRail(o) /\ UNCHANGED <<payVars, riders>>
         \/ /\ s \in DOMAIN Enters \ {"confirm"} /\ UNCHANGED <<payVars, riders>>
            /\ Transition(o, Enters[s], IF s = "assign" THEN wf[o].rider ELSE None)
         \/ s \in Decision /\ DecideKitchen(o, s) /\ UNCHANGED <<payVars, riders>>
         \/ /\ s = "dispatch" /\ \E r \in Riders : Claim(o, r)
            /\ UNCHANGED <<orderVars, payVars>>
         \/ s \in Releases /\ Release(o) /\ UNCHANGED <<orderVars, payVars>>
         \/ s = "refund" /\ IssueRefund(o) /\ UNCHANGED <<orderVars, riders>>
  BY DEF ExecuteLate
<1>2. /\ o \in Orders /\ SagaTypeOK /\ OrdersTypeOK /\ FleetTypeOK
      /\ wf \in [Orders -> Workflow]
  BY DEF SagaInv, SagaTypeOK, Request, StoresInv, TrailInv
<1>3. /\ OrderInv(o) /\ LateFits(q) /\ Stays(o)
  BY <1>1, <1>2, UnmovedStays DEF SagaInv, OrderInv
<1>4. q.step = s /\ q.order = o
  OBVIOUS
<1> HIDE DEF o, s
<1>5. CASE s = "create" /\ InsertOrder(o) /\ UNCHANGED <<payVars, riders>>
  <2>1. "created" \in OrderStatus /\ None \in Riders \cup {None}
    BY DEF OrderStatus
  <2>2. ~Exists(o) /\ EntersNow(o, "created", None) /\ counted' = counted
    BY <1>2, <1>5, InsertFacts
  <2>3. orders[o].status = "absent" /\ orders'[o].status = "created"
    BY <2>2 DEF Exists, EntersNow
  <2>4. (StageFits(o) /\ MoneyFits(o))'
    BY <1>1, <1>3, <1>5, <2>3 DEF OrderInv, StageFits, MoneyFits, Undone, Terminal
  <2>5. (AnswerFits(o) /\ ReportsFit(o) /\ CarrierFits(o))'
    BY <1>1, <1>3, <1>5, <2>2, <2>3
       DEF OrderInv, AnswerFits, ReportsFit, CarrierFits, Holding, EntersNow
  <2>6. Confirmable(o) => Confirmable(o)'
    BY <1>1, <1>3, <1>5, <2>3 DEF OrderInv, StageFits, Confirmable, Declined
  <2>7. \A z \in late : z.order = o => LateFits(z)'
    BY <1>1, <1>3, <1>5, <2>2, <2>3, <2>6, StepsSpeltOut, RanksSpeltOut
       DEF OrderInv, LateFits, InTurn, Declined
  <2>8. orders[o].status \notin Terminal
    BY <2>3 DEF Terminal
  <2>9. o \in counted' => Confirmable(o)'
    BY <1>3, <2>2, <2>6 DEF OrderInv
  <2>10. QED
    BY <1>1, <1>2, <1>4, <1>5, <2>1, <2>2, <2>4, <2>5, <2>7, <2>8, <2>9, EnteredStep
       DEF SagaTypeOK
<1>6. CASE s = "confirm" /\ CountRail(o) /\ UNCHANGED <<payVars, riders>>
  <2>1. /\ UNCHANGED <<orders, trail, payVars, riders>> /\ counted' = counted \cup {o}
        /\ MoneyKept(o) /\ Confirmable(o)
    BY <1>3, <1>4, <1>6 DEF CountRail, OrderInv, MoneyFits, MoneyKept, LateFits
  <2>2. /\ (StageFits(o) /\ MoneyFits(o) /\ AnswerFits(o) /\ ReportsFit(o))'
        /\ (CarrierFits(o) /\ HistoryFits(o))'
        /\ Confirmable(o) => Confirmable(o)'
        /\ \A z \in late : z.order = o => LateFits(z)'
    BY <1>1, <1>2, <1>3, <2>1, StaysFits
  <2>3. SagaTypeOK' /\ \A p \in Orders \ {o} : Untouched(p)
    BY <1>1, <1>2, <2>1 DEF SagaTypeOK, Untouched
  <2>4. /\ \A z \in late' : z.order = o => LateFits(z)'
        /\ \A h \in handlers' : h.order = o => HandlerFits(h)'
        /\ \A x \in reports' : x.order = o => ReportFits(x)'
        /\ \A c \in AuthCall : c.order = o => CallFits(c)'
    BY <1>1, <1>3, <2>1, <2>2 DEF OrderInv, HandlerFits, ReportFits, CallFits
  <2>5. QED
    BY <1>2, <1>4, <2>1, <2>2, <2>3, <2>4 DEF StepFits, OrderInv
<1>7. CASE /\ s \in DOMAIN Enters \ {"confirm"} /\ UNCHANGED <<payVars, riders>>
           /\ Transition(o, Enters[s], IF s = "assign" THEN wf[o].rider ELSE None)
  <2>1. ASSUME NEW u \in DOMAIN Enters \ {"confirm"}, u = s PROVE StepFits(o)
    BY <1>1, <1>2, <1>4, <1>7, <2>1, LateTransitionFits
  <2>2. QED
    BY <1>2, <1>4, <1>7, <2>1
<1>8. CASE s \in Decision /\ DecideKitchen(o, s) /\ UNCHANGED <<payVars, riders>>
  <2>1. RowTakes(o) /\ OrdersTypeOK'
    BY <1>2, <1>8, DecideTakes
  <2>2. QED
    BY <1>1, <1>2, <1>4, <1>8, <2>1, RowTakesFits DEF SagaTypeOK
<1>9. CASE /\ \/ s = "dispatch" /\ \E r \in Riders : Claim(o, r)
              \/ s \in Releases /\ Release(o)
           /\ UNCHANGED <<orderVars, payVars>>
  <2>1. /\ \A p \in Orders \ {o} : \A r \in Riders : riders'[r].order = p <=> riders[r].order = p
        /\ CarrierFits(o)'
    <3>1. CASE s = "dispatch" /\ \E r \in Riders : Claim(o, r)
      <4>1. PICK r \in Riders : Claim(o, r)
        BY <3>1
      <4>2. Holding(o) = {} /\ orders[o].status # "absent"
        BY <1>3, <1>4, <3>1, <4>1 DEF Claim, LateFits
      <4>3. QED
        BY <1>1, <1>2, <1>3, <1>9, <4>1, <4>2, ClaimFacts DEF OrderInv, CarrierFits, Holding
    <3>2. CASE s \in Releases /\ Release(o)
      BY <1>1, <1>2, <1>3, <1>4, <1>9, <3>2, ReleaseFacts DEF LateFits, CarrierFits, Holding
    <3>3. QED
      BY <1>9, <3>1, <3>2
  <2>2. /\ (StageFits(o) /\ MoneyFits(o) /\ AnswerFits(o) /\ ReportsFit(o))'
        /\ Confirmable(o) => Confirmable(o)'
    BY <1>1, <1>3, <1>9
       DEF OrderInv, StageFits, MoneyFits, AnswerFits, ReportsFit, Confirmable, Declined
  <2>3. \A z \in late' : z.order = o => LateFits(z)'
    BY <1>1, <1>3, <1>9, <2>2 DEF OrderInv, LateFits, InTurn, Declined
  <2>4. HistoryFits(o)'
    BY <1>1, <1>3, <1>9 DEF OrderInv, HistoryFits, HasEntered
  <2>5. SagaTypeOK' /\ \A p \in Orders \ {o} : Untouched(p)
    BY <1>1, <1>2, <1>9, <2>1 DEF SagaTypeOK, Untouched
  <2>6. /\ o \in counted' => Confirmable(o)'
        /\ \A h \in handlers' : h.order = o => HandlerFits(h)'
        /\ \A x \in reports' : x.order = o => ReportFits(x)'
        /\ \A c \in AuthCall : c.order = o => CallFits(c)'
    BY <1>1, <1>3, <1>9, <2>2 DEF OrderInv, HandlerFits, ReportFits, CallFits
  <2>7. QED
    BY <1>2, <1>4, <2>1, <2>2, <2>3, <2>4, <2>5, <2>6 DEF StepFits, OrderInv
<1>10. CASE s = "refund" /\ IssueRefund(o) /\ UNCHANGED <<orderVars, riders>>
  <2>1. wf[o].reason # "none"
    BY <1>3, <1>4, <1>10 DEF LateFits
  <2>2. QED
    BY <1>1, <1>2, <1>3, <1>4, <1>10, <2>1, RefundMovesFits
<1>11. QED
  BY <1>1, <1>5, <1>6, <1>7, <1>8, <1>9, <1>10

-----------------------------------------------------------------------------
(* The stores' steps, and the invariant.                                   *)

StoreStep == [OrdersNext]_orderVars /\ [PayNext]_payVars /\ [FleetNext]_riders

\* One step for one order.
OrderStep(o) ==
    \/ Progress(o) \/ Checkout(o) \/ FinishLate(o) \/ LoseAttempt(o) \/ CrashPayment(o)
    \/ \E d \in Decision : KitchenClicks(o, d)
    \/ \E g \in ReportStage : RiderReports(o, g)
    \/ \E h \in handlers : /\ h.order = o
                           /\ HandlerDecides(h) \/ HandlerPublishes(h) \/ LoseDecision(h)
    \/ \E x \in reports : /\ x.order = o
                          /\ RecordReport(x) \/ SignalReport(x) \/ LoseReport(x)
    \/ \E q \in late : q.order = o /\ ExecuteLate(q)
    \/ \E c \in AuthCall : c.order = o /\ (ServeUnwaited(c) \/ PayManually(c))

LEMMA NextIsOrderStep ==
    ASSUME SagaTypeOK, Next
    PROVE  \E o \in Orders : OrderStep(o)
<1>1. /\ \A h \in handlers : h.order \in Orders
      /\ \A x \in reports : x.order \in Orders
      /\ \A q \in late : q.order \in Orders
      /\ \A c \in AuthCall : c.order \in Orders
  BY DEF SagaTypeOK, Handler, Report, Request, AuthCall
<1>2. QED
  BY <1>1 DEF Next, Environment, Faults, OrderStep

LEMMA OrderStepFits ==
    ASSUME SagaInv, NEW o \in Orders, OrderStep(o)
    PROVE  StepFits(o)
<1>1. ASSUME Progress(o) PROVE StepFits(o)
  BY <1>1, CreateOrderFits, PublishFits, TransitionOrderFits, CountOnRailFits, JoinRailFits,
     SendAuthorizeFits, ServeAuthorizeFits, AuthorizeAnsweredFits, KitchenAnsweredFits,
     TimerFits, DispatchRiderFits, ReadReportFits, ReleaseRiderFits, SendRefundFits,
     RefundAnsweredFits
     DEF Progress
<1>2. QED
  BY <1>1, CheckoutFits, FinishLateFits, LoseAttemptFits, CrashPaymentFits, KitchenClicksFits,
     RiderReportsFits, HandlerDecidesFits, HandlerPublishesFits, LoseDecisionFits,
     RecordReportFits, SignalReportFits, LoseReportFits, ExecuteLateFits, ServeUnwaitedFits
     DEF OrderStep

\* What one of them does to the orders' tables: a transaction of its own kind,
\* or a transition the workflow stands at or once gave up on.
OrdersMove(o) ==
    \/ InsertOrder(o) \/ CountRail(o) \/ ConfirmCounted(o)
    \/ \E d \in Decision : DecideKitchen(o, d)
    \/ \E g \in ReportStage : RecordRiderReport(o, g)
    \/ \E s \in DOMAIN Enters \ {"confirm"} :
          /\ wf[o].pc = s \/ \E q \in late : q.order = o /\ q.step = s
          /\ Transition(o, Enters[s], IF s = "assign" THEN wf[o].rider ELSE None)

Quiet == UNCHANGED <<orderVars, payVars, riders>>
OnOrders(o) == OrdersMove(o) /\ UNCHANGED <<payVars, riders>>
OnPayments == PayNext /\ UNCHANGED <<orderVars, riders>>
OnFleet == FleetNext /\ UNCHANGED <<orderVars, payVars>>

\* No step writes to two databases.
LEMMA OneStoreMoves ==
    ASSUME SagaTypeOK, NEW o \in Orders, OrderStep(o)
    PROVE  Quiet \/ OnOrders(o) \/ OnPayments \/ OnFleet
<1> USE DEF Quiet, OnOrders, OnPayments, OnFleet
<1>1. wf[o].pc = "authorize" => CurrentAuth(o) \in AuthCall
  BY DEF SagaTypeOK, CurrentAuth, AuthCall, KeyKind, Workflow
<1>2. CASE Progress(o)
  <2>1. CASE CreateOrder(o) \/ TransitionOrder(o) \/ CountOnRail(o) \/ JoinRail(o)
    <3>1. CASE TransitionOrder(o)
      BY <3>1 DEF TransitionOrder, OrdersMove
    <3>2. CASE CreateOrder(o) \/ CountOnRail(o) \/ JoinRail(o)
      BY <3>2 DEF CreateOrder, CountOnRail, JoinRail, OrdersMove
    <3>3. QED
      BY <2>1, <3>1, <3>2
  <2>2. CASE SendAuthorize(o) \/ ServeAuthorize(o) \/ SendRefund(o) \/ RefundAnswered(o)
    BY <1>1, <2>2 DEF SendAuthorize, ServeAuthorize, SendRefund, RefundAnswered, PayNext, At
  <2>3. CASE DispatchRider(o) \/ ReleaseRider(o)
    BY <2>3 DEF DispatchRider, ReleaseRider, FleetNext
  <2>4. CASE \/ Publish(o) \/ AuthorizeAnswered(o) \/ KitchenAnswered(o) \/ KitchenTimer(o)
             \/ ReadDecision(o) \/ RiderSignalled(o) \/ DeliveryTimer(o) \/ ReadReport(o)
    BY <2>4 DEF Publish, AuthorizeAnswered, KitchenAnswered, KitchenTimer, ReadDecision,
                RiderSignalled, DeliveryTimer, ReadReport
  <2>5. QED
    BY <1>2, <2>1, <2>2, <2>3, <2>4 DEF Progress
<1>3. CASE \/ Checkout(o) \/ LoseAttempt(o)
           \/ \E d \in Decision : KitchenClicks(o, d)
           \/ \E g \in ReportStage : RiderReports(o, g)
           \/ \E h \in handlers : HandlerPublishes(h) \/ LoseDecision(h)
           \/ \E x \in reports : SignalReport(x) \/ LoseReport(x)
  BY <1>3 DEF Checkout, LoseAttempt, KitchenClicks, RiderReports, HandlerPublishes, LoseDecision,
              SignalReport, LoseReport
<1>4. CASE FinishLate(o) \/ CrashPayment(o)
  BY <1>1, <1>4 DEF FinishLate, CrashPayment, OrdersMove, PayNext, At
<1>5. CASE \E c \in AuthCall : ServeUnwaited(c) \/ PayManually(c)
  BY <1>5 DEF ServeUnwaited, PayManually, PayNext
<1>6. CASE \/ \E h \in handlers : h.order = o /\ HandlerDecides(h)
           \/ \E x \in reports : x.order = o /\ RecordReport(x)
  BY <1>6 DEF HandlerDecides, RecordReport, OrdersMove, SagaTypeOK, Handler, Report
<1>7. CASE \E q \in late : q.order = o /\ ExecuteLate(q)
  <2>1. PICK q \in late : q.order = o /\ ExecuteLate(q)
    BY <1>7
  <2>2. CASE /\ q.step \in DOMAIN Enters \ {"confirm"} /\ UNCHANGED <<payVars, riders>>
             /\ Transition(o, Enters[q.step], IF q.step = "assign" THEN wf[o].rider ELSE None)
    BY <2>1, <2>2 DEF OrdersMove
  <2>3. CASE ~(/\ q.step \in DOMAIN Enters \ {"confirm"} /\ UNCHANGED <<payVars, riders>>
               /\ Transition(o, Enters[q.step], IF q.step = "assign" THEN wf[o].rider ELSE None))
    <3>1. \/ InsertOrder(o) /\ UNCHANGED <<payVars, riders>>
          \/ CountRail(o) /\ UNCHANGED <<payVars, riders>>
          \/ (\E d \in Decision : DecideKitchen(o, d)) /\ UNCHANGED <<payVars, riders>>
          \/ (\E r \in Riders : Claim(o, r)) /\ UNCHANGED <<orderVars, payVars>>
          \/ Release(o) /\ UNCHANGED <<orderVars, payVars>>
          \/ IssueRefund(o) /\ UNCHANGED <<orderVars, riders>>
      BY <2>1, <2>3 DEF ExecuteLate
    <3>2. QED
      BY <3>1 DEF OrdersMove, PayNext, FleetNext
  <2>4. QED
    BY <2>2, <2>3
<1>8. QED
  BY <1>2, <1>3, <1>4, <1>5, <1>6, <1>7 DEF OrderStep

LEMMA StoreSteps ==
    ASSUME SagaTypeOK, NEW o \in Orders, OrderStep(o)
    PROVE  StoreStep
<1>1. wf[o].rider \in Riders \cup {None}
  BY DEF SagaTypeOK, Workflow
<1>2. \A s \in DOMAIN Enters : Enters[s] \in OrderStatus
  BY StepsSpeltOut DEF OrderStatus
<1>3. OrdersMove(o) => OrdersNext
  <2>1. ASSUME NEW s \in DOMAIN Enters,
               Transition(o, Enters[s], IF s = "assign" THEN wf[o].rider ELSE None)
        PROVE  OrdersNext
    BY <1>1, <1>2, <2>1 DEF OrdersNext
  <2>2. QED
    BY <2>1 DEF OrdersMove, OrdersNext
<1>4. QED
  BY <1>3, OneStoreMoves DEF StoreStep, Quiet, OnOrders, OnPayments, OnFleet

LEMMA SagaInitially == SagaInit => SagaInv
<1> SUFFICES ASSUME SagaInit PROVE SagaInv
  OBVIOUS
<1>1. StoresInv
  <2>1. TrailInv
    BY EmptySeq DEF SagaInit, OrdersInit, TrailInv, OrdersTypeOK, AbsentRow, OrderRow,
                    TrailTellsStatus, TrailMovesForward, LastEntered
  <2>2. PayInv /\ FleetTypeOK
    BY PayInitially DEF SagaInit, FleetInit, FleetTypeOK, FleetRow
  <2>3. QED
    BY <2>1, <2>2 DEF StoresInv
<1>2. NotStarted \in Workflow
  BY 0 \in Nat, 1 \in Nat \ {0}, FALSE \in BOOLEAN DEF NotStarted, Workflow, Place
<1>3. SagaTypeOK
  BY <1>2 DEF SagaInit, SagaTypeOK, NotStarted
<1>4. ASSUME NEW o \in Orders PROVE OrderInv(o)
  <2>1. /\ wf[o] = NotStarted /\ orders[o] = AbsentRow /\ trail[o] = <<>>
        /\ payments[o] = NoPayment /\ refunding[o] = 0 /\ announced[o] = {}
        /\ counted = {} /\ late = {} /\ handlers = {} /\ reports = {}
        /\ Holding(o) = {} /\ \A c \in AuthCall : auth[c] = "unsent"
    BY NoneAssumption DEF SagaInit, OrdersInit, PayInit, FleetInit, Holding
  <2>2. StageFits(o) /\ MoneyFits(o) /\ AnswerFits(o) /\ ReportsFit(o) /\ CarrierFits(o)
    BY <2>1 DEF NotStarted, AbsentRow, NoPayment, StageFits, MoneyFits, AnswerFits, ReportsFit,
                CarrierFits
  <2>3. HistoryFits(o)
    BY <2>1, EmptySeq DEF HistoryFits, HasEntered
  <2>4. QED
    BY <2>1, <2>2, <2>3 DEF OrderInv, CallFits
<1>5. QED
  BY <1>1, <1>3, <1>4 DEF SagaInv

LEMMA SagaStep ==
    ASSUME SagaInv, [Next]_vars
    PROVE  SagaInv' /\ StoreStep
<1>1. CASE UNCHANGED vars
  <2>1. UNCHANGED <<orderVars, payVars, riders, wf, handlers, reports, late, announced>>
    BY <1>1 DEF vars, sagaVars
  <2>2. StoreStep
    BY <2>1 DEF StoreStep
  <2>3. ASSUME NEW o \in Orders PROVE OrderInv(o)'
    <3>1. Untouched(o)
      BY <2>1 DEF Untouched
    <3>2. QED
      BY <3>1, UntouchedFits DEF SagaInv
  <2>4. SagaTypeOK'
    BY <2>1 DEF SagaInv, SagaTypeOK
  <2>5. StoresInv'
    BY <2>2, TrailStep, PayStep, FleetTypeStep DEF SagaInv, StoresInv, StoreStep
  <2>6. QED
    BY <2>2, <2>3, <2>4, <2>5 DEF SagaInv
<1>2. ASSUME NEW o \in Orders, OrderStep(o) PROVE SagaInv' /\ StoreStep
  <2>1. StoreStep
    BY <1>2, StoreSteps DEF SagaInv
  <2>2. StepFits(o)
    BY <1>2, OrderStepFits
  <2>3. \A p \in Orders \ {o} : OrderInv(p)'
    BY <2>2, UntouchedFits DEF StepFits, SagaInv
  <2>4. StoresInv'
    BY <2>1, TrailStep, PayStep, FleetTypeStep DEF SagaInv, StoresInv, StoreStep
  <2>5. QED
    BY <2>1, <2>2, <2>3, <2>4 DEF SagaInv, StepFits
<1>3. QED
  BY <1>1, <1>2, NextIsOrderStep DEF SagaInv

LEMMA SagaInvariant == SagaSpec => []SagaInv
  BY SagaInitially, SagaStep, PTL DEF SagaSpec

-----------------------------------------------------------------------------
(* The databases.                                                          *)

\* The workflows, with all their retries, late requests and crashes, do nothing
\* to the three databases but what these allow.
THEOREM SagaImplementsStores == SagaSpec => OrdersSpec /\ PaySpec /\ FleetSpec
<1>1. SagaInit => OrdersInit /\ PayInit /\ FleetInit
  BY DEF SagaInit
<1>2. SagaInv /\ [Next]_vars => [OrdersNext]_orderVars /\ [PayNext]_payVars /\ [FleetNext]_riders
  BY SagaStep DEF StoreStep
<1>3. QED
  BY <1>1, <1>2, SagaInvariant, PTL DEF SagaSpec, OrdersSpec, PaySpec, FleetSpec

\* So whatever is lost, retried or late, the saga puts a card before the gateway
\* at most once per order, gives an order to one rider at a time, and leaves a
\* trail that only moves forward and ends in the order's status.
THEOREM SagaKeepsTheBooks ==
    SagaSpec => [](ChargedAtMostOnce /\ OneRiderPerOrder /\ TrailTellsStatus /\ TrailMovesForward)
  BY SagaImplementsStores, NeverChargedTwice, NeverTwoRiders, TrailIsTrue, TrailIsMonotone, PTL

-----------------------------------------------------------------------------
(* What the saga must never get wrong.                                     *)

\* An order beyond 'created' is paid for, and a delivered one was accepted,
\* assigned and reported, and keeps its payment.
THEOREM WhatIsServedIsEarned == SagaSpec => []ServedIsEarned
<1>1. ASSUME SagaInv, NEW o \in Orders
      PROVE  /\ HasEntered(o, "confirmed") => payments[o].status \in {"authorized", "refunded"}
             /\ orders[o].status = "delivered" =>
                   /\ orders[o].decision = "accepted"
                   /\ orders[o].reported = "delivered"
                   /\ orders[o].rider # None
                   /\ ~GivenBack(o)
  <2>1. MoneyFits(o) /\ AnswerFits(o) /\ ReportsFit(o) /\ HistoryFits(o)
    BY <1>1 DEF SagaInv, OrderInv
  <2>2. HasEntered(o, "confirmed") => payments[o].status \in {"authorized", "refunded"}
    BY <2>1 DEF HistoryFits, PaidFor
  <2>3. ASSUME orders[o].status = "delivered"
        PROVE  /\ orders[o].decision = "accepted" /\ orders[o].reported = "delivered"
               /\ orders[o].rider # None
    BY <2>1, <2>3 DEF AnswerFits, ReportsFit
  <2>4. ASSUME orders[o].status = "delivered" PROVE ~GivenBack(o)
    <3>1. payments[o].status # "refunded" /\ refunding[o] = 0
      BY <2>1, <2>4 DEF MoneyFits
    <3>2. QED
      BY <3>1 DEF GivenBack
  <2>5. QED
    BY <2>2, <2>3, <2>4
<1>2. SagaInv => ServedIsEarned
  BY <1>1 DEF ServedIsEarned
<1>3. QED
  BY <1>2, SagaInvariant, PTL

\* A finished saga leaves the order and the money in agreement.
THEOREM WhatIsFinishedIsSettled == SagaSpec => []FinishedIsSettled
<1>1. ASSUME SagaInv, NEW o \in Orders, wf[o].pc = "finished"
      PROVE  \/ orders[o].status = "delivered" /\ payments[o].status = "authorized"
             \/ orders[o].status = "cancelled" /\ payments[o].status = "refunded"
             \/ orders[o].status = "compensation_failed"
  <2>1. StageFits(o) /\ MoneyFits(o)
    BY <1>1 DEF SagaInv, OrderInv
  <2>2. orders[o].status \in Terminal
    BY <1>1, <2>1 DEF StageFits
  <2>3. CASE wf[o].reason = "none"
    BY <1>1, <2>1, <2>3 DEF MoneyFits, PaidFor
  <2>4. CASE wf[o].reason # "none"
    BY <2>1, <2>2, <2>4 DEF MoneyFits, Terminal
  <2>5. QED
    BY <2>3, <2>4
<1>2. SagaInv => FinishedIsSettled
  BY <1>1 DEF FinishedIsSettled, At
<1>3. QED
  BY <1>2, SagaInvariant, PTL

\* The workflow never acts on another answer than the order's row holds.
THEOREM TheDecisionsAgree == SagaSpec => []DecisionAgrees
<1>1. SagaInv => DecisionAgrees
  BY DEF SagaInv, OrderInv, AnswerFits, DecisionAgrees
<1>2. QED
  BY <1>1, SagaInvariant, PTL

\* From the claim until a release is asked for, the order is its rider's.
THEOREM TheCarrierHolds == SagaSpec => []CarrierHolds
<1>1. SagaInv => CarrierHolds
  BY DEF SagaInv, OrderInv, CarrierFits, CarrierHolds, Delivering, Releases
<1>2. QED
  BY <1>1, SagaInvariant, PTL

\* Kafka is told of nothing that did not happen.
THEOREM WhatIsAnnouncedHappened == SagaSpec => []AnnouncedHappened
<1>1. ASSUME SagaInv, NEW o \in Orders, NEW e \in announced[o]
      PROVE  CASE e = "kitchen.decided"    -> orders[o].decision # "none"
               [] e = "payment.authorized" -> charges[o] = 1
               [] e = "payment.refunded"   -> payments[o].status = "refunded"
               [] e \in Undone             -> orders[o].status \in Undone
               [] OTHER                    -> HasEntered(o, e)
  <2>1. HistoryFits(o) /\ MoneyFits(o)
    BY <1>1 DEF SagaInv, OrderInv
  <2>2. e \in Event
    BY <1>1 DEF SagaInv, SagaTypeOK
  <2>3. PaidFor(o) => charges[o] = 1
    BY <2>1 DEF MoneyFits
  <2>4. QED
    BY <1>1, <2>1, <2>2, <2>3 DEF HistoryFits, Event, Undone, OrderStatus
<1>2. SagaInv => AnnouncedHappened
  BY <1>1 DEF AnnouncedHappened
<1>3. QED
  BY <1>2, SagaInvariant, PTL

-----------------------------------------------------------------------------
(* What is published, while nothing is lost.                               *)

\* What the workflow is about to publish.
Pending(o) == IF wf[o].pc \in DOMAIN Announces THEN {Announces[wf[o].pc]} ELSE {}

\* Whatever the order has entered is published, or about to be; and an order is
\* counted for its rail only while its workflow is about to confirm it.
Published(o) == \A e \in OrderStatus : HasEntered(o, e) => e \in announced[o] \cup Pending(o)
CountedFits(o) == o \in counted => wf[o].pc = "confirm" /\ wf[o].begun

PublishedInv ==
    /\ faults \in Nat
    /\ faults = 0 => late = {} /\ \A o \in Orders : Published(o) /\ CountedFits(o)

Told(o) == Published(o) /\ CountedFits(o)

\* The workflow's place stays, or was none to publish or to confirm at.
Passes(o) ==
    \/ wf'[o].pc = wf[o].pc /\ wf'[o].begun = wf[o].begun
    \/ wf[o].pc \notin DOMAIN Announces \cup {"confirm"}

\* A step that enters no status.
LEMMA NothingEntered ==
    ASSUME NEW o \in Orders, Told(o), trail' = trail, announced[o] \subseteq announced'[o],
           counted' = counted, Passes(o)
    PROVE  Told(o)'
<1>1. \A e \in OrderStatus : HasEntered(o, e)' <=> HasEntered(o, e)
  BY DEF HasEntered
<1>2. Pending(o)' = Pending(o) \/ Pending(o) = {}
  BY DEF Pending, Passes
<1>3. Published(o)'
  BY <1>1, <1>2 DEF Told, Published
<1>4. CountedFits(o)'
  BY DEF Told, CountedFits, Passes
<1>5. QED
  BY <1>3, <1>4 DEF Told

\* A step that enters the status its workflow is then to publish, or finds that
\* it cannot.
LEMMA OneEntered ==
    ASSUME NEW o \in Orders, Told(o), OrdersTypeOK, wf[o].pc \notin DOMAIN Announces,
           NEW s \in OrderStatus, NEW r,
           EntersNow(o, s, r) \/ trail' = trail,
           wf'[o].pc \in DOMAIN Announces, Announces[wf'[o].pc] = s,
           announced' = announced, o \notin counted'
    PROVE  Told(o)'
<1>1. \A e \in OrderStatus : HasEntered(o, e)' => HasEntered(o, e) \/ e = s
  BY DEF EntersNow, HasEntered
<1>2. Pending(o) = {} /\ Pending(o)' = {s}
  BY DEF Pending
<1>3. Published(o)'
  BY <1>1, <1>2 DEF Told, Published
<1>4. QED
  BY <1>3 DEF Told, CountedFits

LEMMA EnteringTells ==
    ASSUME SagaInv, NEW o \in Orders, Told(o),
           CreateOrder(o) \/ TransitionOrder(o) \/ JoinRail(o)
    PROVE  Told(o)'
<1>0. /\ SagaTypeOK /\ OrdersTypeOK /\ wf[o] \in Workflow /\ wf \in [Orders -> Workflow]
  BY DEF SagaInv, StoresInv, TrailInv, SagaTypeOK
<1>1. CASE CreateOrder(o)
  <2>1. wf[o].pc = "create" /\ announced' = announced /\ o \notin counted
    BY <1>1 DEF CreateOrder, At, Told, CountedFits
  <2>2. "create" \notin DOMAIN Announces \cup {"confirm"}
    BY AnnouncesSpeltOut
  <2>3. CASE InsertOrder(o) /\ wf' = [wf EXCEPT ![o] = [To(@, "pub_created") EXCEPT !.owner = TRUE]]
    <3>1. EntersNow(o, "created", None) /\ counted' = counted
      BY <1>0, <2>3, InsertFacts
    <3>2. "pub_created" \in DOMAIN Announces /\ Announces["pub_created"] = "created"
          /\ "pub_created" \in Place /\ "created" \in OrderStatus
      BY AnnouncesSpeltOut DEF Place, OrderStatus
    <3>3. wf'[o].pc = "pub_created"
      <4>1. To(wf[o], "pub_created") \in Workflow /\ To(wf[o], "pub_created").pc = "pub_created"
        BY <1>0, <3>2, ToFacts
      <4>2. wf'[o] = [To(wf[o], "pub_created") EXCEPT !.owner = TRUE]
        BY <1>0, <2>3
      <4>3. QED
        BY <4>1, <4>2 DEF Workflow
    <3>4. QED
      BY <1>0, <2>1, <2>2, <3>1, <3>2, <3>3, OneEntered
  <2>4. CASE UNCHANGED orderVars
    BY <2>1, <2>2, <2>4, NothingEntered DEF Passes
  <2>5. QED
    BY <1>1, <2>3, <2>4 DEF CreateOrder
<1>2. CASE TransitionOrder(o)
  <2> DEFINE s == wf[o].pc
             n == Enters[s]
             r == IF s = "assign" THEN wf[o].rider ELSE None
             p == PublishOf[s]
  <2>1. /\ s \in DOMAIN Enters \ {"confirm"} /\ announced' = announced
        /\ Transition(o, n, r) /\ Goes(o, p)
    BY <1>2 DEF TransitionOrder
  <2>2. /\ s \notin DOMAIN Announces /\ p \in DOMAIN Announces /\ Announces[p] = n
        /\ n \in OrderStatus
    BY <2>1, StepsSpeltOut, AnnouncesSpeltOut DEF OrderStatus
  <2>3. r \in Riders \cup {None} /\ p \in Place
    BY <1>0, <2>2 DEF Workflow, Place
  <2>4. wf'[o].pc = p
    BY <1>0, <2>1, <2>3, GoesFacts
  <2> HIDE DEF n, r, p
  <2>5. counted' = counted /\ (EntersNow(o, n, r) \/ trail' = trail)
    BY <1>0, <2>1, <2>2, <2>3, TransitionFacts
  <2>6. o \notin counted
    BY <2>1 DEF Told, CountedFits
  <2>7. QED
    BY <1>0, <2>1, <2>2, <2>4, <2>5, <2>6, OneEntered
<1>3. CASE JoinRail(o)
  <2>1. wf[o].pc = "confirm" /\ announced' = announced /\ ConfirmCounted(o)
        /\ Goes(o, "pub_confirmed")
    BY <1>3 DEF JoinRail, At
  <2>2. /\ "confirm" \notin DOMAIN Announces /\ "pub_confirmed" \in DOMAIN Announces
        /\ Announces["pub_confirmed"] = "confirmed"
        /\ "confirmed" \in OrderStatus /\ "pub_confirmed" \in Place
    BY AnnouncesSpeltOut DEF OrderStatus, Place
  <2>3. wf'[o].pc = "pub_confirmed"
    BY <1>0, <2>1, <2>2, GoesFacts
  <2>4. o \notin counted' /\ (EntersNow(o, "confirmed", None) \/ trail' = trail)
    BY <1>0, <2>1, ConfirmFacts
  <2>5. QED
    BY <1>0, <2>1, <2>2, <2>3, <2>4, OneEntered
<1>4. QED
  BY <1>1, <1>2, <1>3

LEMMA PublishTells ==
    ASSUME SagaInv, NEW o \in Orders, Told(o), Publish(o)
    PROVE  Told(o)'
<1> DEFINE e == Announces[wf[o].pc]
<1>1. /\ trail' = trail /\ counted' = counted
      /\ wf[o].pc \in DOMAIN Announces
      /\ announced' = [announced EXCEPT ![o] = @ \cup {e}]
  BY DEF Publish
<1>2. announced'[o] = announced[o] \cup {e} /\ Pending(o) = {e}
  BY <1>1 DEF SagaInv, SagaTypeOK, Pending
<1>3. wf[o].pc # "confirm"
  BY <1>1, AnnouncesSpeltOut
<1>4. \A t \in OrderStatus : HasEntered(o, t)' <=> HasEntered(o, t)
  BY <1>1 DEF HasEntered
<1> HIDE DEF e
<1>5. QED
  BY <1>1, <1>2, <1>3, <1>4 DEF Told, Published, CountedFits

LEMMA RailTells ==
    ASSUME SagaInv, NEW o \in Orders, Told(o), CountOnRail(o)
    PROVE  Told(o)'
<1>1. /\ trail' = trail /\ announced' = announced /\ wf[o].pc = "confirm" /\ ~wf[o].begun
      /\ \/ wf' = [wf EXCEPT ![o].begun = TRUE]
         \/ Compensates(o, "kitchen_at_capacity") /\ counted' = counted
  BY DEF CountOnRail, CountRail, At
<1>2. wf[o] \in Workflow /\ wf \in [Orders -> Workflow] /\ SagaTypeOK
  BY DEF SagaInv, SagaTypeOK
<1>3. o \notin counted /\ Pending(o) = {}
  BY <1>1, AnnouncesSpeltOut DEF Told, CountedFits, Pending
<1>4. Published(o)'
  BY <1>1, <1>3 DEF Told, Published, HasEntered
<1>5. CountedFits(o)'
  <2>1. CASE wf' = [wf EXCEPT ![o].begun = TRUE]
    BY <1>1, <1>2, <2>1 DEF CountedFits, Workflow
  <2>2. CASE counted' = counted
    BY <1>3, <2>2 DEF CountedFits
  <2>3. QED
    BY <1>1, <2>1, <2>2
<1>6. QED
  BY <1>4, <1>5 DEF Told

LEMMA QuietTells ==
    ASSUME SagaInv, NEW o \in Orders, Told(o), faults = 0, faults' = 0, late = {}, OrderStep(o),
           ~(CreateOrder(o) \/ TransitionOrder(o) \/ JoinRail(o) \/ Publish(o) \/ CountOnRail(o))
    PROVE  Told(o)' /\ late' = {}
<1>0. /\ SagaTypeOK /\ OrdersTypeOK /\ wf[o] \in Workflow /\ wf \in [Orders -> Workflow]
      /\ announced \in [Orders -> SUBSET Event]
  BY DEF SagaInv, StoresInv, TrailInv, SagaTypeOK
<1>1. /\ {"none", "refused", "create_failed", "returned", "authorize", "await_kitchen",
          "read_decision", "dispatch", "await_pickup", "await_delivery", "read_pickup",
          "read_delivery", "release_delivered", "release_failed", "refund"}
           \cap (DOMAIN Announces \cup {"confirm"}) = {}
  BY AnnouncesSpeltOut
<1>2. CASE Checkout(o) \/ Progress(o)
  <2>1. /\ trail' = trail /\ counted' = counted /\ late' = {}
        /\ wf' = wf \/ wf[o].pc \notin DOMAIN Announces \cup {"confirm"}
    <3>1. CASE Checkout(o) \/ SendAuthorize(o) \/ ServeAuthorize(o) \/ AuthorizeAnswered(o)
      BY <1>1, <3>1 DEF Checkout, SendAuthorize, ServeAuthorize, AuthorizeAnswered, At, aside, sagaVars
    <3>2. CASE \/ KitchenAnswered(o) \/ KitchenTimer(o) \/ ReadDecision(o) \/ RiderSignalled(o)
               \/ DeliveryTimer(o) \/ ReadReport(o)
      BY <1>1, <3>2 DEF KitchenAnswered, KitchenTimer, ReadDecision, RiderSignalled, DeliveryTimer,
                        ReadReport, At, aside
    <3>3. CASE DispatchRider(o) \/ ReleaseRider(o) \/ SendRefund(o) \/ RefundAnswered(o)
      BY <1>1, <3>3 DEF DispatchRider, ReleaseRider, SendRefund, RefundAnswered, At, aside
    <3>4. QED
      BY <1>2, <3>1, <3>2, <3>3 DEF Progress
  <2>2. announced[o] \subseteq announced'[o]
    <3>1. CASE AuthorizeAnswered(o)
      BY <1>0, <3>1 DEF AuthorizeAnswered
    <3>2. CASE RefundAnswered(o)
      BY <1>0, <3>2 DEF RefundAnswered
    <3>3. CASE ~AuthorizeAnswered(o) /\ ~RefundAnswered(o)
      BY <1>2, <3>3 DEF Progress, Checkout, SendAuthorize, ServeAuthorize, KitchenAnswered,
                        KitchenTimer, ReadDecision, RiderSignalled, DeliveryTimer, ReadReport,
                        DispatchRider, ReleaseRider, SendRefund, sagaVars
    <3>4. QED
      BY <3>1, <3>2, <3>3
  <2>3. QED
    BY <2>1, <2>2, NothingEntered DEF Passes
<1>3. CASE FinishLate(o)
  <2>1. ~(Current(o, "confirm") = 0 /\ ConfirmCounted(o))
    BY <1>0, ConfirmFacts DEF Told, CountedFits, Current, At
  <2>2. UNCHANGED <<orderVars, sagaVars>>
    BY <1>3, <2>1 DEF FinishLate
  <2>3. QED
    BY <2>2, NothingEntered DEF Passes, sagaVars
<1>4. CASE \/ \E d \in Decision : KitchenClicks(o, d)
           \/ \E g \in ReportStage : RiderReports(o, g)
           \/ \E c \in AuthCall : c.order = o /\ (ServeUnwaited(c) \/ PayManually(c))
  <2>1. UNCHANGED <<orderVars, wf, announced, late>>
    BY <1>4 DEF KitchenClicks, RiderReports, ServeUnwaited, PayManually, sagaVars
  <2>2. QED
    BY <2>1, NothingEntered DEF Passes
<1>5. ASSUME NEW h \in handlers, h.order = o, HandlerDecides(h) \/ HandlerPublishes(h)
      PROVE  Told(o)' /\ late' = {}
  <2>1. CASE HandlerDecides(h)
    <3>1. trail' = trail /\ counted' = counted /\ UNCHANGED <<wf, announced, late>>
      BY <1>5, <2>1 DEF HandlerDecides, DecideKitchen
    <3>2. QED
      BY <3>1, NothingEntered DEF Passes
  <2>2. CASE HandlerPublishes(h)
    <3>1. trail' = trail /\ counted' = counted /\ late' = late
      BY <2>2 DEF HandlerPublishes
    <3>2. wf'[o].pc = wf[o].pc /\ wf'[o].begun = wf[o].begun /\ announced[o] \subseteq announced'[o]
      BY <1>0, <1>5, <2>2 DEF HandlerPublishes, Workflow
    <3>3. QED
      BY <3>1, <3>2, NothingEntered DEF Passes
  <2>3. QED
    BY <1>5, <2>1, <2>2
<1>6. ASSUME NEW x \in reports, x.order = o, RecordReport(x) \/ SignalReport(x)
      PROVE  Told(o)' /\ late' = {}
  <2>1. /\ trail' = trail /\ counted' = counted /\ UNCHANGED <<announced, late>>
    BY <1>6 DEF RecordReport, SignalReport, RecordRiderReport
  <2>2. wf'[o].pc = wf[o].pc /\ wf'[o].begun = wf[o].begun
    <3> DEFINE v == Reported(wf[o], x.stage)
    <3>1. v.pc = wf[o].pc /\ v.begun = wf[o].begun
      BY <1>0 DEF Reported, Workflow
    <3>2. wf' = wf \/ wf' = [wf EXCEPT ![o] = v]
      BY <1>6 DEF RecordReport, SignalReport
    <3> HIDE DEF v
    <3>3. QED
      BY <1>0, <3>1, <3>2
  <2>3. QED
    BY <2>1, <2>2, NothingEntered DEF Passes
<1>7. ASSUME \/ LoseAttempt(o) \/ CrashPayment(o)
             \/ \E h \in handlers : LoseDecision(h)
             \/ \E x \in reports : LoseReport(x)
             \/ \E q \in late : ExecuteLate(q)
      PROVE  FALSE
  BY <1>7 DEF LoseAttempt, CrashPayment, LoseDecision, LoseReport, Fault
<1>8. QED
  BY <1>2, <1>3, <1>4, <1>5, <1>6, <1>7 DEF OrderStep

\* Only a lost attempt adds to what has been lost, and one never takes back another.
LEMMA FaultsAreCounted ==
    ASSUME faults \in Nat, NEW o \in Orders, OrderStep(o)
    PROVE  faults' \in Nat /\ (faults' = 0 => faults = 0)
<1>1. faults' = faults \/ faults' = faults + 1
  BY DEF OrderStep, Progress, CreateOrder, Publish, TransitionOrder, CountOnRail, JoinRail,
         SendAuthorize, ServeAuthorize, AuthorizeAnswered, KitchenAnswered, KitchenTimer,
         ReadDecision, DispatchRider, RiderSignalled, DeliveryTimer, ReadReport,
         ReleaseRider, SendRefund, RefundAnswered, Checkout, FinishLate, LoseAttempt,
         CrashPayment, KitchenClicks, RiderReports, HandlerDecides, HandlerPublishes,
         LoseDecision, RecordReport, SignalReport, LoseReport, ExecuteLate, ServeUnwaited,
         PayManually, Fault, aside, sagaVars
<1>2. QED
  BY <1>1

LEMMA PublishedStep ==
    ASSUME SagaInv, PublishedInv, [Next]_vars
    PROVE  PublishedInv'
<1>1. CASE UNCHANGED vars
  BY <1>1 DEF vars, sagaVars, PublishedInv, Published, CountedFits, HasEntered, Pending
<1>2. ASSUME NEW o \in Orders, OrderStep(o) PROVE PublishedInv'
  <2>1. faults' \in Nat /\ (faults' = 0 => faults = 0)
    BY <1>2, FaultsAreCounted DEF PublishedInv
  <2>2. ASSUME faults' = 0 PROVE late' = {} /\ \A p \in Orders : Told(p)'
    <3>1. faults = 0 /\ late = {} /\ \A p \in Orders : Told(p)
      BY <2>1, <2>2 DEF PublishedInv, Told
    <3>2. \A p \in Orders \ {o} : Untouched(p)
      BY <1>2, OrderStepFits DEF StepFits
    <3>3. ASSUME NEW p \in Orders \ {o} PROVE Told(p)'
      BY <3>1, <3>2 DEF Untouched, Told, Published, CountedFits, HasEntered, Pending
    <3>4. CASE CreateOrder(o) \/ TransitionOrder(o) \/ JoinRail(o) \/ Publish(o) \/ CountOnRail(o)
      <4>1. Told(o)'
        BY <3>1, <3>4, EnteringTells, PublishTells, RailTells
      <4>2. late' = late
        BY <3>4 DEF CreateOrder, TransitionOrder, JoinRail, Publish, CountOnRail, aside
      <4>3. QED
        BY <3>1, <3>3, <4>1, <4>2
    <3>5. CASE ~(CreateOrder(o) \/ TransitionOrder(o) \/ JoinRail(o) \/ Publish(o) \/ CountOnRail(o))
      BY <1>2, <2>2, <3>1, <3>3, <3>5, QuietTells
    <3>6. QED
      BY <3>4, <3>5
  <2>3. QED
    BY <2>1, <2>2 DEF PublishedInv, Told
<1>3. QED
  BY <1>1, <1>2, NextIsOrderStep DEF SagaInv

LEMMA PublishedInvariant == SagaSpec => []PublishedInv
<1>1. SagaInit => PublishedInv
  BY EmptySeq DEF SagaInit, OrdersInit, PublishedInv, Published, CountedFits, HasEntered
<1>2. QED
  BY <1>1, PublishedStep, SagaInvariant, PTL DEF SagaSpec

\* While nothing is lost, whatever an order has entered by the time its saga ends
\* is in Kafka.
THEOREM WhatHappenedIsPublished == SagaSpec => []HistoryIsPublished
<1>1. SagaInv /\ PublishedInv => HistoryIsPublished
  <2> SUFFICES ASSUME SagaInv, PublishedInv, faults = 0, NEW o \in Orders,
                      wf[o].pc \in {"finished", "declined"}, NEW i \in 1..Len(trail[o])
               PROVE  trail[o][i].new \in announced[o]
    BY DEF HistoryIsPublished, At
  <2>1. trail[o][i] \in TrailEntry
    BY ElementOfSeq, LenProperties DEF SagaInv, StoresInv, TrailInv, OrdersTypeOK
  <2>2. trail[o][i].new \in OrderStatus
    BY <2>1 DEF TrailEntry
  <2>3. Pending(o) = {}
    BY AnnouncesSpeltOut DEF Pending
  <2>4. QED
    BY <2>2, <2>3 DEF PublishedInv, Published, HasEntered
<1>2. QED
  BY <1>1, SagaInvariant, PublishedInvariant, PTL

-----------------------------------------------------------------------------
(* The lifecycle.                                                          *)

\* The cause an outsider sees can be read off the row and the payment.
Cause(st, m) ==
    IF st \notin Undone THEN "none"
    ELSE IF st = "cancelled" /\ m # "refunded" THEN "payment" ELSE "saga"

LEMMA WhyIs ==
    ASSUME NEW o \in Orders, MoneyFits(o)
    PROVE  Why(o) = Cause(orders[o].status, payments[o].status)
<1> DEFINE st == orders[o].status
           m == payments[o].status
<1>1. /\ wf[o].reason # "none" /\ st = "cancelled" => m = "refunded"
      /\ wf[o].reason = "none" => m # "refunded" /\ st # "compensation_failed"
  BY DEF MoneyFits
<1> HIDE DEF st, m
<1>2. Why(o) = IF st \notin Undone THEN "none"
               ELSE IF wf[o].reason = "none" THEN "payment" ELSE "saga"
  BY DEF Why, st
<1>3. QED
  BY <1>1, <1>2 DEF Undone, Cause, st, m

\* The money an outsider sees.
Coins(m) == CASE m = "authorized" -> "taken" [] m = "refunded" -> "returned" [] OTHER -> "kept"

LEMMA ViewIsOfRows ==
    ASSUME SagaInv, NEW o \in Orders
    PROVE  /\ Why(o) = Cause(orders[o].status, payments[o].status)
           /\ SagaInv' => Why(o)' = Cause(orders'[o].status, payments'[o].status)
<1>1. Why(o) = Cause(orders[o].status, payments[o].status)
  BY WhyIs DEF SagaInv, OrderInv
<1>2. MoneyFits(o)' => (Why(o) = Cause(orders[o].status, payments[o].status))'
  BY WhyIs, PTL
<1>3. (Why(o) = Cause(orders[o].status, payments[o].status))' =>
        Why(o)' = Cause(orders'[o].status, payments'[o].status)
  OBVIOUS
<1>4. QED
  BY <1>1, <1>2, <1>3 DEF SagaInv, OrderInv

\* No other order looks different.
OthersSame(o) ==
    \A p \in Orders \ {o} : /\ orders'[p].status = orders[p].status
                            /\ orders'[p].decision = orders[p].decision
                            /\ payments'[p].status = payments[p].status

LEMMA OneOrderSeen ==
    ASSUME SagaInv, SagaInv', NEW o \in Orders, OthersSame(o),
           NEW st, st = orders'[o].status, NEW d, d = orders'[o].decision,
           NEW m, m = payments'[o].status
    PROVE  /\ Stages' = [Stages EXCEPT ![o] = st]
           /\ Answers' = [Answers EXCEPT ![o] = d]
           /\ Moneys' = [Moneys EXCEPT ![o] = Coins(m)]
           /\ Causes' = [Causes EXCEPT ![o] = Cause(st, m)]
<1> USE DEF OthersSame
<1>1. Stages' = [Stages EXCEPT ![o] = st]
  BY DEF Stages
<1>2. Answers' = [Answers EXCEPT ![o] = d]
  BY DEF Answers
<1>3. Moneys' = [Moneys EXCEPT ![o] = Coins(m)]
  BY DEF Moneys, Coins
<1>4. Causes' = [Causes EXCEPT ![o] = Cause(st, m)]
  <2>1. \A p \in Orders : /\ Why(p) = Cause(orders[p].status, payments[p].status)
                         /\ Why(p)' = Cause(orders'[p].status, payments'[p].status)
    BY ViewIsOfRows
  <2>2. \A p \in Orders \ {o} : Why(p)' = Why(p)
    BY <2>1
  <2>3. Why(o)' = Cause(st, m)
    BY <2>1
  <2>4. Causes' = [p \in Orders |-> Why(p)']
    BY DEF Causes
  <2>5. QED
    BY <2>2, <2>3, <2>4 DEF Causes
<1>5. QED
  BY <1>1, <1>2, <1>3, <1>4

\* The view of one order, before the step.
LEMMA SeenOf ==
    ASSUME SagaInv, NEW o \in Orders
    PROVE  /\ Stages[o] = orders[o].status /\ Answers[o] = orders[o].decision
           /\ Moneys[o] = Coins(payments[o].status)
           /\ Causes[o] = Cause(orders[o].status, payments[o].status)
           /\ [Stages EXCEPT ![o] = Stages[o]] = Stages
           /\ [Answers EXCEPT ![o] = Answers[o]] = Answers
           /\ [Moneys EXCEPT ![o] = Moneys[o]] = Moneys
           /\ [Causes EXCEPT ![o] = Causes[o]] = Causes
<1>1. Why(o) = Cause(orders[o].status, payments[o].status)
  BY ViewIsOfRows
<1>2. QED
  BY <1>1 DEF Stages, Answers, Moneys, Causes, Coins

LEMMA NothingSeen ==
    ASSUME SagaInv, SagaInv', NEW o \in Orders, OthersSame(o),
           orders'[o].status = orders[o].status, orders'[o].decision = orders[o].decision,
           payments'[o].status = payments[o].status
    PROVE  UNCHANGED Lifecycle!orderView
<1>1. ASSUME NEW st, st = orders[o].status, NEW d, d = orders[o].decision,
             NEW m, m = payments[o].status
      PROVE  UNCHANGED <<Stages, Answers, Moneys, Causes>>
  <2>1. /\ Stages' = [Stages EXCEPT ![o] = st]
        /\ Answers' = [Answers EXCEPT ![o] = d]
        /\ Moneys' = [Moneys EXCEPT ![o] = Coins(m)]
        /\ Causes' = [Causes EXCEPT ![o] = Cause(st, m)]
    BY <1>1, OneOrderSeen
  <2>2. QED
    BY <1>1, <2>1, SeenOf
<1>2. QED
  BY <1>1 DEF Lifecycle!orderView

\* The order may enter the status s, as the lifecycle has it.
MayEnter(o, s) ==
    LET st == orders[o].status
        m  == payments[o].status
    IN  \/ s = "created" /\ st = "absent"
        \/ s = "confirmed" /\ st = "created" /\ PaidFor(o)
        \/ /\ st \in {"confirmed", "assigned", "picked_up"} /\ s = Lifecycle!Following[st]
           /\ orders[o].decision = "accepted" /\ m = "authorized"
        \/ s = "cancelled" /\ st = "created" /\ m # "refunded"
        \/ s = "cancelled" /\ st \in Lifecycle!Open /\ m = "refunded"
        \/ s = "compensation_failed" /\ st \in Lifecycle!Open /\ PaidFor(o)

LEMMA EnteringSeen ==
    ASSUME SagaInv, SagaInv', NEW o \in Orders, NEW s \in OrderStatus, NEW r,
           EntersNow(o, s, r), payments' = payments, MayEnter(o, s)
    PROVE  Lifecycle!LifeStep(o)
<1> DEFINE st == orders[o].status
           m == payments[o].status
<1>1. OthersSame(o) /\ orders'[o].status = s /\ orders'[o].decision = orders[o].decision
  BY DEF EntersNow, OthersSame
<1>2. ASSUME NEW d, d = orders[o].decision, NEW n, n = payments[o].status
      PROVE  /\ Stages' = [Stages EXCEPT ![o] = s]
             /\ Answers' = [Answers EXCEPT ![o] = d]
             /\ Moneys' = [Moneys EXCEPT ![o] = Coins(n)]
             /\ Causes' = [Causes EXCEPT ![o] = Cause(s, n)]
  BY <1>1, <1>2, OneOrderSeen
<1>3. /\ Stages[o] = st /\ Answers[o] = orders[o].decision /\ Moneys[o] = Coins(m)
      /\ Causes[o] = Cause(st, m)
      /\ Stages' = [Stages EXCEPT ![o] = s]
      /\ Answers' = Answers /\ Moneys' = Moneys
      /\ Causes' = [Causes EXCEPT ![o] = Cause(s, m)]
      /\ Cause(s, m) = Cause(st, m) => Causes' = Causes
  BY <1>2, SeenOf
<1> HIDE DEF st, m
<1>4. m \in {"none", "pending", "authorized", "refunded"}
  BY DEF SagaInv, StoresInv, PayInv, PayTypeOK, PaymentRow, m
<1>5. CASE s = "created" /\ st = "absent"
  <2>1. Cause(s, m) = Cause(st, m)
    BY <1>5 DEF Cause, Undone
  <2>2. Lifecycle!Place(o)
    BY <1>3, <1>5, <2>1 DEF Lifecycle!Place
  <2>3. QED
    BY <2>2 DEF Lifecycle!LifeStep
<1>6. CASE s = "confirmed" /\ st = "created" /\ PaidFor(o)
  <2>1. Cause(s, m) = Cause(st, m) /\ Coins(m) # "kept"
    BY <1>4, <1>6 DEF Cause, Undone, Coins, PaidFor, m
  <2>2. Lifecycle!Confirm(o)
    BY <1>3, <1>6, <2>1 DEF Lifecycle!Confirm
  <2>3. QED
    BY <2>2 DEF Lifecycle!LifeStep
<1>7. CASE /\ st \in {"confirmed", "assigned", "picked_up"} /\ s = Lifecycle!Following[st]
           /\ orders[o].decision = "accepted" /\ m = "authorized"
  <2>1. s \in {"assigned", "picked_up", "delivered"}
    BY <1>7 DEF Lifecycle!Following
  <2>2. Cause(s, m) = Cause(st, m) /\ Coins(m) = "taken" /\ st \in DOMAIN Lifecycle!Following
    BY <1>7, <2>1 DEF Cause, Undone, Coins, Lifecycle!Following
  <2>3. Stages' = [Stages EXCEPT ![o] = Lifecycle!Following[Stages[o]]]
    BY <1>3, <1>7
  <2>4. Lifecycle!Advance(o)
    BY <1>3, <1>7, <2>2, <2>3 DEF Lifecycle!Advance
  <2>5. QED
    BY <2>4 DEF Lifecycle!LifeStep
<1>8. CASE s = "cancelled" /\ st = "created" /\ m # "refunded"
  <2>1. Cause(s, m) = "payment" /\ Coins(m) # "returned"
    BY <1>4, <1>8 DEF Cause, Undone, Coins
  <2>2. Lifecycle!Decline(o)
    BY <1>3, <1>8, <2>1 DEF Lifecycle!Decline
  <2>3. QED
    BY <2>2 DEF Lifecycle!LifeStep
<1>9. CASE s = "cancelled" /\ st \in Lifecycle!Open /\ m = "refunded"
  <2>1. Cause(s, m) = "saga" /\ Coins(m) = "returned"
    BY <1>9 DEF Cause, Undone, Coins
  <2>2. Lifecycle!Cancel(o)
    BY <1>3, <1>9, <2>1 DEF Lifecycle!Cancel
  <2>3. QED
    BY <2>2 DEF Lifecycle!LifeStep
<1>10. CASE s = "compensation_failed" /\ st \in Lifecycle!Open /\ PaidFor(o)
  <2>1. Cause(s, m) = "saga" /\ Coins(m) # "kept"
    BY <1>4, <1>10 DEF Cause, Undone, Coins, PaidFor, m
  <2>2. Lifecycle!Flag(o)
    BY <1>3, <1>10, <2>1 DEF Lifecycle!Flag
  <2>3. QED
    BY <2>2 DEF Lifecycle!LifeStep
<1>11. QED
  BY <1>5, <1>6, <1>7, <1>8, <1>9, <1>10 DEF MayEnter, st, m

\* A transition is asked for, by the workflow or late, only where the lifecycle
\* lets it happen, or where the row refuses it.
LEMMA AskedInTurn ==
    ASSUME SagaInv, SagaInv', NEW o \in Orders, NEW s \in DOMAIN Enters \ {"confirm"},
           wf[o].pc = s \/ \E q \in late : q.order = o /\ q.step = s,
           CanMove(o, Enters[s]), payments' = payments,
           orders'[o].status = Enters[s], orders'[o].decision = orders[o].decision
    PROVE  MayEnter(o, Enters[s])
<1> DEFINE st == orders[o].status
           m == payments[o].status
<1>1. OrderInv(o) /\ OrderInv(o)' /\ st \in OrderStatus \cup {"absent"}
  BY DEF SagaInv, StoresInv, TrailInv, OrdersTypeOK, OrderRow
<1>2. /\ StageFits(o) /\ MoneyFits(o)
      /\ \A q \in late : q.order = o => LateFits(q)
      /\ AnswerFits(o)' /\ MoneyFits(o)'
  BY <1>1 DEF OrderInv
<1>3. /\ Exists(o) /\ st \notin Terminal
      /\ Enters[s] \in Undone \/ Rank[Enters[s]] > Rank[st]
  BY DEF CanMove
<1>4. st \in Lifecycle!Open
  BY <1>1, <1>3 DEF Exists, Terminal, Lifecycle!Open, OrderStatus
<1>5. m \in {"none", "pending", "authorized", "refunded"}
  BY DEF SagaInv, StoresInv, PayInv, PayTypeOK, PaymentRow
<1>6. CASE s \in {"assign", "mark_picked_up", "mark_delivered"}
  <2>1. /\ s = "assign" => Enters[s] = "assigned"
        /\ s = "mark_picked_up" => Enters[s] = "picked_up"
        /\ s = "mark_delivered" => Enters[s] = "delivered"
        /\ Enters[s] \notin Undone /\ s \in RiderSteps /\ s \notin Backward
        /\ s \notin {"finished", "broken"}
    BY <1>6, StepsSpeltOut DEF Undone, RiderSteps, Releases, Backward, CompensationSteps
  <2>2. ~(Rank[st] >= Rank[Enters[s]])
    BY <1>3, <1>4, <1>6, <2>1 DEF Rank, OrderStatus, Lifecycle!Open
  <2>3. /\ wf[o].reason = "none"
        /\ s = "assign" => st = "confirmed"
        /\ s = "mark_picked_up" => st = "assigned"
        /\ s = "mark_delivered" => st = "picked_up"
    <3>1. CASE wf[o].pc = s
      <4>1. wf[o].reason = "none"
        BY <1>2, <2>1, <3>1 DEF MoneyFits
      <4>2. /\ s = "assign" => st \in {"confirmed", "assigned"}
            /\ s = "mark_picked_up" => st \in {"assigned", "picked_up"}
            /\ s = "mark_delivered" => st \in {"picked_up", "delivered"}
        BY <1>2, <3>1 DEF StageFits
      <4>3. QED
        BY <1>6, <2>1, <2>2, <4>1, <4>2 DEF Rank, OrderStatus
    <3>2. CASE \E q \in late : q.order = o /\ q.step = s
      <4>1. PICK q \in late : q.order = o /\ q.step = s
        BY <3>2
      <4>2. LateFits(q)
        BY <1>2, <4>1
      <4>3. /\ s = "assign" => InTurn(o, s, "confirmed")
            /\ s = "mark_picked_up" => InTurn(o, s, "assigned")
            /\ s = "mark_delivered" => InTurn(o, s, "picked_up")
        BY <4>1, <4>2 DEF LateFits
      <4>4. QED
        BY <1>6, <2>2, <4>3 DEF InTurn
    <3>3. QED
      BY <3>1, <3>2
  <2>4. orders[o].decision = "accepted"
    BY <1>2, <1>6, <2>1 DEF AnswerFits
  <2>5. m = "authorized"
    <3>1. PaidFor(o) /\ m # "refunded"
      BY <1>2, <1>6, <2>3 DEF MoneyFits
    <3>2. QED
      BY <3>1 DEF PaidFor
  <2>6. st \in {"confirmed", "assigned", "picked_up"} /\ Enters[s] = Lifecycle!Following[st]
    BY <1>6, <2>1, <2>3 DEF Lifecycle!Following
  <2>7. QED
    BY <2>4, <2>5, <2>6 DEF MayEnter
<1>7. CASE s = "cancel_unpaid"
  <2>1. Declined(o) /\ wf[o].reason = "none"
    <3>1. wf[o].pc = s => Declined(o)
      BY <1>7 DEF Declined, Declining
    <3>2. Declined(o)
      BY <1>2, <1>7, <3>1 DEF LateFits
    <3>3. wf[o].pc \in Declining => wf[o].reason = "none"
      BY <1>2 DEF MoneyFits, Declining, Backward, CompensationSteps
    <3>4. QED
      BY <3>2, <3>3 DEF Declined
  <2>2. st \in {"created", "cancelled"} /\ m # "refunded"
    BY <1>2, <2>1 DEF Declined, Declining, StageFits, MoneyFits
  <2>3. st = "created" /\ Enters[s] = "cancelled"
    BY <1>4, <1>7, <2>2, StepsSpeltOut DEF Lifecycle!Open
  <2>4. QED
    BY <2>2, <2>3 DEF MayEnter
<1>8. CASE s = "cancel"
  <2>1. Enters[s] = "cancelled" /\ m = "refunded"
    BY <1>2, <1>8, StepsSpeltOut DEF LateFits, MoneyFits
  <2>2. QED
    BY <1>4, <2>1 DEF MayEnter
<1>9. CASE s = "mark_comp_failed"
  <2>1. Enters[s] = "compensation_failed"
    BY <1>9, StepsSpeltOut
  <2>2. wf[o].reason # "none"
    <3>1. s \in Backward
      BY <1>9 DEF Backward, CompensationSteps
    <3>2. wf[o].pc = s => wf[o].reason # "none"
      BY <1>2, <3>1 DEF MoneyFits
    <3>3. QED
      BY <1>2, <1>9, <3>2 DEF LateFits
  <2>3. PaidFor(o)
    BY <1>2, <2>2 DEF MoneyFits
  <2>4. QED
    BY <1>4, <2>1, <2>3 DEF MayEnter
<1>10. QED
  BY <1>6, <1>7, <1>8, <1>9, StepsSpeltOut

LEMMA OnOrdersSeen ==
    ASSUME SagaInv, SagaInv', NEW o \in Orders, OnOrders(o)
    PROVE  Lifecycle!LifeStep(o) \/ UNCHANGED Lifecycle!orderView
<1> DEFINE Goal == Lifecycle!LifeStep(o) \/ UNCHANGED Lifecycle!orderView
<1>1. payments' = payments /\ OrdersMove(o)
  BY DEF OnOrders, payVars
<1>2. OrdersTypeOK /\ OrderInv(o) /\ orders[o].status \in OrderStatus \cup {"absent"}
  BY DEF SagaInv, StoresInv, TrailInv, OrdersTypeOK, OrderRow
<1>3. orders' = orders => Goal
  BY <1>1, NothingSeen DEF OthersSame
<1>4. CASE InsertOrder(o)
  <2>1. "created" \in OrderStatus /\ EntersNow(o, "created", None) /\ orders[o].status = "absent"
    BY <1>2, <1>4, InsertFacts DEF Exists, OrderStatus
  <2>2. MayEnter(o, "created")
    BY <2>1 DEF MayEnter
  <2>3. QED
    BY <1>1, <2>1, <2>2, EnteringSeen
<1>5. CASE CountRail(o)
  BY <1>3, <1>5 DEF CountRail
<1>6. CASE ConfirmCounted(o)
  <2>1. "confirmed" \in OrderStatus
    BY DEF OrderStatus
  <2>2. CASE CanMove(o, "confirmed")
    <3>1. EntersNow(o, "confirmed", None) /\ PaidFor(o)
      BY <1>2, <1>6, <2>2, ConfirmFacts DEF OrderInv, Confirmable
    <3>2. orders[o].status = "created"
      BY <1>2, <2>2 DEF CanMove, Exists, Undone, Terminal, Rank, OrderStatus
    <3>3. MayEnter(o, "confirmed")
      BY <3>1, <3>2 DEF MayEnter
    <3>4. QED
      BY <1>1, <2>1, <3>1, <3>3, EnteringSeen
  <2>3. CASE ~CanMove(o, "confirmed")
    BY <1>2, <1>3, <1>6, <2>3, ConfirmFacts
  <2>4. QED
    BY <2>2, <2>3
<1>7. ASSUME NEW d \in Decision, DecideKitchen(o, d) PROVE Goal
  <2>1. /\ OthersSame(o) /\ orders'[o].status = orders[o].status
        /\ orders'[o].decision = IF OnRail(o) THEN d ELSE orders[o].decision
    BY <1>1, <1>2, <1>7, DecideFacts DEF OthersSame
  <2>2. CASE OnRail(o)
    <3>1. ASSUME NEW st, st = orders[o].status, NEW m, m = payments[o].status
          PROVE  /\ Stages' = [Stages EXCEPT ![o] = st]
                 /\ Answers' = [Answers EXCEPT ![o] = d]
                 /\ Moneys' = [Moneys EXCEPT ![o] = Coins(m)]
                 /\ Causes' = [Causes EXCEPT ![o] = Cause(st, m)]
      BY <1>1, <2>1, <2>2, <3>1, OneOrderSeen
    <3>2. /\ Stages' = Stages /\ Moneys' = Moneys /\ Causes' = Causes
          /\ Answers' = [Answers EXCEPT ![o] = d]
      BY <3>1, SeenOf
    <3>3. Stages[o] = "confirmed" /\ Answers[o] = "none"
      BY <2>2, SeenOf DEF OnRail
    <3>4. d \in Lifecycle!Answer \ {"none"}
      BY DEF Decision, Lifecycle!Answer
    <3>5. Lifecycle!Decide(o)
      BY <3>2, <3>3, <3>4 DEF Lifecycle!Decide
    <3>6. QED
      BY <3>5 DEF Lifecycle!LifeStep
  <2>3. CASE ~OnRail(o)
    BY <1>1, <2>1, <2>3, NothingSeen
  <2>4. QED
    BY <2>2, <2>3
<1>8. ASSUME NEW g \in ReportStage, RecordRiderReport(o, g) PROVE Goal
  <2>1. OthersSame(o) /\ orders'[o].status = orders[o].status /\ orders'[o].decision = orders[o].decision
    BY <1>1, <1>2, <1>8, ReportFacts DEF OthersSame
  <2>2. QED
    BY <1>1, <2>1, NothingSeen
<1>9. ASSUME NEW s \in DOMAIN Enters \ {"confirm"},
             wf[o].pc = s \/ \E q \in late : q.order = o /\ q.step = s,
             Transition(o, Enters[s], IF s = "assign" THEN wf[o].rider ELSE None)
      PROVE  Goal
  <2>1. Enters[s] \in OrderStatus /\ wf[o].rider \in Riders \cup {None}
    BY StepsSpeltOut DEF OrderStatus, SagaInv, SagaTypeOK, Workflow
  <2>2. ASSUME NEW r \in Riders \cup {None}, r = IF s = "assign" THEN wf[o].rider ELSE None,
               CanMove(o, Enters[s])
        PROVE  Goal
    <3>1. EntersNow(o, Enters[s], r)
      BY <1>2, <1>9, <2>1, <2>2, TransitionFacts
    <3>2. MayEnter(o, Enters[s])
      BY <1>1, <1>9, <2>2, <3>1, AskedInTurn DEF EntersNow
    <3>3. QED
      BY <1>1, <2>1, <3>1, <3>2, EnteringSeen
  <2>3. CASE ~CanMove(o, Enters[s])
    BY <1>3, <1>9, <2>3 DEF Transition
  <2>4. QED
    BY <2>1, <2>2, <2>3
<1>10. QED
  BY <1>1, <1>4, <1>5, <1>6, <1>7, <1>8, <1>9 DEF OrdersMove

\* The order o's money moves, and nothing else that is seen.
LEMMA MoneySeen ==
    ASSUME SagaInv, SagaInv', NEW o \in Orders, orders' = orders,
           \A p \in Orders \ {o} : payments'[p] = payments[p],
           NEW m, m = payments'[o].status, Cause(orders[o].status, m) = Causes[o]
    PROVE  /\ Stages' = Stages /\ Answers' = Answers /\ Causes' = Causes
           /\ Moneys' = [Moneys EXCEPT ![o] = Coins(m)]
<1>1. OthersSame(o)
  BY DEF OthersSame
<1>2. ASSUME NEW st, st = orders[o].status, NEW d, d = orders[o].decision
      PROVE  /\ Stages' = [Stages EXCEPT ![o] = st]
             /\ Answers' = [Answers EXCEPT ![o] = d]
             /\ Moneys' = [Moneys EXCEPT ![o] = Coins(m)]
             /\ Causes' = [Causes EXCEPT ![o] = Cause(st, m)]
  BY <1>1, <1>2, OneOrderSeen
<1>3. QED
  BY <1>2, SeenOf

LEMMA OnPaymentsSeen ==
    ASSUME SagaInv, SagaInv', OnPayments
    PROVE  [Lifecycle!LifeNext]_(Lifecycle!orderView)
<1> DEFINE Goal == [Lifecycle!LifeNext]_(Lifecycle!orderView)
<1>1. orders' = orders /\ PayNext
  BY DEF OnPayments, orderVars
<1>2. PayTypeOK /\ PayInv
  BY DEF SagaInv, StoresInv, PayInv
<1>3. ASSUME NEW o \in Orders, Lifecycle!LifeStep(o) \/ UNCHANGED Lifecycle!orderView
      PROVE  Goal
  BY <1>3 DEF Lifecycle!LifeNext
<1>4. ASSUME NEW o \in Orders, payments' = payments PROVE Goal
  BY <1>1, <1>4, NothingSeen DEF OthersSame
<1>5. ASSUME NEW c \in AuthCall, InsertPending(c) PROVE Goal
  <2>1. PICK o \in Orders : o = c.order
    BY DEF AuthCall
  <2>2. CASE payments[o].status = "none"
    <3>1. /\ payments'[o].status = "pending"
          /\ \A p \in Orders \ {o} : payments'[p] = payments[p]
      BY <1>2, <1>5, <2>1, <2>2 DEF InsertPending, PayTypeOK
    <3>2. Cause(orders[o].status, "pending") = Causes[o] /\ Coins("pending") = Moneys[o]
      BY <2>2, SeenOf DEF Cause, Coins
    <3>3. UNCHANGED <<Stages, Answers, Causes>> /\ Moneys' = [Moneys EXCEPT ![o] = Coins("pending")]
      BY <1>1, <3>1, <3>2, MoneySeen
    <3>4. QED
      BY <3>2, <3>3, SeenOf DEF Lifecycle!orderView
  <2>3. CASE payments[o].status # "none"
    BY <1>4, <1>5, <2>1, <2>3 DEF InsertPending
  <2>4. QED
    BY <2>2, <2>3
<1>6. ASSUME NEW c \in AuthCall, MarkAuthorized(c) PROVE Goal
  <2>1. PICK o \in Orders : o = c.order
    BY DEF AuthCall
  <2>2. /\ payments'[o].status = "authorized" /\ auth[c] = "charged"
        /\ \A p \in Orders \ {o} : payments'[p] = payments[p]
    BY <1>2, <1>6, <2>1 DEF MarkAuthorized, PayTypeOK, PaymentRow
  <2>3. OrderInv(o) /\ CallFits(c)
    BY <2>1 DEF SagaInv, OrderInv
  <2>4. /\ payments[o].status = "pending" /\ ~PaidFor(o)
        /\ orders[o].status \in {"created", "cancelled"}
    <3>1. payments[o].status = "pending" /\ orders[o].status # "absent"
      BY <2>1, <2>2, <2>3 DEF CallFits
    <3>2. ~PaidFor(o)
      BY <3>1 DEF PaidFor
    <3>3. QED
      BY <2>3, <3>1, <3>2 DEF OrderInv, MoneyFits
  <2>5. /\ Causes[o] = Cause(orders[o].status, "authorized")
        /\ Moneys[o] = "kept" /\ Coins("authorized") = "taken"
        /\ Stages[o] = "created" \/ Causes[o] = "payment"
    BY <2>4, SeenOf DEF Cause, Coins, Undone
  <2>6. UNCHANGED <<Stages, Answers, Causes>> /\ Moneys' = [Moneys EXCEPT ![o] = "taken"]
    BY <1>1, <2>2, <2>5, MoneySeen
  <2>7. Lifecycle!Take(o)
    BY <2>5, <2>6 DEF Lifecycle!Take
  <2>8. QED
    BY <1>3, <2>7 DEF Lifecycle!LifeStep
<1>7. ASSUME NEW o \in Orders, MarkRefunded(o) PROVE Goal
  <2>1. OrderInv(o) /\ refunding[o] > 0
    BY <1>7 DEF SagaInv, MarkRefunded
  <2>2. wf[o].reason # "none"
    BY <2>1 DEF OrderInv, MoneyFits
  <2>3. PaidFor(o) /\ orders[o].status \notin {"absent", "delivered"}
        /\ (orders[o].status = "cancelled" => payments[o].status = "refunded")
    BY <2>1, <2>2 DEF OrderInv, MoneyFits
  <2>4. CASE payments[o].status = "authorized"
    <3>1. /\ payments'[o].status = "refunded"
          /\ \A p \in Orders \ {o} : payments'[p] = payments[p]
      BY <1>2, <1>7, <2>4 DEF MarkRefunded, Refundable, PayTypeOK, PaymentRow
    <3>2. orders[o].status \in Lifecycle!Open \cup {"compensation_failed"}
      BY <2>3, <2>4 DEF SagaInv, StoresInv, TrailInv, OrdersTypeOK, OrderRow, OrderStatus,
                        Lifecycle!Open
    <3>3. /\ Causes[o] = Cause(orders[o].status, "refunded")
          /\ Moneys[o] = "taken" /\ Coins("refunded") = "returned"
          /\ Stages[o] \in Lifecycle!Open \cup {"compensation_failed"}
      BY <2>4, <3>2, SeenOf DEF Cause, Coins, Undone, Lifecycle!Open
    <3>4. UNCHANGED <<Stages, Answers, Causes>> /\ Moneys' = [Moneys EXCEPT ![o] = "returned"]
      BY <1>1, <3>1, <3>3, MoneySeen
    <3>5. Lifecycle!Return(o)
      BY <3>3, <3>4 DEF Lifecycle!Return
    <3>6. QED
      BY <1>3, <3>5 DEF Lifecycle!LifeStep
  <2>5. CASE payments[o].status # "authorized"
    <3>1. payments' = payments
      BY <1>7, <2>3, <2>5 DEF MarkRefunded, Refundable, PaidFor
    <3>2. QED
      BY <1>4, <3>1
  <2>6. QED
    BY <2>4, <2>5
<1>8. ASSUME NEW c \in AuthCall, SendAuth(c) \/ FindByKey(c) \/ ChargeCard(c) \/ CrashAuth(c)
      PROVE  Goal
  <2>1. c.order \in Orders /\ payments' = payments
    BY <1>8 DEF AuthCall, SendAuth, FindByKey, ChargeCard, CrashAuth
  <2>2. QED
    BY <1>4, <2>1
<1>9. ASSUME NEW o \in Orders, IssueRefund(o) \/ CrashRefund(o) PROVE Goal
  BY <1>4, <1>9 DEF IssueRefund, CrashRefund
<1>10. QED
  BY <1>1, <1>5, <1>6, <1>7, <1>8, <1>9 DEF PayNext, AuthoriseStep

LEMMA LifeSteps ==
    ASSUME SagaInv, [Next]_vars
    PROVE  [Lifecycle!LifeNext]_(Lifecycle!orderView)
<1>1. SagaInv'
  BY SagaStep
<1>2. ASSUME Quiet \/ OnFleet PROVE UNCHANGED Lifecycle!orderView
  <2>1. orders' = orders /\ payments' = payments
    BY <1>2 DEF Quiet, OnFleet, orderVars, payVars
  <2>2. \A o \in Orders : Why(o)' = Why(o)
    BY <1>1, <2>1, ViewIsOfRows
  <2>3. QED
    BY <2>1, <2>2 DEF Lifecycle!orderView, Stages, Answers, Moneys, Causes
<1>3. CASE UNCHANGED vars
  BY <1>2, <1>3 DEF vars, Quiet
<1>4. ASSUME NEW o \in Orders, OrderStep(o) PROVE [Lifecycle!LifeNext]_(Lifecycle!orderView)
  <2>1. Quiet \/ OnOrders(o) \/ OnPayments \/ OnFleet
    BY <1>4, OneStoreMoves DEF SagaInv
  <2>2. QED
    BY <1>1, <1>2, <2>1, OnOrdersSeen, OnPaymentsSeen DEF Lifecycle!LifeNext
<1>5. QED
  BY <1>3, <1>4, NextIsOrderStep DEF SagaInv

\* The saga implements the lifecycle it promises to whoever looks at its orders.
THEOREM SagaImplementsLifecycle == SagaSpec => KeepsLifecycle
<1>1. SagaInit => Lifecycle!LifeInit
  BY DEF SagaInit, OrdersInit, PayInit, AbsentRow, NoPayment, NotStarted, Lifecycle!LifeInit,
         Stages, Answers, Moneys, Causes, Why, Undone
<1>2. QED
  BY <1>1, LifeSteps, SagaInvariant, PTL DEF SagaSpec, KeepsLifecycle, Lifecycle!Life
-----------------------------------------------------------------------------
(* What the comments of SagaClaims may say.  Each of them is refuted by a run in   *)
(* which something is lost, or two orders are counted at once; each holds where    *)
(* that does not happen.                                                           *)

\* Places only a lost attempt leads to; the places before the kitchen has been
\* asked for room, and when it had none; and those of a rider with the order.
Lossy == {"create_failed", "broken", "mark_comp_failed", "pub_comp_failed"}
Early == Before \cup Paying \cup Declining \cup {"confirm"}
Carrying == RiderSteps \ {"dispatch"}

\* An order that exists has a run that was told it made it; nothing is broken or
\* flagged; what has not been given its place on the rail has not been confirmed;
\* and a rider has the order only while its RiderWorkflow runs.
Calm(o) ==
    /\ Exists(o) \/ wf[o].pc = "returned" => wf[o].owner
    /\ wf[o].pc \notin Lossy /\ orders[o].status # "compensation_failed"
    /\ wf[o].pc \in Early \/ wf[o].reason = "kitchen_at_capacity" => ~HasEntered(o, "confirmed")
    /\ Holding(o) # {} => wf[o].pc \in Carrying

\* What the workflow's moves keep while nothing is lost.
Keeps(o) ==
    /\ wf'[o].owner = wf[o].owner
    /\ wf'[o].pc \in Lossy => wf[o].pc \in Lossy
    /\ wf'[o].pc \in Early => wf[o].pc \in Early
    /\ wf'[o].pc = "returned" => wf[o].pc = "returned"
    /\ wf'[o].reason = "kitchen_at_capacity" =>
          wf[o].reason = "kitchen_at_capacity" \/ wf[o].pc = "confirm"
    /\ wf[o].pc \in Carrying => wf'[o].pc \in Carrying
    /\ wf'[o].pc \in Declining => wf[o].pc \in Declining \/ AuthorizeAnswered(o)
    /\ wf'[o].pc = "authorize" =>
          \/ wf'[o].attempt = 1 \/ AuthorizeAnswered(o)
          \/ wf[o].pc = "authorize" /\ wf'[o].attempt = wf[o].attempt

LEMMA MovesKeepOwner ==
    ASSUME NEW w \in Workflow
    PROVE  /\ \A p \in Place : To(w, p).owner = w.owner
           /\ \A p \in Place, why \in Reason : For(w, p, why).owner = w.owner
           /\ \A d \in Decision \cup {"none"} :
                 LET v == Decided(w, d)
                 IN  /\ v.owner = w.owner
                     /\ \/ v.pc = "dispatch" /\ v.reason = w.reason
                        \/ v.pc = "refund" /\ v.reason \in {"kitchen_rejected", "kitchen_timeout"}
           /\ Searched(w).owner = w.owner
           /\ \/ Searched(w).pc = "dispatch" /\ Searched(w).reason = w.reason
              \/ Searched(w).pc = "refund" /\ Searched(w).reason = "no_rider_available"
           /\ \A g \in ReportStage : Reported(w, g).owner = w.owner
           /\ Again(w).owner = w.owner /\ Again(w).pc = w.pc /\ Again(w).reason = w.reason
<1>1. ASSUME NEW p \in Place PROVE To(w, p).owner = w.owner
  BY ToFacts
<1>2. ASSUME NEW p \in Place, NEW why \in Reason PROVE For(w, p, why).owner = w.owner
  <2> DEFINE t == To(w, p)
  <2>1. t \in Workflow /\ t.owner = w.owner
    BY ToFacts
  <2>2. For(w, p, why) = [t EXCEPT !.reason = why]
    BY DEF For
  <2> HIDE DEF t
  <2>3. QED
    BY <2>1, <2>2 DEF Workflow
<1>3. /\ {"dispatch", "refund"} \subseteq Place
      /\ {"kitchen_rejected", "kitchen_timeout", "no_rider_available"} \subseteq Reason
  BY PlacesSpeltOut DEF Place, Reason
<1>r. ASSUME NEW why \in Reason, NEW f, f = For(w, "refund", why)
           PROVE  f \in Workflow /\ f.owner = w.owner /\ f.pc = "refund" /\ f.reason = why
  <2> DEFINE h == For(w, "refund", why)
  <2>1. h \in Workflow /\ h.pc = "refund" /\ h.reason = why
    BY <1>3, ForFacts
  <2>2. h.owner = w.owner
    BY <1>2, <1>3
  <2>3. f = h
    BY <1>r
  <2> HIDE DEF h
  <2>4. QED
    BY <2>1, <2>2, <2>3
<1>4. ASSUME NEW d \in Decision \cup {"none"}
      PROVE  LET v == Decided(w, d)
             IN  /\ v.owner = w.owner
                 /\ \/ v.pc = "dispatch" /\ v.reason = w.reason
                    \/ v.pc = "refund" /\ v.reason \in {"kitchen_rejected", "kitchen_timeout"}
  <2> DEFINE t == CASE d = "accepted" -> To(w, "dispatch")
                    [] d = "rejected" -> For(w, "refund", "kitchen_rejected")
                    [] d = "none"     -> For(w, "refund", "kitchen_timeout")
  <2>1. \/ t = To(w, "dispatch")
        \/ t = For(w, "refund", "kitchen_rejected")
        \/ t = For(w, "refund", "kitchen_timeout")
    BY DEF Decision
  <2>2. Decided(w, d) = [t EXCEPT !.decision = d]
    BY DEF Decided
  <2> HIDE DEF t
  <2>3. /\ t \in Workflow /\ t.owner = w.owner
        /\ \/ t.pc = "dispatch" /\ t.reason = w.reason
           \/ t.pc = "refund" /\ t.reason \in {"kitchen_rejected", "kitchen_timeout"}
    <3>1. ASSUME NEW why \in Reason, t = For(w, "refund", why)
          PROVE  t \in Workflow /\ t.owner = w.owner /\ t.pc = "refund" /\ t.reason = why
      BY <3>1, <1>r
    <3>2. CASE t = To(w, "dispatch")
      BY <1>3, <3>2, ToFacts
    <3>3. QED
      BY <1>3, <2>1, <3>1, <3>2
  <2>4. QED
    BY <2>2, <2>3 DEF Workflow
<1>5. /\ Searched(w).owner = w.owner
      /\ \/ Searched(w).pc = "dispatch" /\ Searched(w).reason = w.reason
         \/ Searched(w).pc = "refund" /\ Searched(w).reason = "no_rider_available"
  <2> DEFINE t == IF w.searches + 1 < SearchAttempts
                    THEN To(w, "dispatch") ELSE For(w, "refund", "no_rider_available")
             n == t.searches + 1
  <2>1. t = To(w, "dispatch") \/ t = For(w, "refund", "no_rider_available")
    OBVIOUS
  <2>2. Searched(w) = [t EXCEPT !.searches = n]
    BY DEF Searched
  <2> HIDE DEF t, n
  <2>3. /\ t \in Workflow /\ t.owner = w.owner
        /\ \/ t.pc = "dispatch" /\ t.reason = w.reason
           \/ t.pc = "refund" /\ t.reason = "no_rider_available"
    <3>1. CASE t = For(w, "refund", "no_rider_available")
      BY <1>3, <1>r, <3>1
    <3>2. CASE t = To(w, "dispatch")
      BY <1>3, <3>2, ToFacts
    <3>3. QED
      BY <2>1, <3>1, <3>2
  <2>4. QED
    BY <2>2, <2>3 DEF Workflow
<1>6. ASSUME NEW g \in ReportStage PROVE Reported(w, g).owner = w.owner
  BY DEF Reported, Workflow
<1>7. Again(w).owner = w.owner /\ Again(w).pc = w.pc /\ Again(w).reason = w.reason
  BY DEF Again, Workflow
<1>8. QED
  BY <1>1, <1>2, <1>4, <1>5, <1>6, <1>7

\* A workflow that goes to a place keeps its reason and its owner.
LEMMA GoesKeepsOwner ==
    ASSUME SagaTypeOK, NEW o \in Orders, NEW p \in Place, Goes(o, p)
    PROVE  /\ wf'[o].pc = p /\ wf'[o].owner = wf[o].owner /\ wf'[o].reason = wf[o].reason
           /\ wf'[o].attempt = 1
<1>1. wf[o] \in Workflow /\ wf \in [Orders -> Workflow]
  BY DEF SagaTypeOK
<1>2. wf' = [wf EXCEPT ![o] = To(wf[o], p)]
  BY DEF Goes
<1>3. QED
  BY <1>1, <1>2, ToFacts

LEMMA ProgressKeeps ==
    ASSUME SagaTypeOK, OrdersTypeOK, NEW o \in Orders, Progress(o), ~CreateOrder(o)
    PROVE  Keeps(o) \/ (ReleaseRider(o) /\ wf'[o].owner = wf[o].owner)
<1>0. wf[o] \in Workflow /\ wf \in [Orders -> Workflow]
  BY DEF SagaTypeOK
<1>1. /\ Place = Activities \cup Waits \cup DOMAIN Announces \cup Ends \cup {"none"}
      /\ {"kitchen_at_capacity", "pickup_timeout", "delivery_timeout"} \subseteq Reason
  BY DEF Place, Reason
<1>2. {"confirm", "cancel_unpaid", "read_decision", "mark_picked_up", "mark_delivered",
       "read_pickup", "read_delivery", "finished", "refund", "cancel", "release_failed",
       "pub_confirmed", "assign", "authorize", "await_kitchen", "await_pickup",
       "await_delivery", "release_delivered", "declined"} \cup DOMAIN Announces \subseteq Place
  BY <1>1, PlacesSpeltOut, AnnouncesSpeltOut DEF Ends, Waits
<1> USE DEF Keeps, Lossy, Early, Carrying
<1>3. ASSUME Publish(o) PROVE Keeps(o)
  <2> DEFINE p == AfterPublish(wf[o])
  <2>1. wf[o].pc \in DOMAIN Announces /\ Goes(o, p)
    BY <1>3 DEF Publish
  <2>2. /\ wf[o].pc = "pub_created"   => p = "authorize"
        /\ wf[o].pc = "pub_confirmed" => p = "await_kitchen"
        /\ wf[o].pc = "pub_assigned"  => p = "await_pickup"
        /\ wf[o].pc = "pub_picked_up" => p \in {"mark_delivered", "await_delivery"}
        /\ wf[o].pc = "pub_delivered" => p = "release_delivered"
        /\ wf[o].pc \in {"pub_cancelled", "pub_comp_failed"} => p = "finished"
        /\ wf[o].pc = "pub_cancel_unpaid" => p = "declined"
    BY <2>1, AnnouncesSpeltOut DEF AfterPublish
  <2> HIDE DEF p
  <2>3. p \in Place
    BY <1>2, <2>1, <2>2, AnnouncesSpeltOut
  <2>4. /\ wf'[o].pc = p /\ wf'[o].owner = wf[o].owner /\ wf'[o].reason = wf[o].reason
        /\ wf'[o].attempt = 1
    BY <2>1, <2>3, GoesKeepsOwner
  <2>5. QED
    BY <2>1, <2>2, <2>4, AnnouncesSpeltOut
<1>4. ASSUME TransitionOrder(o) PROVE Keeps(o)
  <2> DEFINE p == PublishOf[wf[o].pc]
  <2>1. wf[o].pc \in DOMAIN Enters \ {"confirm"} /\ Goes(o, p)
    BY <1>4 DEF TransitionOrder
  <2>2. p \in Place
    BY <1>2, <2>1, StepsSpeltOut, AnnouncesSpeltOut
  <2>3. wf'[o].pc = p /\ wf'[o].owner = wf[o].owner /\ wf'[o].reason = wf[o].reason
    BY <2>1, <2>2, GoesKeepsOwner
  <2>4. QED
    BY <2>1, <2>3, StepsSpeltOut
<1>5. ASSUME CountOnRail(o) PROVE Keeps(o)
  <2>1. CASE wf' = [wf EXCEPT ![o].begun = TRUE]
    BY <1>0, <2>1 DEF Workflow
  <2>2. CASE Compensates(o, "kitchen_at_capacity")
    <3> DEFINE v == For(wf[o], "refund", "kitchen_at_capacity")
    <3>1. v.owner = wf[o].owner /\ v.pc = "refund"
      BY <1>0, <1>1, <1>2, MovesKeepOwner, ForFacts
    <3>2. wf' = [wf EXCEPT ![o] = v]
      BY <2>2 DEF Compensates
    <3> HIDE DEF v
    <3>3. QED
      BY <1>0, <1>5, <3>1, <3>2 DEF CountOnRail, At
  <2>3. QED
    BY <1>5, <2>1, <2>2 DEF CountOnRail
<1>6. ASSUME \/ JoinRail(o) \/ KitchenTimer(o) \/ RiderSignalled(o) \/ DeliveryTimer(o)
             \/ RefundAnswered(o)
      PROVE  Keeps(o)
  BY <1>2, <1>6, GoesKeepsOwner
     DEF JoinRail, KitchenTimer, RiderSignalled, DeliveryTimer, RefundAnswered, At
<1>7. ASSUME SendAuthorize(o) \/ SendRefund(o) \/ ServeAuthorize(o) PROVE Keeps(o)
  <2>1. wf' = wf \/ wf' = [wf EXCEPT ![o].begun = TRUE]
    BY <1>7 DEF SendAuthorize, SendRefund, ServeAuthorize, sagaVars
  <2>2. QED
    BY <1>0, <2>1 DEF Workflow
<1>8. ASSUME AuthorizeAnswered(o) PROVE Keeps(o)
  <2>1. /\ wf[o].pc = "authorize"
        /\ Goes(o, "confirm") \/ Goes(o, "cancel_unpaid") \/ AttemptFails(o)
    BY <1>8 DEF AuthorizeAnswered, At
  <2>2. CASE AttemptFails(o)
    <3> DEFINE v == IF wf[o].attempt < Attempts(wf[o].pc) THEN Again(wf[o]) ELSE GivenUp(wf[o])
    <3>1. wf' = [wf EXCEPT ![o] = v]
      BY <2>2 DEF AttemptFails
    <3>2. GivenUp(wf[o]) = To(wf[o], "cancel_unpaid")
      BY <2>1 DEF GivenUp
    <3>3. v = Again(wf[o]) \/ v = To(wf[o], "cancel_unpaid")
      BY <3>2
    <3> HIDE DEF v
    <3>4. /\ v.owner = wf[o].owner /\ v.reason = wf[o].reason
          /\ v.pc \in {"authorize", "cancel_unpaid"}
      <4>1. CASE v = Again(wf[o])
        BY <1>0, <2>1, <4>1, MovesKeepOwner
      <4>2. CASE v = To(wf[o], "cancel_unpaid")
        BY ZenonT(60), <1>0, <1>2, <4>2, ToFacts
      <4>3. QED
        BY <3>3, <4>1, <4>2
    <3>5. QED
      BY <1>0, <1>8, <2>1, <3>1, <3>4
  <2>3. QED
    BY <1>2, <1>8, <2>1, <2>2, GoesKeepsOwner
<1>9. ASSUME KitchenAnswered(o) \/ ReadDecision(o) PROVE Keeps(o)
  <2>1. PICK d \in Decision \cup {"none"} : wf' = [wf EXCEPT ![o] = Decided(wf[o], d)]
    <3>1. /\ wf[o].decision \in Decision \cup {"none"}
          /\ orders[o].decision \in Decision \cup {"none"}
      BY <1>0 DEF Workflow, OrdersTypeOK, OrderRow
    <3>2. \/ wf' = [wf EXCEPT ![o] = Decided(wf[o], wf[o].decision)]
          \/ wf' = [wf EXCEPT ![o] = Decided(wf[o], orders[o].decision)]
      BY <1>9 DEF KitchenAnswered, ReadDecision
    <3>3. QED
      BY <3>1, <3>2
  <2>2. wf[o].pc \in {"await_kitchen", "read_decision"}
    BY <1>9 DEF KitchenAnswered, ReadDecision, At
  <2>3. QED
    BY <1>0, <2>1, <2>2, MovesKeepOwner
<1>10. ASSUME DispatchRider(o) PROVE Keeps(o)
  <2>1. wf[o].pc = "dispatch" /\ "assign" \in Place
    BY <1>2, <1>10 DEF DispatchRider, At
  <2>2. CASE \E r \in Riders : wf' = [wf EXCEPT ![o] = [To(@, "assign") EXCEPT !.rider = r]]
    <3> DEFINE t == To(wf[o], "assign")
    <3>1. PICK r \in Riders : wf' = [wf EXCEPT ![o] = [t EXCEPT !.rider = r]]
      BY <2>2
    <3>2. t \in Workflow /\ t.pc = "assign" /\ t.owner = wf[o].owner /\ t.reason = wf[o].reason
      BY <1>0, <2>1, ToFacts
    <3> HIDE DEF t
    <3>3. QED
      BY <1>0, <2>1, <3>1, <3>2 DEF Workflow
  <2>3. CASE wf' = [wf EXCEPT ![o] = Searched(@)]
    BY <1>0, <2>1, <2>3, MovesKeepOwner
  <2>4. QED
    BY <1>10, <2>2, <2>3 DEF DispatchRider
<1>11. ASSUME ReadReport(o) PROVE Keeps(o)
  <2> DEFINE g == orders[o].reported
             lost == g = "none" \/ (wf[o].pc = "read_delivery" /\ g = "picked_up")
             why == IF wf[o].pc = "read_pickup" THEN "pickup_timeout" ELSE "delivery_timeout"
             p == IF wf[o].pc = "read_pickup" THEN "mark_picked_up" ELSE "mark_delivered"
             u == Reported(wf[o], g)
             v == IF lost THEN For(wf[o], "release_failed", why) ELSE To(u, p)
  <2>1. wf' = [wf EXCEPT ![o] = v] /\ wf[o].pc \in {"read_pickup", "read_delivery"}
    BY <1>11 DEF ReadReport
  <2>2. g \in ReportStage \cup {"none"}
    BY DEF OrdersTypeOK, OrderRow
  <2>3. /\ why \in Reason /\ why # "kitchen_at_capacity"
        /\ p \in Place /\ p \in {"mark_picked_up", "mark_delivered"}
    BY <1>1, <1>2
  <2> HIDE DEF why, p
  <2>4. CASE lost
    <3>1. v = For(wf[o], "release_failed", why)
      BY <2>4
    <3>2. v.owner = wf[o].owner /\ v.pc = "release_failed" /\ v.reason = why
      BY <1>0, <1>2, <2>3, <3>1, MovesKeepOwner, ForFacts
    <3> HIDE DEF v
    <3>3. QED
      BY <1>0, <2>1, <2>3, <3>2
  <2>5. CASE ~lost
    <3>1. g \in ReportStage /\ v = To(u, p)
      BY <2>2, <2>5
    <3>2. u \in Workflow /\ u.reason = wf[o].reason /\ u.owner = wf[o].owner
      <4>1. u \in Workflow /\ u.reason = wf[o].reason
        BY <1>0, <3>1, ReportedFacts
      <4>2. u.owner = wf[o].owner
        BY <1>0, <3>1, MovesKeepOwner
      <4>3. QED
        BY <4>1, <4>2
    <3> HIDE DEF u, v
    <3>3. v.owner = wf[o].owner /\ v.pc = p /\ v.reason = wf[o].reason
      BY <2>3, <3>1, <3>2, ToFacts
    <3>4. QED
      BY <1>0, <2>1, <2>3, <3>3
  <2>6. QED
    BY <2>4, <2>5
<1>12. ASSUME ReleaseRider(o) PROVE wf'[o].owner = wf[o].owner
  BY <1>2, <1>12, GoesKeepsOwner DEF ReleaseRider
<1>13. QED
  BY <1>3, <1>4, <1>5, <1>6, <1>7, <1>8, <1>9, <1>10, <1>11, <1>12 DEF Progress

\* The other steps, while nothing is lost, and what they do to the order's row.
LEMMA QuietKeeps ==
    ASSUME SagaInv, NEW o \in Orders, Told(o), late = {}, faults = 0, faults' = 0, OrderStep(o),
           ~(CreateOrder(o) \/ TransitionOrder(o) \/ JoinRail(o))
    PROVE  /\ trail' = trail /\ orders'[o].status = orders[o].status
           /\ Keeps(o) \/ (ReleaseRider(o) /\ wf'[o].owner = wf[o].owner)
           /\ Holding(o)' = Holding(o) \/ DispatchRider(o) \/ ReleaseRider(o)
<1>0. /\ SagaTypeOK /\ OrdersTypeOK /\ wf[o] \in Workflow /\ wf \in [Orders -> Workflow]
  BY DEF SagaInv, StoresInv, TrailInv, SagaTypeOK
<1> USE DEF Holding
<1>1. CASE Progress(o)
  <2>1. trail' = trail /\ orders' = orders
    BY <1>1 DEF Progress, Publish, CountOnRail, CountRail, SendAuthorize, ServeAuthorize,
       AuthorizeAnswered, KitchenAnswered, KitchenTimer, ReadDecision, DispatchRider,
       RiderSignalled, DeliveryTimer, ReadReport, ReleaseRider, SendRefund, RefundAnswered
  <2>2. riders' = riders \/ DispatchRider(o) \/ ReleaseRider(o)
    BY <1>1 DEF Progress, Publish, CountOnRail, SendAuthorize, ServeAuthorize,
       AuthorizeAnswered, KitchenAnswered, KitchenTimer, ReadDecision,
       RiderSignalled, DeliveryTimer, ReadReport, SendRefund, RefundAnswered
  <2>3. QED
    BY <1>0, <1>1, <2>1, <2>2, ProgressKeeps
<1>2. CASE Checkout(o)
  <2>1. trail' = trail /\ orders' = orders /\ riders' = riders /\ Goes(o, "create")
        /\ wf[o].pc \in {"none", "refused", "create_failed", "returned"}
    BY <1>2 DEF Checkout
  <2>2. "create" \in Place
    BY PlacesSpeltOut DEF Place
  <2>3. QED
    BY <1>0, <2>1, <2>2, GoesKeepsOwner DEF Keeps, Lossy, Early, Carrying
<1>3. CASE FinishLate(o)
  <2>1. ~(Current(o, "confirm") = 0 /\ ConfirmCounted(o))
    BY <1>0, ConfirmFacts DEF Told, CountedFits, Current, At
  <2>2. UNCHANGED <<orderVars, riders, sagaVars>>
    BY <1>3, <2>1 DEF FinishLate
  <2>3. QED
    BY <2>2 DEF Keeps, sagaVars
<1>4. CASE \/ \E d \in Decision : KitchenClicks(o, d)
           \/ \E g \in ReportStage : RiderReports(o, g)
           \/ \E c \in AuthCall : c.order = o /\ (ServeUnwaited(c) \/ PayManually(c))
  <2>1. UNCHANGED <<orderVars, wf, riders>>
    BY <1>4 DEF KitchenClicks, RiderReports, ServeUnwaited, PayManually, sagaVars
  <2>2. QED
    BY <2>1 DEF Keeps
<1>5. ASSUME NEW h \in handlers, h.order = o, HandlerDecides(h) \/ HandlerPublishes(h)
      PROVE  /\ trail' = trail /\ orders'[o].status = orders[o].status /\ riders' = riders
             /\ Keeps(o)
  <2>1. CASE HandlerDecides(h)
    <3>1. UNCHANGED <<wf, riders>> /\ h.decision \in Decision
      BY <1>0, <2>1 DEF HandlerDecides, SagaTypeOK, Handler
    <3>2. trail' = trail /\ orders'[o].status = orders[o].status
      BY <1>0, <1>5, <2>1, <3>1, DecideFacts DEF HandlerDecides
    <3>3. QED
      BY <3>1, <3>2 DEF Keeps
  <2>2. CASE HandlerPublishes(h)
    <3>1. UNCHANGED <<orderVars, riders>>
      BY <2>2 DEF HandlerPublishes
    <3>2. /\ wf'[o].pc = wf[o].pc /\ wf'[o].owner = wf[o].owner /\ wf'[o].reason = wf[o].reason
          /\ wf'[o].attempt = wf[o].attempt
      BY <1>0, <1>5, <2>2 DEF HandlerPublishes, Workflow
    <3>3. QED
      BY <3>1, <3>2 DEF Keeps
  <2>3. QED
    BY <1>5, <2>1, <2>2
<1>6. ASSUME NEW x \in reports, x.order = o, RecordReport(x) \/ SignalReport(x)
      PROVE  /\ trail' = trail /\ orders'[o].status = orders[o].status /\ riders' = riders
             /\ Keeps(o)
  <2>0. x.stage \in ReportStage
    BY <1>0 DEF SagaTypeOK, Report
  <2>1. CASE RecordReport(x)
    <3>1. UNCHANGED <<wf, riders>>
      BY <2>1 DEF RecordReport
    <3>2. trail' = trail /\ orders'[o].status = orders[o].status
      BY <1>0, <1>6, <2>0, <2>1, ReportFacts DEF RecordReport
    <3>3. QED
      BY <3>1, <3>2 DEF Keeps
  <2>2. CASE SignalReport(x)
    <3>1. UNCHANGED <<orderVars, riders>>
      BY <2>2 DEF SignalReport
    <3> DEFINE v == Reported(wf[o], x.stage)
    <3>2. v.pc = wf[o].pc /\ v.reason = wf[o].reason /\ v.attempt = wf[o].attempt
      BY ZenonT(60), <1>0, <2>0, ReportedFacts
    <3>3. v.owner = wf[o].owner
      BY <1>0, <2>0, MovesKeepOwner
    <3>4. wf' = wf \/ wf' = [wf EXCEPT ![o] = v]
      BY <1>6, <2>2 DEF SignalReport
    <3> HIDE DEF v
    <3>5. QED
      BY <1>0, <3>1, <3>2, <3>3, <3>4 DEF Keeps
  <2>3. QED
    BY <1>6, <2>1, <2>2
<1>7. ASSUME \/ LoseAttempt(o) \/ CrashPayment(o)
             \/ \E h \in handlers : LoseDecision(h)
             \/ \E x \in reports : LoseReport(x)
             \/ \E q \in late : ExecuteLate(q)
      PROVE  FALSE
  BY <1>7 DEF LoseAttempt, CrashPayment, LoseDecision, LoseReport, Fault
<1>8. QED
  BY <1>1, <1>2, <1>3, <1>4, <1>5, <1>6, <1>7 DEF OrderStep, Keeps

LEMMA CalmStep ==
    ASSUME SagaInv, NEW o \in Orders, Told(o), Calm(o), late = {}, faults = 0, faults' = 0,
           OrderStep(o)
    PROVE  Calm(o)'
<1>0. /\ SagaTypeOK /\ OrdersTypeOK /\ FleetTypeOK
      /\ wf[o] \in Workflow /\ wf \in [Orders -> Workflow]
  BY DEF SagaInv, StoresInv, TrailInv, SagaTypeOK
<1>1. StageFits(o) /\ MoneyFits(o)
  BY DEF SagaInv, OrderInv
<1> USE DEF Lossy, Early, Carrying
<1>2. CASE CreateOrder(o)
  <2>1. wf[o].pc = "create" /\ riders' = riders
    BY <1>2 DEF CreateOrder, At
  <2>2. {"pub_created", "returned", "refused"} \subseteq Place
    BY AnnouncesSpeltOut DEF Place, Ends
  <2>3. CASE InsertOrder(o) /\ wf' = [wf EXCEPT ![o] = [To(@, "pub_created") EXCEPT !.owner = TRUE]]
    <3>1. EntersNow(o, "created", None)
      BY <1>0, <2>3, InsertFacts
    <3> DEFINE t == To(wf[o], "pub_created")
    <3>2. t \in Workflow /\ t.pc = "pub_created" /\ t.reason = wf[o].reason
      BY <1>0, <2>2, ToFacts
    <3>3. wf' = [wf EXCEPT ![o] = [t EXCEPT !.owner = TRUE]]
      BY <2>3
    <3> HIDE DEF t
    <3>4. wf'[o].pc = "pub_created" /\ wf'[o].reason = wf[o].reason /\ wf'[o].owner = TRUE
      BY <1>0, <3>2, <3>3 DEF Workflow
    <3>5. "confirmed" \in OrderStatus
      BY DEF OrderStatus
    <3>6. HasEntered(o, "confirmed")' => HasEntered(o, "confirmed")
      BY <3>1, <3>5 DEF EntersNow
    <3>7. orders'[o].status = "created"
      BY <3>1 DEF EntersNow
    <3>8. QED
      BY <2>1, <3>4, <3>6, <3>7 DEF Calm, Holding
  <2>4. CASE /\ UNCHANGED orderVars
             /\ (Exists(o) /\ Goes(o, "returned")) \/ Goes(o, "refused")
    <3>1. /\ wf'[o].owner = wf[o].owner /\ wf'[o].reason = wf[o].reason
          /\ (wf'[o].pc = "returned" /\ Exists(o)) \/ wf'[o].pc = "refused"
      BY <1>0, <2>2, <2>4, GoesKeepsOwner
    <3>2. QED
      BY <2>1, <2>4, <3>1 DEF Calm, HasEntered, Exists, Holding
  <2>5. QED
    BY <1>2, <2>3, <2>4 DEF CreateOrder
<1>3. CASE TransitionOrder(o)
  <2> DEFINE s == wf[o].pc
             n == Enters[s]
             r == IF s = "assign" THEN wf[o].rider ELSE None
  <2>1. /\ s \in DOMAIN Enters \ {"confirm"} /\ Transition(o, n, r) /\ riders' = riders
        /\ ~CreateOrder(o) /\ ~ReleaseRider(o)
    BY <1>3, StepsSpeltOut DEF TransitionOrder, CreateOrder, ReleaseRider, At
  <2>2. /\ n \in OrderStatus /\ n # "confirmed"
        /\ n = "compensation_failed" => s = "mark_comp_failed"
    BY <2>1, StepsSpeltOut DEF OrderStatus
  <2>3. r \in Riders \cup {None}
    BY <1>0 DEF Workflow
  <2>4. Keeps(o)
    BY <1>0, <1>3, <2>1, ProgressKeeps DEF Progress
  <2> HIDE DEF n, r
  <2>5. \/ EntersNow(o, n, r) /\ Exists(o)
        \/ orders' = orders /\ trail' = trail
    BY <1>0, <2>1, <2>2, <2>3, TransitionFacts DEF CanMove
  <2>6. "confirmed" \in OrderStatus
    BY DEF OrderStatus
  <2>7. HasEntered(o, "confirmed")' => HasEntered(o, "confirmed")
    BY <2>2, <2>5, <2>6 DEF EntersNow, HasEntered
  <2>8. orders'[o].status # "compensation_failed" /\ (Exists(o)' => Exists(o))
    BY <2>2, <2>5 DEF EntersNow, Calm, Exists
  <2>9. s # "confirm"
    BY <2>1
  <2>10. QED
    BY <2>1, <2>4, <2>7, <2>8, <2>9 DEF Calm, Keeps, Holding
<1>4. CASE JoinRail(o)
  <2>1. wf[o].pc = "confirm" /\ ConfirmCounted(o) /\ riders' = riders /\ Goes(o, "pub_confirmed")
    BY <1>4 DEF JoinRail, At
  <2>2. "pub_confirmed" \in Place /\ "confirmed" \in OrderStatus
    BY AnnouncesSpeltOut DEF Place, OrderStatus
  <2>3. wf'[o].pc = "pub_confirmed" /\ wf'[o].owner = wf[o].owner /\ wf'[o].reason = "none"
    BY <1>0, <1>1, <2>1, <2>2, GoesKeepsOwner DEF MoneyFits
  <2>4. Exists(o) /\ orders'[o].status # "compensation_failed"
    BY <1>0, <1>1, <2>1, ConfirmFacts DEF Exists, StageFits, EntersNow, Calm
  <2>5. QED
    BY <2>1, <2>3, <2>4 DEF Calm, Holding
<1>5. CASE ~(CreateOrder(o) \/ TransitionOrder(o) \/ JoinRail(o))
  <2>1. /\ trail' = trail /\ orders'[o].status = orders[o].status
        /\ Keeps(o) \/ (ReleaseRider(o) /\ wf'[o].owner = wf[o].owner)
        /\ Holding(o)' = Holding(o) \/ DispatchRider(o) \/ ReleaseRider(o)
    BY <1>5, QuietKeeps
  <2>2. HasEntered(o, "confirmed")' <=> HasEntered(o, "confirmed")
    BY <2>1 DEF HasEntered
  <2>3. CASE ReleaseRider(o)
    <3>1. wf[o].pc \in Releases /\ Release(o) /\ (Goes(o, "finished") \/ Goes(o, "refund"))
      BY <2>3 DEF ReleaseRider
    <3>2. {"finished", "refund"} \subseteq Place
      BY PlacesSpeltOut DEF Place, Ends
    <3>3. /\ wf'[o].pc \in {"finished", "refund"} /\ wf'[o].owner = wf[o].owner
          /\ wf'[o].reason = wf[o].reason
      BY <1>0, <3>1, <3>2, GoesKeepsOwner
    <3>4. Holding(o)' = {}
      BY <1>0, <3>1, ReleaseFacts DEF Holding
    <3>5. QED
      BY <2>1, <2>2, <3>1, <3>3, <3>4 DEF Calm, Exists
  <2>4. CASE ~ReleaseRider(o)
    <3>1. Keeps(o)
      BY <2>1, <2>4
    <3>2. Holding(o)' # {} => wf'[o].pc \in Carrying
      <4>1. CASE Holding(o)' = Holding(o)
        BY <3>1, <4>1 DEF Calm, Keeps
      <4>2. CASE DispatchRider(o)
        <5>1. CASE \E r \in Riders : wf' = [wf EXCEPT ![o] = [To(@, "assign") EXCEPT !.rider = r]]
          <6> DEFINE t == To(wf[o], "assign")
          <6>1. PICK r \in Riders : wf' = [wf EXCEPT ![o] = [t EXCEPT !.rider = r]]
            BY <5>1
          <6>2. "assign" \in Place
            BY PlacesSpeltOut DEF Place
          <6>3. t \in Workflow /\ t.pc = "assign"
            BY <1>0, <6>2, ToFacts
          <6> HIDE DEF t
          <6>4. wf'[o].pc = "assign"
            BY <1>0, <6>1, <6>3 DEF Workflow
          <6>5. QED
            BY <6>4
        <5>2. CASE Holding(o) = {} /\ riders' = riders
          BY <5>2 DEF Holding
        <5>3. QED
          BY <4>2, <5>1, <5>2 DEF DispatchRider
      <4>3. QED
        BY <2>1, <2>4, <4>1, <4>2
    <3>3. wf[o].pc = "confirm" => ~HasEntered(o, "confirmed")
      BY DEF Calm
    <3>4. QED
      BY <2>1, <2>2, <3>1, <3>2, <3>3 DEF Calm, Keeps, Exists
  <2>5. QED
    BY <2>3, <2>4
<1>6. QED
  BY <1>2, <1>3, <1>4, <1>5

\* An order nobody pays for by hand has one execution of authorise(), and that is
\* never answered with somebody else's payment.
First(o) == [order |-> o, kind |-> "saga", attempt |-> 1]

Solo(o) ==
    /\ wf[o].pc \notin Declining
    /\ wf[o].pc = "authorize" => wf[o].attempt = 1
    /\ \A c \in AuthCall : c.order = o /\ auth[c] # "unsent" =>
          c = First(o) /\ auth[c] \in Running \cup {"marked"}
    /\ auth[First(o)] \in {"unsent", "sent", "checked"} => payments[o] = NoPayment

\* What a step does to the payments of its order.
PaysOnly(o) ==
    \/ auth' = auth /\ (payments[o] = NoPayment => payments'[o] = NoPayment)
    \/ /\ wf[o].pc = "authorize"
       /\ SendAuth(CurrentAuth(o)) \/ AuthoriseStep(CurrentAuth(o))
    \/ \E c \in AuthCall : c.order = o /\ AuthoriseStep(c)

LEMMA SoloPayments ==
    ASSUME NEW o \in Orders, o \notin ManualPayers, faults = 0, faults' = 0, late = {},
           OrderStep(o), PayTypeOK
    PROVE  PaysOnly(o)
<1> USE DEF PaysOnly
<1>1. NoPayment.status = "none" /\ payments \in [Orders -> PaymentRow]
  BY DEF NoPayment, PayTypeOK
<1>2. MarkRefunded(o) => auth' = auth /\ (payments[o] = NoPayment => payments'[o] = NoPayment)
  BY <1>1 DEF MarkRefunded, Refundable
<1>3. CASE Progress(o)
  <2>1. CASE SendAuthorize(o) \/ ServeAuthorize(o)
    BY <2>1 DEF SendAuthorize, ServeAuthorize, At
  <2>2. CASE SendRefund(o) \/ RefundAnswered(o)
    BY <1>2, <2>2 DEF SendRefund, IssueRefund, RefundAnswered
  <2>3. CASE ~(SendAuthorize(o) \/ ServeAuthorize(o) \/ SendRefund(o) \/ RefundAnswered(o))
    BY <1>3, <2>3 DEF Progress, CreateOrder, Publish, TransitionOrder, CountOnRail, JoinRail,
       AuthorizeAnswered, KitchenAnswered, KitchenTimer, ReadDecision, DispatchRider,
       RiderSignalled, DeliveryTimer, ReadReport, ReleaseRider
  <2>4. QED
    BY <2>1, <2>2, <2>3
<1>4. CASE FinishLate(o)
  BY <1>2, <1>4 DEF FinishLate
<1>5. CASE \/ Checkout(o)
           \/ \E d \in Decision : KitchenClicks(o, d)
           \/ \E g \in ReportStage : RiderReports(o, g)
           \/ \E h \in handlers : HandlerDecides(h) \/ HandlerPublishes(h)
           \/ \E x \in reports : RecordReport(x) \/ SignalReport(x)
  BY <1>5 DEF Checkout, KitchenClicks, RiderReports, HandlerDecides, HandlerPublishes,
              RecordReport, SignalReport
<1>6. CASE \E c \in AuthCall : c.order = o /\ (ServeUnwaited(c) \/ PayManually(c))
  BY <1>6 DEF ServeUnwaited, PayManually
<1>7. CASE \/ LoseAttempt(o) \/ CrashPayment(o)
           \/ \E h \in handlers : LoseDecision(h)
           \/ \E x \in reports : LoseReport(x)
           \/ \E q \in late : ExecuteLate(q)
  BY <1>7 DEF LoseAttempt, CrashPayment, LoseDecision, LoseReport, Fault
<1>8. QED
  BY <1>3, <1>4, <1>5, <1>6, <1>7 DEF OrderStep

LEMMA SoloStep ==
    ASSUME SagaInv, NEW o \in Orders, Told(o), o \notin ManualPayers, Solo(o),
           late = {}, faults = 0, faults' = 0, OrderStep(o)
    PROVE  Solo(o)'
<1>0. /\ SagaTypeOK /\ OrdersTypeOK /\ PayTypeOK
      /\ wf[o] \in Workflow /\ wf \in [Orders -> Workflow]
      /\ payments \in [Orders -> PaymentRow] /\ auth \in [AuthCall -> AuthStep]
  BY DEF SagaInv, StoresInv, TrailInv, PayInv, PayTypeOK, SagaTypeOK
<1>1. First(o) \in AuthCall
  BY AttemptsAssumption DEF First, AuthCall, KeyKind
<1>2. wf[o].pc = "authorize" => CurrentAuth(o) = First(o)
  BY DEF Solo, CurrentAuth, First
<1>3. /\ wf'[o].pc \notin Declining
      /\ wf'[o].pc = "authorize" => wf'[o].attempt = 1
  <2>1. CASE CreateOrder(o)
    <3>1. {"pub_created", "returned", "refused"} \subseteq Place
      BY AnnouncesSpeltOut DEF Place, Ends
    <3>2. CASE wf' = [wf EXCEPT ![o] = [To(@, "pub_created") EXCEPT !.owner = TRUE]]
      <4> DEFINE t == To(wf[o], "pub_created")
      <4>1. t \in Workflow /\ t.pc = "pub_created"
        BY <1>0, <3>1, ToFacts
      <4>2. wf' = [wf EXCEPT ![o] = [t EXCEPT !.owner = TRUE]]
        BY <3>2
      <4> HIDE DEF t
      <4>3. wf'[o].pc = "pub_created"
        BY <1>0, <4>1, <4>2 DEF Workflow
      <4>4. QED
        BY <4>3
    <3>3. CASE Goes(o, "returned") \/ Goes(o, "refused")
      BY <1>0, <3>1, <3>3, GoesKeepsOwner
    <3>4. QED
      BY <2>1, <3>2, <3>3 DEF CreateOrder
  <2>2. CASE AuthorizeAnswered(o)
    <3>1. wf[o].pc = "authorize" /\ auth[First(o)] \in Running \cup {"marked", "unsent"}
      BY <1>1, <2>2 DEF AuthorizeAnswered, At, Solo, First
    <3>2. Goes(o, "confirm")
      BY <1>2, <2>2, <3>1 DEF AuthorizeAnswered, Running
    <3>3. "confirm" \in Place
      BY PlacesSpeltOut DEF Place
    <3>4. QED
      BY <1>0, <3>2, <3>3, GoesKeepsOwner
  <2>3. CASE ReleaseRider(o)
    <3>1. Goes(o, "finished") \/ Goes(o, "refund")
      BY <2>3 DEF ReleaseRider
    <3>2. {"finished", "refund"} \subseteq Place
      BY PlacesSpeltOut DEF Place, Ends
    <3>3. QED
      BY <1>0, <3>1, <3>2, GoesKeepsOwner
  <2>4. CASE ~CreateOrder(o) /\ ~AuthorizeAnswered(o) /\ ~ReleaseRider(o)
    <3>1. Keeps(o)
      <4>1. CASE TransitionOrder(o) \/ JoinRail(o)
        BY <1>0, <2>4, <4>1, ProgressKeeps DEF Progress
      <4>2. CASE ~(TransitionOrder(o) \/ JoinRail(o))
        BY <2>4, <4>2, QuietKeeps
      <4>3. QED
        BY <4>1, <4>2
    <3>2. QED
      BY <2>4, <3>1 DEF Keeps, Solo
  <2>5. QED
    BY <2>1, <2>2, <2>3, <2>4
<1>4. PaysOnly(o)
  BY <1>0, SoloPayments
<1>5. CASE auth' = auth /\ (payments[o] = NoPayment => payments'[o] = NoPayment)
  BY <1>1, <1>3, <1>5 DEF Solo
<1>6. ASSUME SendAuth(First(o)) \/ AuthoriseStep(First(o))
      PROVE  Solo(o)'
  <2> DEFINE c == First(o)
  <2>1. c \in AuthCall /\ c.order = o /\ c.kind = "saga"
    BY <1>1 DEF First
  <2>2. /\ auth[c] \in Running \cup {"marked", "unsent"}
        /\ auth[c] \in {"unsent", "sent", "checked"} => payments[o] = NoPayment
        /\ \A d \in AuthCall \ {c} : d.order = o => auth[d] = "unsent"
    BY <2>1 DEF Solo
  <2> HIDE DEF c
  <2>3. /\ auth'[c] \in Running \cup {"marked"}
        /\ \A d \in AuthCall \ {c} : auth'[d] = auth[d]
        /\ auth'[c] \in {"unsent", "sent", "checked"} => payments'[o] = NoPayment
    <3>1. CASE SendAuth(c)
      BY <1>0, <2>1, <2>2, <3>1 DEF SendAuth, Sent, Running
    <3>2. CASE FindByKey(c)
      BY <1>0, <2>1, <2>2, <3>2 DEF FindByKey, Running, NoPayment
    <3>3. CASE InsertPending(c)
      BY <1>0, <2>1, <2>2, <3>3 DEF InsertPending, Running, NoPayment
    <3>4. CASE ChargeCard(c) \/ MarkAuthorized(c)
      BY <1>0, <2>1, <2>2, <3>4 DEF ChargeCard, MarkAuthorized, Running
    <3>5. QED
      BY <1>6, <3>1, <3>2, <3>3, <3>4 DEF AuthoriseStep, c
  <2>4. QED
    BY <1>3, <2>1, <2>2, <2>3 DEF Solo, c
<1>7. ASSUME NEW c \in AuthCall, c.order = o, AuthoriseStep(c)
      PROVE  c = First(o)
  BY <1>7 DEF AuthoriseStep, FindByKey, InsertPending, ChargeCard, MarkAuthorized, Solo
<1>8. QED
  BY <1>2, <1>4, <1>5, <1>6, <1>7 DEF PaysOnly


CalmInv == faults = 0 => \A o \in Orders : Calm(o) /\ (o \notin ManualPayers => Solo(o))

LEMMA CalmInvariant == SagaSpec => []CalmInv
<1>1. SagaInit => CalmInv
  <2> SUFFICES ASSUME SagaInit, NEW o \in Orders PROVE Calm(o) /\ Solo(o)
    BY DEF CalmInv
  <2>1. /\ wf[o] = NotStarted /\ orders[o] = AbsentRow /\ trail[o] = <<>>
        /\ payments[o] = NoPayment /\ Holding(o) = {}
        /\ \A c \in AuthCall : auth[c] = "unsent"
    BY NoneAssumption DEF SagaInit, OrdersInit, PayInit, FleetInit, Holding
  <2>2. ~HasEntered(o, "confirmed")
    BY <2>1, EmptySeq DEF HasEntered
  <2>3. QED
    BY <2>1, <2>2 DEF NotStarted, AbsentRow, Calm, Solo, Exists, Lossy
<1>2. SagaInv /\ PublishedInv /\ CalmInv /\ [Next]_vars => CalmInv'
  <2> SUFFICES ASSUME SagaInv, PublishedInv, CalmInv, [Next]_vars PROVE CalmInv'
    OBVIOUS
  <2>1. CASE UNCHANGED vars
    BY <2>1 DEF vars, sagaVars, CalmInv, Calm, Solo, Exists, HasEntered, Holding
  <2>2. ASSUME NEW o \in Orders, OrderStep(o), faults' = 0, NEW p \in Orders
        PROVE  Calm(p)' /\ (p \notin ManualPayers => Solo(p)')
    <3>1. /\ faults = 0 /\ late = {} /\ Told(o)
          /\ \A q \in Orders : Calm(q) /\ (q \notin ManualPayers => Solo(q))
      BY <2>2, FaultsAreCounted DEF PublishedInv, CalmInv, Told
    <3>2. CASE p = o
      BY <2>2, <3>1, <3>2, CalmStep, SoloStep
    <3>3. CASE p # o
      <4>1. Untouched(p)
        BY <2>2, <3>3, OrderStepFits DEF StepFits
      <4>2. First(p) \in AuthCall /\ First(p).order = p
        BY AttemptsAssumption DEF First, AuthCall, KeyKind
      <4>3. Calm(p)'
        BY <3>1, <4>1 DEF Untouched, Calm, Exists, HasEntered, Holding
      <4>4. Solo(p) => Solo(p)'
        BY <4>1, <4>2 DEF Untouched, Solo
      <4>5. QED
        BY <3>1, <4>3, <4>4
    <3>4. QED
      BY <3>2, <3>3
  <2>3. QED
    BY <2>1, <2>2, NextIsOrderStep DEF SagaInv, CalmInv
<1>3. QED
  BY <1>1, <1>2, SagaInvariant, PublishedInvariant, PTL DEF SagaSpec

\* While nothing is lost, an order is only handed back by a checkout, as somebody
\* else's business, if a run of its workflow was told it made the order.
THEOREM ReturnedOrdersAreOwned == SagaSpec => [](faults = 0 => ReturnedIsOwned)
<1>1. CalmInv => (faults = 0 => ReturnedIsOwned)
  BY DEF CalmInv, Calm, ReturnedIsOwned, At
<1>2. QED
  BY <1>1, CalmInvariant, PTL

\* While nothing is lost, an order turned away by a full kitchen never had a place
\* on the rail itself.
THEOREM TheRailIsFullOfOthers == SagaSpec => [](faults = 0 => FullForOthersOnly)
<1>1. CalmInv => (faults = 0 => FullForOthersOnly)
  BY DEF CalmInv, Calm, FullForOthersOnly
<1>2. QED
  BY <1>1, CalmInvariant, PTL

\* Declined although the card may have been charged: an order whose customer also
\* pays for it by hand.
DeclinedPaidByHand == \A o \in Orders : At(o, "declined") => o \in ManualPayers

\* While nothing is lost, the saga declines no order but such a one: one execution
\* of authorise() is sent for each of the others, and it is answered with the
\* payment it made.
THEOREM OnlyHandPayersAreDeclined == SagaSpec => [](faults = 0 => DeclinedPaidByHand)
<1>1. CalmInv => (faults = 0 => DeclinedPaidByHand)
  BY DEF CalmInv, Solo, DeclinedPaidByHand, At
<1>2. QED
  BY <1>1, CalmInvariant, PTL

\* No order is left for a person to see to, none is left with a rider, and one that
\* finishes is delivered and paid for, or cancelled and refunded.
EndsClean ==
    \A o \in Orders :
        /\ wf[o].pc \notin {"create_failed", "broken"}
        /\ orders[o].status # "compensation_failed"
        /\ wf[o].pc \in Ends => Holding(o) = {}
        /\ At(o, "finished") =>
              \/ orders[o].status = "delivered" /\ payments[o].status = "authorized"
              \/ orders[o].status = "cancelled" /\ payments[o].status = "refunded"

\* While nothing is lost, that is how every saga ends, whatever the kitchens and the
\* riders do, and however many clicks, reports and payments by hand race it.
THEOREM NothingLostNothingLeft == SagaSpec => [](faults = 0 => EndsClean)
<1>1. FinishedIsSettled /\ CalmInv => (faults = 0 => EndsClean)
  <2>1. Carrying \cap Ends = {}
    BY DEF Carrying, Ends
  <2>2. QED
    BY <2>1 DEF CalmInv, Calm, EndsClean, Lossy, FinishedIsSettled
<1>2. QED
  BY <1>1, CalmInvariant, WhatIsFinishedIsSettled, PTL

-----------------------------------------------------------------------------
(* The rail.                                                               *)

\* No kitchen has two orders between the statement that counts its rail and the one
\* that puts the counted order there.
OneConfirmAtATime == \A p, q \in counted : RestaurantOf[p] = RestaurantOf[q] => p = q

\* The room an order was counted for is still there when it takes it.
RailInv ==
    \A k \in Restaurants :
        /\ IsFiniteSet(RailOf(k)) /\ Cardinality(RailOf(k)) <= Capacity[k]
        /\ \A o \in counted : RestaurantOf[o] = k => Cardinality(RailOf(k)) < Capacity[k]

\* A rail that loses orders only.
LEMMA RailShrinks ==
    ASSUME RailInv, counted' \subseteq counted, \A o \in Orders : OnRail(o)' => OnRail(o)
    PROVE  RailInv'
<1> SUFFICES ASSUME NEW k \in Restaurants
             PROVE  /\ IsFiniteSet(RailOf(k))' /\ Cardinality(RailOf(k))' <= Capacity[k]
                    /\ \A o \in counted' :
                          RestaurantOf[o] = k => Cardinality(RailOf(k))' < Capacity[k]
  BY DEF RailInv
<1> DEFINE S == RailOf(k)
           T == RailOf(k)'
<1>1. T \subseteq S
  BY DEF RailOf
<1>2. IsFiniteSet(S) /\ Cardinality(S) <= Capacity[k] /\ Capacity[k] \in Nat
  BY CapacityAssumption DEF RailInv
<1> HIDE DEF S, T
<1>3. /\ IsFiniteSet(T) /\ Cardinality(T) <= Cardinality(S)
      /\ Cardinality(T) \in Nat /\ Cardinality(S) \in Nat
  BY <1>1, <1>2, FS_Subset, FS_CardinalityType
<1>4. IsFiniteSet(T) /\ Cardinality(T) <= Capacity[k]
  BY <1>2, <1>3
<1>5. ASSUME NEW o \in counted', RestaurantOf[o] = k PROVE Cardinality(T) < Capacity[k]
  <2>1. Cardinality(S) < Capacity[k]
    BY <1>5 DEF RailInv, S
  <2>2. QED
    BY <1>2, <1>3, <2>1
<1>6. QED
  BY <1>4, <1>5 DEF T

LEMMA RailStep ==
    ASSUME SagaInv, RailInv, OneConfirmAtATime, OneConfirmAtATime', [Next]_vars
    PROVE  RailInv'
<1>0. OrdersTypeOK /\ counted \subseteq Orders
  BY DEF SagaInv, StoresInv, TrailInv, OrdersTypeOK
<1>1. CASE UNCHANGED orderVars
  BY <1>1, RailShrinks DEF OnRail
<1>2. ASSUME NEW o \in Orders, OrdersMove(o) PROVE RailInv'
  <2> DEFINE k == RestaurantOf[o]
  <2>1. k \in Restaurants /\ Capacity[k] \in Nat
    BY OrdersAssumption, CapacityAssumption
  <2>2. CASE InsertOrder(o)
    <3>1. /\ counted' = counted /\ orders'[o].status = "created"
          /\ \A q \in Orders \ {o} : orders'[q] = orders[q]
      BY <1>0, <2>2, InsertFacts DEF EntersNow
    <3>2. QED
      BY <3>1, RailShrinks DEF OnRail
  <2>3. CASE CountRail(o)
    <3>1. counted' = counted \cup {o} /\ orders' = orders /\ ~RailFull(o)
      BY <2>3 DEF CountRail
    <3>2. \A j \in Restaurants : RailOf(j)' = RailOf(j)
      BY <3>1 DEF RailOf, OnRail
    <3>3. Cardinality(RailOf(k)) < Capacity[k]
      <4> DEFINE n == Cardinality(RailOf(k))
      <4>1. n \in Nat /\ ~(n >= Capacity[k])
        BY <2>1, <3>1, FS_CardinalityType DEF RailInv, RailFull
      <4> HIDE DEF n
      <4>2. n < Capacity[k]
        BY <2>1, <4>1
      <4>3. QED
        BY <4>2 DEF n
    <3> HIDE DEF k
    <3>4. QED
      BY <3>1, <3>2, <3>3 DEF RailInv, k
  <2>4. CASE ConfirmCounted(o)
    <3>1. /\ o \in counted /\ counted' = counted \ {o}
          /\ \A q \in Orders \ {o} : orders'[q] = orders[q]
      BY <1>0, <2>4, ConfirmFacts DEF EntersNow
    <3>2. ASSUME NEW j \in Restaurants
          PROVE  /\ IsFiniteSet(RailOf(j))' /\ Cardinality(RailOf(j))' <= Capacity[j]
                 /\ \A p \in counted' : RestaurantOf[p] = j => Cardinality(RailOf(j))' < Capacity[j]
      <4> DEFINE S == RailOf(j)
                 T == RailOf(j)'
      <4>1. IsFiniteSet(S) /\ Cardinality(S) <= Capacity[j] /\ Capacity[j] \in Nat
        BY CapacityAssumption DEF RailInv
      <4>2. CASE j # k
        <5>1. T = S
          BY <3>1, <4>2 DEF RailOf, OnRail
        <5>2. QED
          BY <3>1, <5>1 DEF RailInv
      <4>3. CASE j = k
        <5>1. T \subseteq S \cup {o}
          BY <3>1 DEF RailOf, OnRail
        <5>2. Cardinality(S) < Capacity[j]
          BY <3>1, <4>3 DEF RailInv
        <5>3. \A p \in counted' : RestaurantOf[p] # j
          BY <3>1, <4>3 DEF OneConfirmAtATime
        <5> HIDE DEF S, T
        <5>4. IsFiniteSet(S \cup {o}) /\ Cardinality(S \cup {o}) <= Cardinality(S) + 1
              /\ Cardinality(S) \in Nat /\ Cardinality(S \cup {o}) \in Nat
          <6>1. Cardinality(S) \in Nat
            BY <4>1, FS_CardinalityType
          <6>2. IsFiniteSet(S \cup {o})
                /\ Cardinality(S \cup {o}) = IF o \in S THEN Cardinality(S) ELSE Cardinality(S) + 1
            BY <4>1, FS_AddElement
          <6>3. QED
            BY <6>1, <6>2
        <5>5. IsFiniteSet(T) /\ Cardinality(T) <= Cardinality(S \cup {o}) /\ Cardinality(T) \in Nat
          BY <5>1, <5>4, FS_Subset, FS_CardinalityType
        <5>6. Cardinality(T) <= Capacity[j]
          BY <4>1, <5>2, <5>4, <5>5
        <5>7. QED
          BY <5>3, <5>5, <5>6 DEF T
      <4>4. QED
        BY <4>2, <4>3
    <3>3. QED
      BY <3>2 DEF RailInv
  <2>5. ASSUME NEW d \in Decision, DecideKitchen(o, d) PROVE RailInv'
    <3>1. /\ counted' = counted /\ orders'[o].status = orders[o].status
          /\ orders'[o].decision = IF OnRail(o) THEN d ELSE orders[o].decision
          /\ \A q \in Orders \ {o} : orders'[q] = orders[q]
      BY <1>0, <2>5, DecideFacts
    <3>2. \A q \in Orders : OnRail(q)' => OnRail(q)
      BY <3>1 DEF OnRail
    <3>3. QED
      BY <3>1, <3>2, RailShrinks
  <2>6. ASSUME NEW g \in ReportStage, RecordRiderReport(o, g) PROVE RailInv'
    <3>1. /\ counted' = counted /\ orders'[o].status = orders[o].status
          /\ orders'[o].decision = orders[o].decision
          /\ \A q \in Orders \ {o} : orders'[q] = orders[q]
      BY <1>0, <2>6, ReportFacts
    <3>2. \A q \in Orders : OnRail(q)' => OnRail(q)
      BY <3>1 DEF OnRail
    <3>3. QED
      BY <3>1, <3>2, RailShrinks
  <2>7. ASSUME NEW s \in DOMAIN Enters \ {"confirm"},
               Transition(o, Enters[s], IF s = "assign" THEN wf[o].rider ELSE None)
        PROVE  RailInv'
    <3> DEFINE n == Enters[s]
               r == IF s = "assign" THEN wf[o].rider ELSE None
    <3>1. n \in OrderStatus /\ n # "confirmed" /\ r \in Riders \cup {None}
      BY StepsSpeltOut DEF OrderStatus, SagaInv, SagaTypeOK, Workflow
    <3>2. Transition(o, n, r)
      BY <2>7
    <3> HIDE DEF n, r
    <3>3. counted' = counted /\ (EntersNow(o, n, r) \/ orders' = orders)
      BY <1>0, <3>1, <3>2, TransitionFacts
    <3>4. \A q \in Orders : OnRail(q)' => OnRail(q)
      BY <3>1, <3>3 DEF OnRail, EntersNow
    <3>5. QED
      BY <3>3, <3>4, RailShrinks
  <2>8. QED
    BY <1>2, <2>2, <2>3, <2>4, <2>5, <2>6, <2>7 DEF OrdersMove
<1>3. CASE UNCHANGED vars
  BY <1>1, <1>3 DEF vars
<1>4. ASSUME NEW o \in Orders, OrderStep(o) PROVE UNCHANGED orderVars \/ OrdersMove(o)
  BY <1>4, OneStoreMoves DEF SagaInv, Quiet, OnOrders, OnPayments, OnFleet
<1>5. QED
  BY <1>1, <1>2, <1>3, <1>4, NextIsOrderStep DEF SagaInv

\* If no two confirmations of one kitchen overlap, its rail never holds more orders
\* than it has capacity for, whatever is lost, late or retried: the advisory count
\* is right but for that race.
THEOREM OneAtATimeTheRailHolds ==
    SagaSpec /\ []OneConfirmAtATime => []RailWithinCapacity
<1>1. SagaInit => RailInv
  <2> SUFFICES ASSUME SagaInit, NEW k \in Restaurants PROVE RailOf(k) = {} /\ counted = {}
    BY FS_EmptySet, CapacityAssumption DEF RailInv
  <2>1. QED
    BY DEF SagaInit, OrdersInit, RailOf, OnRail, AbsentRow
<1>2. RailInv => RailWithinCapacity
  BY DEF RailInv, RailWithinCapacity
<1>3. SagaInv /\ RailInv /\ OneConfirmAtATime /\ OneConfirmAtATime' /\ [Next]_vars => RailInv'
  BY RailStep
<1>4. QED
  BY <1>1, <1>2, <1>3, SagaInvariant, PTL DEF SagaSpec
=============================================================================
