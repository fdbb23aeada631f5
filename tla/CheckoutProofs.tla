--------------------------- MODULE CheckoutProofs ---------------------------
(***************************************************************************)
(* Proofs about the checkout, for any carts, menus, requests and attempts: *)
(* an order is placed once, a refusal is an end, and the card is charged   *)
(* once and what the order says.                                           *)
(***************************************************************************)
EXTENDS Checkout, FiniteSetTheorems, SequenceTheorems, TLAPS

-----------------------------------------------------------------------------
(* The invariant.                                                          *)

\* A run that has made the order, and goes on with it or has ended so.
Ahead(run) ==
    \/ run.at \notin {"creating", "closed"}
    \/ run.result \in {"created", "PaymentDeclined", "KitchenAtCapacity"}

\* What the order's row and money are while such a run is where it is.
Truthful(run) ==
    /\ Ahead(run) => Placed
    /\ run.at \in {"publishing", "paying"} => money = "kept"
    /\ run.at \in {"confirming", "refunding", "starting"} => money # "kept"
    /\ run.at = "starting" => row.status = "confirmed"
    /\ run.result = "created" => money # "kept" /\ row.status \notin {"absent", "created"}
    /\ run.result = "PaymentDeclined" => row.status = "cancelled"
    /\ run.result = "KitchenAtCapacity" =>
          \/ row.status = "cancelled" /\ money = "returned"
          \/ row.status = "compensation_failed"

\* Only the last run may be open, and only one has made the order.
RunsInTurn ==
    /\ \A n \in DOMAIN runs : (n # Len(runs) => runs[n].at = "closed")
                                /\ (runs[n].at = "closed" <=> runs[n].result # "open")
    /\ \A m, n \in DOMAIN runs : Ahead(runs[m]) /\ Ahead(runs[n]) => m = n
    /\ \A n \in DOMAIN runs : Truthful(runs[n])

MoneyAndRow ==
    /\ money = "kept" => charged = 0
    /\ money # "kept" => charged = row.total /\ Placed
    /\ row.status \notin {"absent", "created", "cancelled"} => money # "kept"
    /\ Placed => /\ row.cart \in Carts
                 /\ CanBeOrdered(MenuOf[row.menu], row.cart)
                 /\ row.total = Total(MenuOf[row.menu], row.cart)

\* What a request may have been told, of the run it belongs to.
Told(sent) ==
    /\ sent.run \in 0..Len(runs)
    /\ sent.at = "none" => sent.code = 0 /\ sent.starts = "nothing"
    /\ sent.at = "waiting" => sent.code = 0
    /\ sent.at = "waiting" \/ sent.starts = "run" \/ sent.code \in {201, 402} => sent.run # 0
    /\ sent.code = 201 => sent.starts = "run" /\ runs[sent.run].result = "created"
    /\ sent.code = 402 => runs[sent.run].result = "PaymentDeclined"

RequestsInTurn ==
    /\ \A q \in Checkouts : Told(checkouts[q])
    /\ \A p, q \in Checkouts :
          checkouts[p].starts = "run" /\ checkouts[q].starts = "run" /\ checkouts[p].run = checkouts[q].run
             => p = q

CheckoutInv == CheckoutTypeOK /\ RunsInTurn /\ MoneyAndRow /\ RequestsInTurn

LEMMA CheckoutStarts == CheckoutInit => CheckoutInv
<1> SUFFICES ASSUME CheckoutInit PROVE CheckoutInv
  OBVIOUS
<1> USE DEF CheckoutInit
<1>1. CheckoutTypeOK
  BY CheckoutAssumption DEF CheckoutTypeOK, Sent, Row, Status
<1>2. RunsInTurn /\ MoneyAndRow /\ RequestsInTurn
  BY DEF RunsInTurn, MoneyAndRow, RequestsInTurn, Told, Placed
<1>3. QED
  BY <1>1, <1>2 DEF CheckoutInv

-----------------------------------------------------------------------------
(* The requests.                                                           *)

\* A request is answered, or waits for a run that is there.
LEMMA OneRequestKeeps ==
    ASSUME CheckoutInv, NEW q \in Checkouts, NEW new \in Sent,
           checkouts' = [checkouts EXCEPT ![q] = new], Told(new),
           new.starts = checkouts[q].starts,
           new.run = checkouts[q].run \/ new.starts = "nothing",
           UNCHANGED <<runs, row, charged, money, menu, changes>>
    PROVE  CheckoutInv'
<1>1. /\ checkouts' \in [Checkouts -> Sent] /\ checkouts'[q] = new
      /\ \A p \in Checkouts \ {q} : checkouts'[p] = checkouts[p]
  BY DEF CheckoutInv, CheckoutTypeOK
<1>2. CheckoutTypeOK' /\ RunsInTurn' /\ MoneyAndRow'
  BY <1>1 DEF CheckoutInv, CheckoutTypeOK, RunsInTurn, MoneyAndRow, Truthful, Ahead, Placed
<1>3. \A p \in Checkouts : Told(checkouts'[p])
  BY <1>1 DEF CheckoutInv, RequestsInTurn
<1>4. \A p \in Checkouts : Told(checkouts[p])'
  BY <1>3 DEF Told
<1>5. RequestsInTurn'
  BY <1>1, <1>4 DEF CheckoutInv, RequestsInTurn
<1>6. QED
  BY <1>2, <1>5 DEF CheckoutInv

\* A new run after the last one, and the request that starts it.
LEMMA NewRunKeeps ==
    ASSUME CheckoutInv, NEW q \in Checkouts, NEW new \in Sent, NEW cart \in Carts,
           OpenRuns = {}, runs' = Append(runs, NewRun(cart)),
           checkouts' = [checkouts EXCEPT ![q] = new],
           new.at = "waiting", new.run = Len(runs) + 1, new.code = 0,
           UNCHANGED <<row, charged, money, menu, changes>>
    PROVE  CheckoutInv'
<1> DEFINE run == NewRun(cart)
           last == Len(runs) + 1
<1>1. runs \in Seq(Run) /\ Len(runs) \in Nat /\ DOMAIN runs = 1..Len(runs)
  BY DEF CheckoutInv, CheckoutTypeOK
<1>2. run \in Run /\ run.at = "creating" /\ run.result = "open"
  BY CheckoutAssumption DEF NewRun, Run, Result
<1> HIDE DEF run
<1>3. runs' = Append(runs, run)
  BY DEF run
<1>4. /\ runs' \in Seq(Run) /\ Len(runs') = last /\ DOMAIN runs' = 1..last /\ runs'[last] = run
      /\ \A n \in DOMAIN runs : n # last /\ n \in DOMAIN runs' /\ runs'[n] = runs[n]
  BY <1>1, <1>2, <1>3, AppendProperties
<1>5. /\ checkouts' \in [Checkouts -> Sent] /\ checkouts'[q] = new
      /\ \A p \in Checkouts \ {q} : checkouts'[p] = checkouts[p]
  BY DEF CheckoutInv, CheckoutTypeOK
<1>6. CheckoutTypeOK' /\ MoneyAndRow'
  BY <1>4, <1>5 DEF CheckoutInv, CheckoutTypeOK, MoneyAndRow, Placed
<1>7. \A n \in DOMAIN runs : runs[n].at = "closed"
  BY DEF OpenRuns
<1>8. ~Ahead(run) /\ Truthful(run)
  BY <1>2 DEF Ahead, Truthful
<1>9. \A n \in DOMAIN runs' : n = last \/ n \in DOMAIN runs
  BY <1>1, <1>4
<1>10. RunsInTurn'
  <2>1. \A n \in DOMAIN runs' : Truthful(runs'[n])
    BY <1>4, <1>8, <1>9 DEF CheckoutInv, RunsInTurn
  <2>2. \A n \in DOMAIN runs' : Truthful(runs[n])'
    BY <2>1 DEF Truthful, Ahead, Placed
  <2>3. \A m, n \in DOMAIN runs' : Ahead(runs'[m]) /\ Ahead(runs'[n]) => m = n
    BY <1>4, <1>8, <1>9 DEF CheckoutInv, RunsInTurn
  <2>4. \A n \in DOMAIN runs' : (n # last => runs'[n].at = "closed")
                                  /\ (runs'[n].at = "closed" <=> runs'[n].result # "open")
    BY <1>2, <1>4, <1>7, <1>9 DEF CheckoutInv, RunsInTurn
  <2>5. QED
    BY <1>4, <2>2, <2>3, <2>4 DEF RunsInTurn, Ahead
<1>11. RequestsInTurn'
  <2>1. \A p \in Checkouts \ {q} : checkouts[p] \in Sent /\ Told(checkouts[p])
    BY DEF CheckoutInv, CheckoutTypeOK, RequestsInTurn
  <2>2. \A p \in Checkouts \ {q} : Told(checkouts[p])'
    BY <1>1, <1>4, <1>5, <2>1 DEF Told, Sent
  <2>3. Told(checkouts[q])'
    BY <1>1, <1>4, <1>5 DEF Told
  <2>4. \A p \in Checkouts \ {q} : checkouts[p].run # last
    BY <1>1, <2>1 DEF Told
  <2>5. QED
    BY <1>5, <2>2, <2>3, <2>4 DEF RequestsInTurn, CheckoutInv
<1>12. QED
  BY <1>6, <1>10, <1>11 DEF CheckoutInv

LEMMA RequestsKeep ==
    ASSUME CheckoutInv, NEW q \in Checkouts,
           (\E cart \in Carts : Send(q, cart)) \/ SendFails(q) \/ Answer(q) \/ Deadline(q)
    PROVE  CheckoutInv'
<1>1. /\ checkouts \in [Checkouts -> Sent] /\ checkouts[q] \in Sent /\ Told(checkouts[q])
      /\ runs \in Seq(Run) /\ Len(runs) \in Nat /\ DOMAIN runs = 1..Len(runs)
      /\ UNCHANGED <<row, charged, money, menu, changes>>
  BY DEF CheckoutInv, CheckoutTypeOK, RequestsInTurn, Send, SendFails, Answer, Deadline
<1>2. ASSUME NEW n \in Nat, NEW starts \in {"nothing", "run"}, Waits(q, n, starts), checkouts[q].at = "none"
      PROVE  \E new \in Sent : /\ checkouts' = [checkouts EXCEPT ![q] = new]
                               /\ new.at = "waiting" /\ new.run = n
                               /\ new.starts = starts /\ new.code = 0
  <2> DEFINE new == [checkouts[q] EXCEPT !.at = "waiting", !.run = n, !.starts = starts]
  <2>1. checkouts[q].code = 0
    BY <1>1, <1>2 DEF Told
  <2>2. new \in Sent /\ new.at = "waiting" /\ new.run = n /\ new.starts = starts /\ new.code = 0
    BY <1>1, <2>1 DEF Sent
  <2>3. checkouts' = [checkouts EXCEPT ![q] = new]
    BY <1>1, <1>2 DEF Waits
  <2>4. QED
    BY <2>2, <2>3
<1>3. ASSUME NEW cart \in Carts, Send(q, cart) PROVE CheckoutInv'
  <2>1. checkouts[q].at = "none" /\ checkouts[q].starts = "nothing"
    BY <1>1, <1>3 DEF Send, IsNext, Told
  <2>2. CASE OpenRuns # {}
    <3>1. Len(runs) \in Nat \ {0} /\ runs' = runs /\ Waits(q, Len(runs), "nothing")
      BY <1>1, <1>3, <2>2 DEF Send, OpenRuns
    <3>2. PICK new \in Sent : /\ checkouts' = [checkouts EXCEPT ![q] = new]
                              /\ new.at = "waiting" /\ new.run = Len(runs)
                              /\ new.starts = "nothing" /\ new.code = 0
      BY <1>2, <2>1, <3>1
    <3>3. Told(new)
      BY <3>1, <3>2 DEF Told
    <3>4. checkouts[q].starts = "nothing"
      BY <1>1, <2>1 DEF Sent
    <3>5. QED
      BY <1>1, <3>1, <3>2, <3>3, <3>4, OneRequestKeeps
  <2>3. CASE OpenRuns = {}
    <3>1. /\ Len(runs) + 1 \in Nat /\ Waits(q, Len(runs) + 1, "run")
          /\ runs' = Append(runs, NewRun(cart))
      BY <1>1, <1>3, <2>3 DEF Send
    <3>2. PICK new \in Sent : /\ checkouts' = [checkouts EXCEPT ![q] = new]
                              /\ new.at = "waiting" /\ new.run = Len(runs) + 1
                              /\ new.starts = "run" /\ new.code = 0
      BY <1>2, <2>1, <3>1
    <3>3. QED
      BY <1>1, <2>3, <3>1, <3>2, NewRunKeeps
  <2>4. QED
    BY <2>2, <2>3
<1>4. ASSUME NEW code \in StatusCode, runs' = runs, IsTold(q, code),
             code = 201 => checkouts[q].starts = "run" /\ runs[checkouts[q].run].result = "created",
             code = 402 => checkouts[q].run # 0
                             /\ runs[checkouts[q].run].result = "PaymentDeclined",
             checkouts[q].starts = "run" => checkouts[q].run # 0
      PROVE  CheckoutInv'
  <2> DEFINE new == [checkouts[q] EXCEPT !.at = "answered", !.code = code]
  <2>1. /\ new \in Sent /\ new.at = "answered" /\ new.run = checkouts[q].run
        /\ new.starts = checkouts[q].starts /\ new.code = code
    BY <1>1 DEF Sent
  <2>2. checkouts' = [checkouts EXCEPT ![q] = new]
    BY <1>1, <1>4 DEF IsTold
  <2> HIDE DEF new
  <2>3. Told(new)
    BY <1>1, <1>4, <2>1 DEF Told
  <2>4. QED
    BY <1>1, <1>4, <2>1, <2>2, <2>3, OneRequestKeeps
<1>5. checkouts[q].starts = "run" => checkouts[q].run # 0
  BY <1>1 DEF Told
<1>6. CASE SendFails(q) \/ Deadline(q)
  BY <1>4, <1>5, <1>6 DEF SendFails, Deadline, StatusCode
<1>7. CASE Answer(q)
  <2> DEFINE code == Code(checkouts[q].starts, runs[checkouts[q].run].result)
  <2>1. checkouts[q].at = "waiting" /\ runs' = runs /\ IsTold(q, code)
    BY <1>7 DEF Answer
  <2>2. /\ code \in StatusCode
        /\ code = 201 => checkouts[q].starts = "run" /\ runs[checkouts[q].run].result = "created"
        /\ code = 402 => runs[checkouts[q].run].result = "PaymentDeclined"
    BY DEF Code, StatusCode
  <2>3. checkouts[q].run # 0
    BY <1>1, <2>1 DEF Told
  <2> HIDE DEF code
  <2>4. QED
    BY <1>4, <1>5, <2>1, <2>2, <2>3
<1>8. QED
  BY <1>3, <1>6, <1>7

-----------------------------------------------------------------------------
(* The runs.                                                               *)

\* A step of the open run: what is left to show of it is that it is true of the
\* row and the money as they are then, and that no other run is.
LEMMA OneRunKeeps ==
    ASSUME CheckoutInv, NEW n \in DOMAIN runs, NEW new \in Run, runs[n].at # "closed",
           runs' = [runs EXCEPT ![n] = new],
           new.at = "closed" <=> new.result # "open",
           \A m \in DOMAIN runs \ {n} : Ahead(new) \/ row' # row \/ money' # money => ~Ahead(runs[m]),
           row' \in Row, charged' \in Nat, money' \in {"kept", "taken", "returned"},
           MoneyAndRow', Truthful(new)',
           UNCHANGED <<checkouts, menu, changes>>
    PROVE  CheckoutInv'
<1>1. runs \in Seq(Run) /\ Len(runs) \in Nat /\ DOMAIN runs = 1..Len(runs)
  BY DEF CheckoutInv, CheckoutTypeOK
<1>2. /\ runs' \in Seq(Run) /\ Len(runs') = Len(runs) /\ DOMAIN runs' = DOMAIN runs
      /\ runs'[n] = new /\ \A m \in DOMAIN runs \ {n} : runs'[m] = runs[m]
  BY <1>1, ExceptSeq
<1>3. CheckoutTypeOK'
  BY <1>2 DEF CheckoutInv, CheckoutTypeOK
<1>4. n = Len(runs) /\ runs[n].result = "open"
  BY DEF CheckoutInv, RunsInTurn
<1>5. RunsInTurn'
  <2>1. ASSUME NEW m \in DOMAIN runs \ {n} PROVE Truthful(runs[m])'
    <3>1. runs[m].at = "closed" /\ Truthful(runs[m])
      BY <1>4 DEF CheckoutInv, RunsInTurn
    <3>2. CASE row' = row /\ money' = money
      BY <1>2, <3>1, <3>2 DEF Truthful, Ahead, Placed
    <3>3. CASE row' # row \/ money' # money
      <4>1. ~Ahead(runs[m])
        BY <3>3
      <4>2. QED
        BY <1>2, <3>1, <4>1 DEF Truthful, Ahead
    <3>4. QED
      BY <3>2, <3>3
  <2>2. Truthful(runs[n])'
    BY <1>2 DEF Truthful, Ahead, Placed
  <2>3. \A k, m \in DOMAIN runs : Ahead(runs'[k]) /\ Ahead(runs'[m]) => k = m
    BY <1>2 DEF CheckoutInv, RunsInTurn
  <2>4. \A m \in DOMAIN runs : (m # Len(runs) => runs'[m].at = "closed")
                                 /\ (runs'[m].at = "closed" <=> runs'[m].result # "open")
    BY <1>2, <1>4 DEF CheckoutInv, RunsInTurn
  <2>5. QED
    BY <1>2, <2>1, <2>2, <2>3, <2>4 DEF RunsInTurn, Ahead
<1>6. RequestsInTurn'
  <2>1. \A q \in Checkouts : checkouts[q] \in Sent /\ Told(checkouts[q])
    BY DEF CheckoutInv, CheckoutTypeOK, RequestsInTurn
  <2>2. ASSUME NEW q \in Checkouts, checkouts[q].code \in {201, 402}
        PROVE  runs'[checkouts[q].run] = runs[checkouts[q].run]
    <3>1. checkouts[q].run \in DOMAIN runs
      BY <1>1, <2>1, <2>2 DEF Told
    <3>2. runs[checkouts[q].run].result # "open"
      BY <2>1, <2>2 DEF Told
    <3>3. QED
      BY <1>2, <1>4, <3>1, <3>2
  <2>3. \A q \in Checkouts : Told(checkouts[q])'
    BY <1>2, <2>1, <2>2 DEF Told
  <2>4. QED
    BY <2>3 DEF CheckoutInv, RequestsInTurn
<1>7. QED
  BY <1>3, <1>5, <1>6 DEF CheckoutInv

LEMMA OpenRun ==
    ASSUME CheckoutInv, NEW n \in DOMAIN runs, runs[n].at # "closed"
    PROVE  /\ runs \in Seq(Run) /\ DOMAIN runs = 1..Len(runs) /\ runs[n] \in Run
           /\ runs[n].result = "open" /\ Truthful(runs[n])
           /\ row \in Row /\ charged \in Nat /\ money \in {"kept", "taken", "returned"}
           /\ menu \in Menus
<1>1. CheckoutTypeOK /\ RunsInTurn
  BY DEF CheckoutInv
<1>2. runs \in Seq(Run)
  BY <1>1 DEF CheckoutTypeOK
<1>3. DOMAIN runs = 1..Len(runs) /\ runs[n] \in Run
  BY <1>2
<1>4. QED
  BY <1>1, <1>2, <1>3 DEF CheckoutTypeOK, RunsInTurn

LEMMA OpenRunGoes ==
    ASSUME CheckoutInv, NEW n \in DOMAIN runs, runs[n].at # "closed",
           NEW at \in {"publishing", "paying", "cancelling", "confirming", "refunding", "starting"},
           Goes(n, at)
    PROVE  \E new \in Run : /\ runs' = [runs EXCEPT ![n] = new]
                            /\ new.at = at /\ new.result = "open"
<1> DEFINE new == [runs[n] EXCEPT !.at = at]
<1>1. new \in Run /\ new.at = at /\ new.result = "open"
  BY OpenRun DEF Run
<1>2. runs' = [runs EXCEPT ![n] = new]
  BY OpenRun DEF Goes
<1>3. QED
  BY <1>1, <1>2

LEMMA OpenRunCloses ==
    ASSUME CheckoutInv, NEW n \in DOMAIN runs, runs[n].at # "closed",
           NEW result \in Result, Closes(n, result)
    PROVE  \E new \in Run : /\ runs' = [runs EXCEPT ![n] = new]
                            /\ new.at = "closed" /\ new.result = result
<1> DEFINE new == [runs[n] EXCEPT !.at = "closed", !.result = result]
<1>1. new \in Run /\ new.at = "closed" /\ new.result = result
  BY OpenRun DEF Run
<1>2. runs' \in [DOMAIN runs -> Run] /\ runs'[n] = new
        /\ \A m \in DOMAIN runs \ {n} : runs'[m] = runs[m]
  BY <1>1, OpenRun DEF Closes
<1>3. runs' = [runs EXCEPT ![n] = new]
  BY <1>2, OpenRun DEF Closes
<1>4. QED
  BY <1>1, <1>3

\* A run that is not ahead yet writes the row, or finds it, or is refused.
LEMMA CreateOrderKeeps ==
    ASSUME CheckoutInv, NEW n \in DOMAIN runs, CreateOrder(n)
    PROVE  CheckoutInv'
<1>1. /\ runs[n].at = "creating" /\ runs \in Seq(Run) /\ runs[n] \in Run /\ runs[n].result = "open"
      /\ row \in Row /\ charged \in Nat /\ money \in {"kept", "taken", "returned"}
      /\ menu \in Menus /\ runs[n].cart \in Carts
      /\ UNCHANGED <<checkouts, charged, money, menu, changes>>
  <2>1. runs[n].at = "creating" /\ UNCHANGED <<checkouts, charged, money, menu, changes>>
    BY DEF CreateOrder
  <2>2. QED
    BY <2>1, OpenRun DEF Run
<1>2. \/ UNCHANGED row
      \/ /\ ~Placed /\ CanBeOrdered(MenuOf[menu], runs[n].cart)
         /\ row' = [status |-> "created", total |-> Total(MenuOf[menu], runs[n].cart),
                    cart |-> runs[n].cart, menu |-> menu]
  BY DEF CreateOrder, InsertOrFind
<1>3. /\ row' \in Row /\ MoneyAndRow'
      /\ row' # row => ~Placed /\ Placed' /\ \A m \in DOMAIN runs : ~Ahead(runs[m])
  <2>1. CASE UNCHANGED row
    BY <1>1, <2>1 DEF CheckoutInv, MoneyAndRow, Placed
  <2>2. CASE ~UNCHANGED row
    <3>1. Total(MenuOf[menu], runs[n].cart) \in Nat
      BY <1>1, <1>2, <2>2, CartsArePriced
    <3>2. row' \in Row
      BY <1>1, <1>2, <2>2, <3>1 DEF Row, Status
    <3>3. money = "kept" /\ \A m \in DOMAIN runs : ~Ahead(runs[m])
      BY <1>2, <2>2 DEF CheckoutInv, MoneyAndRow, RunsInTurn, Truthful
    <3>4. MoneyAndRow' /\ Placed'
      BY <1>1, <1>2, <2>2, <3>3 DEF CheckoutInv, MoneyAndRow, Placed
    <3>5. QED
      BY <1>2, <2>2, <3>2, <3>3, <3>4
  <2>3. QED
    BY <2>1, <2>2
\* It closes without the order being its own ...
<1>4. ASSUME NEW result \in {"existed", "OrderCreateRejected", "OrderCreateConflict", "http_404",
                             "none"},
             Closes(n, result)
      PROVE  CheckoutInv'
  <2>1. result \in Result
    BY DEF Result, Failure
  <2>2. PICK new \in Run : /\ runs' = [runs EXCEPT ![n] = new]
                           /\ new.at = "closed" /\ new.result = result
    BY <1>1, <1>4, <2>1, OpenRunCloses
  <2>3. ~Ahead(new) /\ Truthful(new)' /\ new.result # "open"
    BY <2>2 DEF Ahead, Truthful
  <2>4. QED
    BY <1>1, <1>3, <2>2, <2>3, OneRunKeeps
\* ... or tries again ...
<1>5. CASE Retries(n)
  <2>1. CASE runs[n].attempt < MaxAttempts /\ runs' = [runs EXCEPT ![n].attempt = @ + 1]
    <3> DEFINE next == [runs[n] EXCEPT !.attempt = @ + 1]
    <3>1. next \in Run /\ next.at = "creating" /\ next.result = "open"
      <4>1. runs[n].attempt + 1 \in 1..MaxAttempts
        BY <1>1, <2>1, CheckoutAssumption DEF Run
      <4>2. QED
        BY <1>1, <4>1 DEF Run
    <3>2. runs' = [runs EXCEPT ![n] = next]
      BY <1>1, <2>1
    <3>3. PICK new \in Run : /\ runs' = [runs EXCEPT ![n] = new]
                             /\ new.at = "creating" /\ new.result = "open"
      BY <3>1, <3>2
    <3>4. ~Ahead(new) /\ Truthful(new)'
      BY <3>3 DEF Ahead, Truthful
    <3>5. QED
      BY <1>1, <1>3, <3>3, <3>4, OneRunKeeps
  <2>2. CASE Closes(n, "none")
    BY <1>4, <2>2
  <2>3. QED
    BY <1>5, <2>1, <2>2 DEF Retries
\* ... or has made the order.
<1>6. CASE InsertOrFind(n) /\ Goes(n, "publishing") /\ ~Placed
  <2>1. PICK new \in Run : /\ runs' = [runs EXCEPT ![n] = new]
                           /\ new.at = "publishing" /\ new.result = "open"
    BY <1>1, <1>6, OpenRunGoes
  <2>2. money = "kept" /\ \A m \in DOMAIN runs : ~Ahead(runs[m])
    BY <1>6 DEF CheckoutInv, MoneyAndRow, RunsInTurn, Truthful
  <2>3. Placed'
    BY <1>6 DEF InsertOrFind, Placed
  <2>4. Truthful(new)'
    BY <1>1, <2>1, <2>2, <2>3 DEF Truthful
  <2>5. QED
    BY <1>1, <1>3, <2>1, <2>2, <2>4, OneRunKeeps
<1>7. QED
  BY <1>4, <1>5, <1>6 DEF CreateOrder, Created

\* A run that is ahead takes the order on, or ends with it: no other has.
LEMMA AheadKeeps ==
    ASSUME CheckoutInv, NEW n \in DOMAIN runs, Ahead(runs[n]), runs[n].at # "closed",
           NEW new \in Run, runs' = [runs EXCEPT ![n] = new],
           new.at = "closed" <=> new.result # "open",
           \/ row' = row
           \/ \E status \in Status \ {"absent"} : row' = [row EXCEPT !.status = status],
           charged' \in Nat, money' \in {"kept", "taken", "returned"},
           row'.status \notin {"absent", "created", "cancelled"} => money' # "kept",
           money' = "kept" => charged' = 0, money' # "kept" => charged' = row.total,
           Truthful(new)',
           UNCHANGED <<checkouts, menu, changes>>
    PROVE  CheckoutInv'
<1>1. row \in Row /\ Placed
  BY OpenRun DEF Truthful
<1>2. /\ row' \in Row /\ row'.total = row.total /\ row'.cart = row.cart /\ row'.menu = row.menu
      /\ Placed'
  BY <1>1 DEF Row, Placed
<1>3. MoneyAndRow'
  BY <1>1, <1>2 DEF CheckoutInv, MoneyAndRow
<1>4. \A m \in DOMAIN runs \ {n} : ~Ahead(runs[m])
  BY DEF CheckoutInv, RunsInTurn
<1>5. QED
  BY <1>2, <1>3, <1>4, OneRunKeeps

LEMMA RunsKeep ==
    ASSUME CheckoutInv, NEW n \in DOMAIN runs, RunStep(n)
    PROVE  CheckoutInv'
<1>1. CASE CreateOrder(n)
  BY <1>1, CreateOrderKeeps
<1>2. CASE runs[n].at \notin {"creating", "closed"}
  <2>1. /\ Ahead(runs[n]) /\ Truthful(runs[n]) /\ Placed /\ row \in Row /\ charged \in Nat
        /\ money \in {"kept", "taken", "returned"} /\ row.total \in Nat
        /\ runs[n].at # "closed" /\ MoneyAndRow
    BY <1>2, OpenRun DEF Ahead, Truthful, Row, CheckoutInv
  <2>2. CASE PublishCreated(n)
    <3>1. PICK new \in Run : /\ runs' = [runs EXCEPT ![n] = new]
                             /\ new.at = "paying" /\ new.result = "open"
      BY <2>1, <2>2, OpenRunGoes DEF PublishCreated
    <3>2. UNCHANGED <<checkouts, row, charged, money, menu, changes>> /\ money = "kept"
      BY <2>1, <2>2 DEF PublishCreated, Truthful
    <3>3. Truthful(new)'
      BY <2>1, <3>1, <3>2 DEF Truthful, Placed
    <3>4. QED
      BY <2>1, <3>1, <3>2, <3>3, AheadKeeps DEF MoneyAndRow
  <2>3. CASE Pay(n)
    <3>1. /\ runs[n].at = "paying" /\ money = "kept" /\ charged = 0
          /\ UNCHANGED <<checkouts, row, menu, changes>>
      BY <2>1, <2>3 DEF Pay, Truthful, MoneyAndRow
    <3>2. CASE Charge(n) /\ (Goes(n, "confirming") \/ Goes(n, "cancelling"))
      <4>1. PICK new \in Run : /\ runs' = [runs EXCEPT ![n] = new]
                               /\ new.at \in {"confirming", "cancelling"} /\ new.result = "open"
        BY <2>1, <3>2, OpenRunGoes
      <4>2. charged' = row.total /\ money' = "taken"
        BY <2>1, <3>1, <3>2 DEF Charge
      <4>3. Truthful(new)'
        BY <2>1, <3>1, <4>1, <4>2 DEF Truthful, Placed
      <4>4. QED
        BY <2>1, <3>1, <4>1, <4>2, <4>3, AheadKeeps
    <3>3. CASE Goes(n, "cancelling") /\ UNCHANGED <<charged, money>>
      <4>1. PICK new \in Run : /\ runs' = [runs EXCEPT ![n] = new]
                               /\ new.at = "cancelling" /\ new.result = "open"
        BY <2>1, <3>3, OpenRunGoes
      <4>2. Truthful(new)'
        BY <2>1, <3>1, <3>3, <4>1 DEF Truthful, Placed
      <4>3. QED
        BY <2>1, <3>1, <3>3, <4>1, <4>2, AheadKeeps DEF MoneyAndRow
    <3>4. QED
      BY <2>3, <3>2, <3>3 DEF Pay
  <2>4. CASE CancelUnpaid(n)
    <3>1. UNCHANGED <<checkouts, charged, money, menu, changes>>
      BY <2>4 DEF CancelUnpaid
    <3>2. CASE row' = [row EXCEPT !.status = "cancelled"] /\ Closes(n, "PaymentDeclined")
      <4>1. PICK new \in Run : /\ runs' = [runs EXCEPT ![n] = new]
                               /\ new.at = "closed" /\ new.result = "PaymentDeclined"
        BY <2>1, <3>2, OpenRunCloses DEF Result, Failure
      <4>2. row'.status = "cancelled" /\ "cancelled" \in Status \ {"absent"}
        BY <2>1, <3>2 DEF Row, Status
      <4>3. Truthful(new)'
        BY <4>1, <4>2 DEF Truthful, Placed
      <4>4. QED
        BY <2>1, <3>1, <3>2, <4>1, <4>2, <4>3, AheadKeeps DEF MoneyAndRow
    <3>3. CASE Closes(n, "none") /\ UNCHANGED row
      <4>1. PICK new \in Run : /\ runs' = [runs EXCEPT ![n] = new]
                               /\ new.at = "closed" /\ new.result = "none"
        BY <2>1, <3>3, OpenRunCloses DEF Result, Failure
      <4>2. Truthful(new)'
        BY <4>1 DEF Truthful, Ahead
      <4>3. QED
        BY <2>1, <3>1, <3>3, <4>1, <4>2, AheadKeeps DEF MoneyAndRow
    <3>4. QED
      BY <2>4, <3>2, <3>3 DEF CancelUnpaid
  <2>5. CASE Confirm(n)
    <3>1. UNCHANGED <<checkouts, charged, money, menu, changes>> /\ money # "kept"
      BY <2>1, <2>5 DEF Confirm, Truthful
    <3>2. CASE row' = [row EXCEPT !.status = "confirmed"] /\ Goes(n, "starting")
      <4>1. PICK new \in Run : /\ runs' = [runs EXCEPT ![n] = new]
                               /\ new.at = "starting" /\ new.result = "open"
        BY <2>1, <3>2, OpenRunGoes
      <4>2. row'.status = "confirmed" /\ "confirmed" \in Status \ {"absent"}
        BY <2>1, <3>2 DEF Row, Status
      <4>3. Truthful(new)'
        BY <3>1, <4>1, <4>2 DEF Truthful, Placed
      <4>4. QED
        BY <2>1, <3>1, <3>2, <4>1, <4>2, <4>3, AheadKeeps DEF MoneyAndRow
    <3>3. CASE Goes(n, "refunding") /\ UNCHANGED row
      <4>1. PICK new \in Run : /\ runs' = [runs EXCEPT ![n] = new]
                               /\ new.at = "refunding" /\ new.result = "open"
        BY <2>1, <3>3, OpenRunGoes
      <4>2. Truthful(new)'
        BY <2>1, <3>1, <3>3, <4>1 DEF Truthful, Placed
      <4>3. QED
        BY <2>1, <3>1, <3>3, <4>1, <4>2, AheadKeeps DEF MoneyAndRow
    <3>4. QED
      BY <2>5, <3>2, <3>3 DEF Confirm
  <2>6. CASE Compensate(n)
    <3>1. UNCHANGED <<checkouts, charged, menu, changes>> /\ money # "kept"
      BY <2>1, <2>6 DEF Compensate, Truthful
    <3>2. ASSUME NEW status \in {"cancelled", "compensation_failed"},
                 row' = [row EXCEPT !.status = status], Closes(n, "KitchenAtCapacity"),
                 money' = IF status = "cancelled" THEN "returned" ELSE money
          PROVE  CheckoutInv'
      <4>1. PICK new \in Run : /\ runs' = [runs EXCEPT ![n] = new]
                               /\ new.at = "closed" /\ new.result = "KitchenAtCapacity"
        BY <2>1, <3>2, OpenRunCloses DEF Result, Failure
      <4>2. row'.status = status /\ status \in Status \ {"absent"}
        BY <2>1, <3>2 DEF Row, Status
      <4>3. money' \in {"taken", "returned"}
        BY <2>1, <3>1, <3>2
      <4>4. Truthful(new)'
        BY <3>2, <4>1, <4>2 DEF Truthful, Placed
      <4>5. QED
        BY <2>1, <3>1, <3>2, <4>1, <4>2, <4>3, <4>4, AheadKeeps DEF MoneyAndRow
    <3>3. CASE Closes(n, "none") /\ UNCHANGED <<row, money>>
      <4>1. PICK new \in Run : /\ runs' = [runs EXCEPT ![n] = new]
                               /\ new.at = "closed" /\ new.result = "none"
        BY <2>1, <3>3, OpenRunCloses DEF Result, Failure
      <4>2. Truthful(new)'
        BY <4>1 DEF Truthful, Ahead
      <4>3. QED
        BY <2>1, <3>1, <3>3, <4>1, <4>2, AheadKeeps DEF MoneyAndRow
    <3>4. QED
      BY <2>6, <3>2, <3>3 DEF Compensate
  <2>7. CASE StartFulfillment(n)
    <3>1. PICK new \in Run : /\ runs' = [runs EXCEPT ![n] = new]
                             /\ new.at = "closed" /\ new.result = "created"
      BY <2>1, <2>7, OpenRunCloses DEF StartFulfillment, Result
    <3>2. /\ UNCHANGED <<checkouts, row, charged, money, menu, changes>>
          /\ money # "kept" /\ row.status = "confirmed"
      BY <2>1, <2>7 DEF StartFulfillment, Truthful
    <3>3. Truthful(new)'
      BY <3>1, <3>2 DEF Truthful, Placed
    <3>4. QED
      BY <2>1, <3>1, <3>2, <3>3, AheadKeeps DEF MoneyAndRow
  <2>8. QED
    BY <1>2, <2>2, <2>3, <2>4, <2>5, <2>6, <2>7 DEF RunStep, CreateOrder
<1>3. QED
  BY <1>1, <1>2 DEF RunStep, PublishCreated, Pay, CancelUnpaid, Confirm, Compensate,
                    StartFulfillment

-----------------------------------------------------------------------------
(* What is not the checkout's.                                             *)

\* No run is open: those that are closed are told of, and are not about an
\* order that is confirmed and not theirs.
LEMMA FulfillKeeps == ASSUME CheckoutInv, Fulfill PROVE CheckoutInv'
<1>1. /\ row.status = "confirmed" /\ UNCHANGED <<checkouts, runs, charged, menu, changes>>
      /\ row \in Row /\ money \in {"kept", "taken", "returned"} /\ money # "kept"
      /\ \A n \in DOMAIN runs : runs[n].at = "closed"
  BY DEF Fulfill, CheckoutInv, CheckoutTypeOK, MoneyAndRow, OpenRuns
<1>2. PICK status \in {"delivered", "cancelled", "compensation_failed"} :
        row' = [row EXCEPT !.status = status]
  BY DEF Fulfill
<1>3. /\ row' \in Row /\ row'.status = status /\ row'.total = row.total
      /\ row'.cart = row.cart /\ row'.menu = row.menu
  BY <1>1, <1>2 DEF Row, Status
<1>4. money' \in {"taken", "returned"}
  BY <1>1 DEF Fulfill
<1>5. CheckoutTypeOK' /\ MoneyAndRow'
  BY <1>1, <1>3, <1>4 DEF CheckoutInv, CheckoutTypeOK, MoneyAndRow, Placed
<1>6. RunsInTurn'
  <2>1. ASSUME NEW n \in DOMAIN runs PROVE Truthful(runs[n])'
    BY <1>1, <1>3, <1>4 DEF CheckoutInv, RunsInTurn, Truthful, Ahead, Placed
  <2>2. QED
    BY <1>1, <2>1 DEF CheckoutInv, RunsInTurn, Ahead
<1>7. RequestsInTurn'
  BY <1>1 DEF CheckoutInv, RequestsInTurn, Told
<1>8. QED
  BY <1>5, <1>6, <1>7 DEF CheckoutInv

LEMMA ChangeMenuKeeps == ASSUME CheckoutInv, ChangeMenu PROVE CheckoutInv'
<1>1. CheckoutTypeOK'
  BY CheckoutAssumption DEF ChangeMenu, CheckoutInv, CheckoutTypeOK
<1>2. RunsInTurn' /\ MoneyAndRow' /\ RequestsInTurn'
  BY DEF ChangeMenu, CheckoutInv, RunsInTurn, MoneyAndRow, RequestsInTurn, Truthful, Ahead, Placed,
         Told
<1>3. QED
  BY <1>1, <1>2 DEF CheckoutInv

THEOREM CheckoutInvariant == CheckoutSpec => []CheckoutInv
<1>1. CheckoutInv /\ UNCHANGED checkoutVars => CheckoutInv'
  BY DEF checkoutVars, CheckoutInv, CheckoutTypeOK, RunsInTurn, MoneyAndRow, RequestsInTurn,
         Truthful, Ahead, Placed, Told
<1>2. CheckoutInv /\ [CheckoutNext]_checkoutVars => CheckoutInv'
  BY <1>1, RequestsKeep, RunsKeep, FulfillKeeps, ChangeMenuKeeps DEF CheckoutNext
<1>3. QED
  BY <1>2, CheckoutStarts, PTL DEF CheckoutSpec

-----------------------------------------------------------------------------
(* What the customer may rely on.                                          *)

\* One request at most is answered 201, and the order is paid for.
THEOREM OrdersArePlacedOnce == CheckoutSpec => []PlacedOnce
<1>1. CheckoutInv => PlacedOnce
  <2> SUFFICES ASSUME CheckoutInv PROVE PlacedOnce
    OBVIOUS
  <2> DEFINE placing == {q \in Checkouts : checkouts[q].code = 201}
  <2>1. ASSUME NEW q \in placing
        PROVE  /\ checkouts[q].starts = "run" /\ checkouts[q].run \in DOMAIN runs
               /\ Ahead(runs[checkouts[q].run])
               /\ money # "kept" /\ row.status \notin {"absent", "created"}
    <3>1. Told(checkouts[q]) /\ checkouts[q].run \in 1..Len(runs) /\ runs \in Seq(Run)
      BY DEF CheckoutInv, CheckoutTypeOK, RequestsInTurn, Told
    <3>2. /\ checkouts[q].run \in DOMAIN runs /\ checkouts[q].starts = "run"
          /\ runs[checkouts[q].run].result = "created"
      BY <3>1 DEF Told
    <3>3. QED
      BY <3>2 DEF CheckoutInv, RunsInTurn, Truthful, Ahead
  <2>2. \A p, q \in placing : p = q
    BY <2>1 DEF CheckoutInv, RunsInTurn, RequestsInTurn
  <2>3. Cardinality(placing) <= 1
    <3>1. CASE placing = {}
      BY <3>1, FS_EmptySet
    <3>2. CASE placing # {}
      <4>1. PICK q \in placing : TRUE
        BY <3>2
      <4>2. placing = {q}
        BY <2>2, <4>1
      <4> HIDE DEF placing
      <4>3. Cardinality(placing) = 1
        BY <4>2, FS_Singleton
      <4>4. QED
        BY <4>3
    <3>3. QED
      BY <3>1, <3>2
  <2>4. QED
    BY <2>1, <2>3 DEF PlacedOnce
<1>2. QED
  BY <1>1, CheckoutInvariant, PTL

\* Who is refused has an order that is over, and the money back or a flag.
THEOREM RefusalsAreUndone == CheckoutSpec => []RefusedIsUndone
<1>1. CheckoutInv => RefusedIsUndone
  <2> SUFFICES ASSUME CheckoutInv, NEW q \in Checkouts, checkouts[q].run # 0
               PROVE  LET result == runs[checkouts[q].run].result
                      IN  /\ checkouts[q].code = 402 => row.status = "cancelled"
                          /\ checkouts[q].code = 409 /\ result = "KitchenAtCapacity" =>
                                \/ row.status = "cancelled" /\ money = "returned"
                                \/ row.status = "compensation_failed"
    BY DEF RefusedIsUndone
  <2>1. /\ Told(checkouts[q]) /\ checkouts[q].run \in 0..Len(runs) /\ runs \in Seq(Run)
    BY DEF CheckoutInv, CheckoutTypeOK, RequestsInTurn, Told
  <2>2. checkouts[q].run \in DOMAIN runs
    BY <2>1
  <2>3. Truthful(runs[checkouts[q].run])
    BY <2>2 DEF CheckoutInv, RunsInTurn
  <2>4. QED
    BY <2>1, <2>3 DEF Told, Truthful
<1>2. QED
  BY <1>1, CheckoutInvariant, PTL

\* The card is charged once and what the cart cost by the menu of its row.
THEOREM TotalsAreCharged == CheckoutSpec => []ChargedIsTheTotal
<1>1. CheckoutInv => ChargedIsTheTotal
  BY DEF CheckoutInv, MoneyAndRow, ChargedIsTheTotal
<1>2. QED
  BY <1>1, CheckoutInvariant, PTL
=============================================================================
