---------------------------- MODULE PaymentStore ----------------------------
(***************************************************************************)
(* The Payment Service: the `payments` table, authorise() and the refund   *)
(* route.  Authorising is four steps with a gateway round trip of seconds  *)
(* between the last two, and the caller's own timeout does not stop a      *)
(* request the service has begun, so every execution of it is a process of *)
(* its own.  Executions differ by the kind of key they carry: the saga's,  *)
(* derived from the order id, or the customer's, on a manual payment.      *)
(***************************************************************************)
EXTENDS Identities, Integers, FiniteSets

CONSTANTS AuthAttempts,    \* AUTHORIZE_POLICY.maximum_attempts
          RefundAttempts   \* COMPENSATION_POLICY.maximum_attempts

ASSUME AttemptsAssumption == AuthAttempts \in Nat \ {0} /\ RefundAttempts \in Nat \ {0}

VARIABLES
    payments,   \* the one row an order may have (order_id is UNIQUE)
    auth,       \* where each execution of authorise() stands
    charges,    \* how often the gateway has been asked to authorise, per order
    refunding   \* refunds that have passed the gateway, not marked yet, per order

payVars == <<payments, auth, charges, refunding>>

KeyKind == {"saga", "manual"}

\* payments.status: 'captured' and 'failed' are declared and never written.
PaymentRow == [status : {"none", "pending", "authorized", "refunded"},
               key    : KeyKind \cup {"none"}]

AuthCall == [order : Orders, kind : KeyKind, attempt : 1..AuthAttempts]

\* "marked" has answered with the row it authorised itself, a "replayed_"
\* state with the row it found; "conflict" is a 409 and "crashed" no answer.
AuthStep == {"unsent", "sent", "checked", "inserted", "charged", "marked",
             "replayed_pending", "replayed_authorized", "replayed_refunded",
             "conflict", "crashed"}

NoPayment == [status |-> "none", key |-> "none"]

\* Broken variant: a replay always answers 'authorized'.
ReplayedAsAuthorized == [s \in {"pending", "authorized", "refunded"} |-> "replayed_authorized"]

Replayed == [s \in {"pending", "authorized", "refunded"} |->
               CASE s = "pending"    -> "replayed_pending"
                 [] s = "authorized" -> "replayed_authorized"
                 [] s = "refunded"   -> "replayed_refunded"]

-----------------------------------------------------------------------------
PayInit ==
    /\ payments = [o \in Orders |-> NoPayment]
    /\ auth = [c \in AuthCall |-> "unsent"]
    /\ charges = [o \in Orders |-> 0]
    /\ refunding = [o \in Orders |-> 0]

\* What sending a request does to the executions.
Sent(c) == [auth EXCEPT ![c] = "sent"]

\* (a) find_by_idempotency_key: a row under this key is the answer, whatever
\* its status.  (b) No row: the order is fetched and the amount settles it.
FindByKey(c) ==
    /\ auth[c] = "sent"
    /\ LET row == payments[c.order]
       IN  auth' = [auth EXCEPT ![c] = IF row.key = c.kind THEN Replayed[row.status]
                                                            ELSE "checked"]
    /\ UNCHANGED <<payments, charges, refunding>>

\* Broken variant: an order may have a second payment.
InsertPendingAgain(c) ==
    /\ auth[c] = "checked"
    /\ payments' = [payments EXCEPT ![c.order].status = "pending"]
    /\ auth' = [auth EXCEPT ![c] = "inserted"]
    /\ UNCHANGED <<charges, refunding>>

\* (c) create_pending: the order's one row, or a 409 from either unique index.
InsertPending(c) ==
    /\ auth[c] = "checked"
    /\ LET o == c.order
       IN  IF payments[o].status = "none"
             THEN /\ payments' = [payments EXCEPT ![o] = [status |-> "pending",
                                                          key    |-> c.kind]]
                  /\ auth' = [auth EXCEPT ![c] = "inserted"]
             ELSE /\ auth' = [auth EXCEPT ![c] = "conflict"]
                  /\ UNCHANGED payments
    /\ UNCHANGED <<charges, refunding>>

\* (d) The gateway round trip, ...
ChargeCard(c) ==
    /\ auth[c] = "inserted"
    /\ auth' = [auth EXCEPT ![c] = "charged"]
    /\ charges' = [charges EXCEPT ![c.order] = @ + 1]
    /\ UNCHANGED <<payments, refunding>>

\* Broken variant: the row is marked before the gateway has answered.
MarkAuthorizedFirst(c) ==
    /\ auth[c] \in {"inserted", "charged"}
    /\ auth' = [auth EXCEPT ![c] = "marked"]
    /\ payments' = [payments EXCEPT ![c.order].status = "authorized"]
    /\ UNCHANGED <<charges, refunding>>

\* ... and mark_authorized, by the row's id and on no other condition.
MarkAuthorized(c) ==
    /\ auth[c] = "charged"
    /\ auth' = [auth EXCEPT ![c] = "marked"]
    /\ payments' = [payments EXCEPT ![c.order].status = "authorized"]
    /\ UNCHANGED <<charges, refunding>>

Running == {"sent", "checked", "inserted", "charged"}

\* The service dies, or the gateway raises, at any of these steps.
CrashAuth(c) ==
    /\ auth[c] \in Running
    /\ auth' = [auth EXCEPT ![c] = "crashed"]
    /\ UNCHANGED <<payments, charges, refunding>>

AuthoriseStep(c) ==
    FindByKey(c) \/ InsertPending(c) \/ ChargeCard(c) \/ MarkAuthorized(c)

\* refund_for_saga, up to the gateway's answer.  No payment is a 422 and a
\* refunded one is returned as it is, without a word to the gateway.
Refundable(o) == payments[o].status \in {"pending", "authorized"}

IssueRefund(o) ==
    /\ Refundable(o)
    /\ refunding[o] < RefundAttempts
    /\ refunding' = [refunding EXCEPT ![o] = @ + 1]
    /\ UNCHANGED <<payments, auth, charges>>

\* Broken variant: the guard names one of the two refundable statuses.
MarkRefundedIfPending(o) ==
    /\ refunding[o] > 0
    /\ refunding' = [refunding EXCEPT ![o] = @ - 1]
    /\ payments' = IF payments[o].status = "pending"
                     THEN [payments EXCEPT ![o].status = "refunded"]
                     ELSE payments
    /\ UNCHANGED <<auth, charges>>

\* mark_refunded is guarded by the status, so the loser of two concurrent
\* refunds changes nothing.
MarkRefunded(o) ==
    /\ refunding[o] > 0
    /\ refunding' = [refunding EXCEPT ![o] = @ - 1]
    /\ payments' = IF Refundable(o)
                     THEN [payments EXCEPT ![o].status = "refunded"]
                     ELSE payments
    /\ UNCHANGED <<auth, charges>>

CrashRefund(o) ==
    /\ refunding[o] > 0
    /\ refunding' = [refunding EXCEPT ![o] = @ - 1]
    /\ UNCHANGED <<payments, auth, charges>>

SendAuth(c) ==
    /\ auth[c] = "unsent"
    /\ auth' = Sent(c)
    /\ UNCHANGED <<payments, charges, refunding>>

PayNext ==
    \/ \E c \in AuthCall : SendAuth(c) \/ AuthoriseStep(c) \/ CrashAuth(c)
    \/ \E o \in Orders : IssueRefund(o) \/ MarkRefunded(o) \/ CrashRefund(o)

PaySpec == PayInit /\ [][PayNext]_payVars

-----------------------------------------------------------------------------
PayTypeOK ==
    /\ payments \in [Orders -> PaymentRow]
    /\ auth \in [AuthCall -> AuthStep]
    /\ charges \in [Orders -> Nat]
    /\ refunding \in [Orders -> 0..RefundAttempts]

\* The double-charge guarantee of authorise(): whatever retries, replays,
\* concurrent manual payments and crashes there are, one order's card is put
\* before the gateway at most once.  It rests on the unique index alone, since
\* two executions may both find no row.
ChargedAtMostOnce == \A o \in Orders : charges[o] <= 1

\* A payment is 'authorized' only if the gateway was asked, and one that was
\* never asked can be 'pending' at most until it is refunded.
AuthorizedWasCharged ==
    \A o \in Orders : payments[o].status = "authorized" => charges[o] = 1
=============================================================================
