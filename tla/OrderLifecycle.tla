--------------------------- MODULE OrderLifecycle ---------------------------
(***************************************************************************)
(* What an order promises whoever looks at it from outside: its stage, the *)
(* kitchen's answer, where its money is and why it was cancelled.  Nothing *)
(* is said of workflows, requests, retries or databases.  OrderSaga        *)
(* implements this module (its property KeepsLifecycle), and the services  *)
(* that only read orders are modelled on top of it.                        *)
(***************************************************************************)
CONSTANT Orders   \* order ids

VARIABLES
    stage,    \* the order's status; "absent" before it is placed
    answer,   \* the kitchen's
    money,    \* "kept" until it is authorised, "taken", or "returned"
    cause     \* of a cancellation: "payment" or "saga", and "none" without one

orderView == <<stage, answer, money, cause>>

Stage == {"absent", "created", "confirmed", "assigned", "picked_up", "delivered",
          "cancelled", "compensation_failed"}
Open == {"created", "confirmed", "assigned", "picked_up"}
Answer == {"none", "accepted", "rejected"}
Money == {"kept", "taken", "returned"}
Cause == {"none", "payment", "saga"}

\* The deliveries' part of the life of an order, one stage after the other.
Following == [s \in {"confirmed", "assigned", "picked_up"} |->
                CASE s = "confirmed" -> "assigned"
                  [] s = "assigned"  -> "picked_up"
                  [] s = "picked_up" -> "delivered"]

LifeInit ==
    /\ stage = [o \in Orders |-> "absent"]
    /\ answer = [o \in Orders |-> "none"]
    /\ money = [o \in Orders |-> "kept"]
    /\ cause = [o \in Orders |-> "none"]

Place(o) ==
    /\ stage[o] = "absent"
    /\ stage' = [stage EXCEPT ![o] = "created"]
    /\ UNCHANGED <<answer, money, cause>>

\* The card is authorised, perhaps after the order has been declined: nobody
\* waits for that authorisation any longer and nobody stops it.
Take(o) ==
    /\ stage[o] = "created" \/ cause[o] = "payment"
    /\ money[o] = "kept"
    /\ money' = [money EXCEPT ![o] = "taken"]
    /\ UNCHANGED <<stage, answer, cause>>

\* Only what has been paid for goes on; a confirmation that arrives late may
\* find the money on its way back.
Confirm(o) ==
    /\ stage[o] = "created" /\ money[o] # "kept"
    /\ stage' = [stage EXCEPT ![o] = "confirmed"]
    /\ UNCHANGED <<answer, money, cause>>

Decide(o) ==
    /\ stage[o] = "confirmed" /\ answer[o] = "none"
    /\ \E d \in Answer \ {"none"} : answer' = [answer EXCEPT ![o] = d]
    /\ UNCHANGED <<stage, money, cause>>

Advance(o) ==
    /\ stage[o] \in DOMAIN Following
    /\ answer[o] = "accepted" /\ money[o] = "taken"
    /\ stage' = [stage EXCEPT ![o] = Following[@]]
    /\ UNCHANGED <<answer, money, cause>>

\* A delivered order is paid for and a declined one has no refund coming; the
\* refund of a flagged one may have gone through all the same.
Return(o) ==
    /\ stage[o] \in Open \cup {"compensation_failed"} /\ money[o] = "taken"
    /\ money' = [money EXCEPT ![o] = "returned"]
    /\ UNCHANGED <<stage, answer, cause>>

Decline(o) ==
    /\ stage[o] = "created" /\ money[o] # "returned"
    /\ stage' = [stage EXCEPT ![o] = "cancelled"]
    /\ cause' = [cause EXCEPT ![o] = "payment"]
    /\ UNCHANGED <<answer, money>>

\* The saga cancels what it has given the money back for, and flags the rest.
Cancel(o) ==
    /\ stage[o] \in Open /\ money[o] = "returned"
    /\ stage' = [stage EXCEPT ![o] = "cancelled"]
    /\ cause' = [cause EXCEPT ![o] = "saga"]
    /\ UNCHANGED <<answer, money>>

Flag(o) ==
    /\ stage[o] \in Open /\ money[o] # "kept"
    /\ stage' = [stage EXCEPT ![o] = "compensation_failed"]
    /\ cause' = [cause EXCEPT ![o] = "saga"]
    /\ UNCHANGED <<answer, money>>

LifeStep(o) ==
    \/ Place(o) \/ Take(o) \/ Confirm(o) \/ Decide(o) \/ Advance(o)
    \/ Return(o) \/ Decline(o) \/ Cancel(o) \/ Flag(o)

LifeNext == \E o \in Orders : LifeStep(o)

Life == LifeInit /\ [][LifeNext]_orderView

LifeTypeOK ==
    /\ stage \in [Orders -> Stage] /\ answer \in [Orders -> Answer]
    /\ money \in [Orders -> Money] /\ cause \in [Orders -> Cause]
=============================================================================
