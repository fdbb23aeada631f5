------------------------------ MODULE MCStores ------------------------------
(* The three stores of the saga, each alone under every order of requests.  *)
(* They are three databases and share no state, so a behaviour is one of    *)
(* one store, as `part` says, never of two at once.                         *)
EXTENDS OrderStore, PaymentStore, RiderFleet, TLC

CONSTANTS o1, o2, r1, r2, k1

VARIABLE part

storeVars == <<part, orderVars, payVars, riders>>

TwoOrders == {o1, o2}
TwoRiders == {r1, r2}
OneRestaurant == {k1}
SameRestaurant == [o \in TwoOrders |-> k1]
RoomForOne == [k \in OneRestaurant |-> 1]

Symmetry == Permutations(TwoOrders)

StoresInit ==
    /\ part \in {"orders", "payments", "fleet"}
    /\ OrdersInit /\ PayInit /\ FleetInit

\* Bounds: one rider is assigned; one order is paid for, by two executions
\* under either key.
OneIsSent == \A o \in Orders : orders'[o].rider # r2
OneIsPaid == \A c, d \in {c \in AuthCall : auth'[c] # "unsent"} : c.order = d.order

StoresNext ==
    \/ part = "orders" /\ OrdersNext /\ OneIsSent /\ UNCHANGED <<part, payVars, riders>>
    \/ part = "payments" /\ PayNext /\ OneIsPaid /\ UNCHANGED <<part, orderVars, riders>>
    \/ part = "fleet" /\ FleetNext /\ UNCHANGED <<part, orderVars, payVars>>

StoresSpec == StoresInit /\ [][StoresNext]_storeVars
=============================================================================
