---------------------------- MODULE MCOrderSaga ----------------------------
(* One order or two, at one kitchen with room for one, and one rider.      *)
EXTENDS SagaClaims

CONSTANTS o1, o2, r1, k1

OneOrder == {o1}
TwoOrders == {o1, o2}
OneRider == {r1}
OneRestaurant == {k1}
SameRestaurant == [o \in Orders |-> k1]
RoomForOne == [k \in Restaurants |-> 1]
=============================================================================
