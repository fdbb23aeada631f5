-------------------------- MODULE MCEventConsumers --------------------------
(* One order's events, from creation to delivery, or fewer with some of     *)
(* them repeated; one consumer at a time.                                  *)
EXTENDS ConsumerClaims

CONSTANTS o1

MCOrders == {o1}
Either == {{"analytics"}, {"notification"}}
=============================================================================
