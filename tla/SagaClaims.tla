----------------------------- MODULE SagaClaims -----------------------------
(***************************************************************************)
(* Statements the repository's comments and docstrings make about the      *)
(* saga, as invariants of OrderSaga, each with the line that makes it.     *)
(* The code does not keep them: each is refuted by a run of its own, and   *)
(* the README tells the shortest story of how.                             *)
(***************************************************************************)
EXTENDS OrderSaga

\* order/workflow.py:131 "so two orders cannot both take the last one":
\* a kitchen's rail never holds more orders than the kitchen has capacity for.
RailWithinCapacity ==
    \A k \in Restaurants : Cardinality(RailOf(k)) <= Capacity[k]

\* order/activities.py:24 "Every activity is idempotent ... a retry has to be a
\* no-op": so an order turned away because its kitchen is full is one that never
\* had a place on the rail itself.
FullForOthersOnly ==
    \A o \in Orders :
        wf[o].reason = "kitchen_at_capacity" => ~HasEntered(o, "confirmed")

\* order/workflow.py:93 "The order already existed, so an earlier run of this
\* workflow id owns its saga": an order that is returned has a run that was told
\* to carry it on.
ReturnedIsOwned ==
    \A o \in Orders : At(o, "returned") => wf[o].owner

\* order/workflow.py:107 "Nothing has been charged if this fails": the customer
\* of an order cancelled for its payment has not been charged.
DeclinedIsUncharged ==
    \A o \in Orders : At(o, "declined") => charges[o] = 0
=============================================================================
