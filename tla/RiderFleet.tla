----------------------------- MODULE RiderFleet -----------------------------
(***************************************************************************)
(* The Rider Service's `riders` table: who is on shift, who carries which  *)
(* order.  Redis answers who is near; a rider outside the radius, or one   *)
(* whose position is unknown, is simply not among the candidates, so any   *)
(* free rider may be the nearest candidate and there may be none.          *)
(***************************************************************************)
EXTENDS Identities, FiniteSets

VARIABLE riders

FleetRow == [available : BOOLEAN, order : Orders \cup {None}]

Holding(o) == {r \in Riders : riders[r].order = o}
Free == {r \in Riders : riders[r].available /\ riders[r].order = None}

-----------------------------------------------------------------------------
\* The columns a new row leaves to its defaults (db/rider/init.sql).
FleetInit == riders = [r \in Riders |-> [available |-> TRUE, order |-> None]]

\* Broken variants: no look at who holds the order; the rider is made busy and
\* given no order.
ClaimAnother(o, r) ==
    r \in Free /\ riders' = [riders EXCEPT ![r] = [available |-> FALSE, order |-> o]]
ClaimUnnamed(o, r) ==
    r \in Free /\ riders' = [riders EXCEPT ![r].available = FALSE]

\* dispatch(), claiming branch: one UPDATE ... FOR UPDATE SKIP LOCKED.  When
\* the order is held already the first SELECT returns its rider and nothing is
\* written; two claims that pass that SELECT together meet on the partial
\* unique index of current_order_id, which refuses the second.
Claim(o, r) ==
    /\ Holding(o) = {}
    /\ r \in Free
    /\ riders' = [riders EXCEPT ![r] = [available |-> FALSE, order |-> o]]

\* Broken variant: the rider is free again and keeps the order.
ReleaseKeepsOrder(o) ==
    riders' = [r \in Riders |-> IF riders[r].order = o
                                  THEN [riders[r] EXCEPT !.available = TRUE]
                                  ELSE riders[r]]

\* release(): whoever holds the order goes back to the pool; nobody holding it
\* is success too.
Release(o) ==
    riders' = [r \in Riders |-> IF riders[r].order = o
                                  THEN [available |-> TRUE, order |-> None]
                                  ELSE riders[r]]

\* Broken variant: the toggle rewrites the row.
SetAvailabilityDropsOrder(r, b) ==
    riders' = [riders EXCEPT ![r] = [available |-> b, order |-> None]]

\* set_availability(): a shift cannot be toggled with an order in hand.
SetAvailability(r, b) ==
    /\ riders[r].order = None
    /\ riders' = [riders EXCEPT ![r].available = b]

FleetNext ==
    \/ \E o \in Orders : Release(o) \/ \E r \in Riders : Claim(o, r)
    \/ \E r \in Riders, b \in BOOLEAN : SetAvailability(r, b)

FleetSpec == FleetInit /\ [][FleetNext]_riders

-----------------------------------------------------------------------------
FleetTypeOK == riders \in [Riders -> FleetRow]

\* However dispatches are retried, no order has two riders, and a rider with an
\* order in hand is not offered another.
OneRiderPerOrder ==
    /\ \A o \in Orders : \A r, s \in Holding(o) : r = s
    /\ \A r \in Riders : riders[r].order # None => ~riders[r].available

\* A rider who carries an order only puts it down by that order being released:
\* no toggle and no other dispatch takes it away.
CarriesUntilReleased ==
    [][\A r \in Riders :
          riders[r].order # None =>
              \/ riders'[r].order = riders[r].order
              \/ riders'[r] = [available |-> TRUE, order |-> None]]_riders
=============================================================================
