---------------------------- MODULE PolicyCache ----------------------------
(***************************************************************************)
(* The User Service's policy decision point: a snapshot of the policy      *)
(* tables that the gateway's verify requests are judged by, reloaded by    *)
(* whichever thread first finds that it has outlived its time.             *)
(*                                                                         *)
(* The routes and the grants are read by one query each.  The tables are   *)
(* changed by migrations, so their content is one of a sequence of         *)
(* Policies, and a snapshot is told by which of these each half is from.   *)
(***************************************************************************)
EXTENDS Integers, Sequences

CONSTANTS
    Threads,      \* the service's threads that answer verify requests
    Routes,       \* the (method, path) pairs requests ask for
    Admin,        \* ADMIN_ROLE
    Callers,      \* role sets of callers
    NoRow,        \* no row of route_permissions matches a route
    AnyCaller,    \* its permission is NULL
    Policies,     \* what the tables hold, one after the other
    Nobody

ASSUME PolicyAssumption ==
    /\ Len(Policies) \in Nat \ {0}
    /\ Nobody \notin Threads

VARIABLES
    policy,       \* which of Policies the tables hold
    snapshot,     \* what _snapshot holds: the policy each half is from, and
                  \* whether it is within its time to live
    lock,         \* the thread that holds _lock
    thread        \* where each thread is, its request, the routes it loaded and
                  \* its answer

policyVars == <<policy, snapshot, lock, thread>>

ThreadState == [step : {"idle", "current", "wait", "load_routes", "load_grants"},
                route : Routes \cup {NoRow}, roles : Callers \cup {{}}, loaded : Nat,
                answer : {"none", "admitted", "refused"}]
Resting == [step |-> "idle", route |-> NoRow, roles |-> {}, loaded |-> 0, answer |-> "none"]

\* load_initial: the tables are not empty, or the service does not start.
PolicyInit ==
    /\ policy = 1
    /\ snapshot = [routes |-> 1, grants |-> 1, fresh |-> TRUE]
    /\ lock = Nobody
    /\ thread = [h \in Threads |-> Resting]

-----------------------------------------------------------------------------
\* permissions_for: the union over the caller's roles.
Granted(s, roles) == UNION {Policies[s.grants].grants[r] : r \in roles}

\* The most specific row that matches the route, in the snapshot s.
Matched(s, route) == Policies[s.routes].routes[route]

\* resolve: a route without a row is refused to everybody.
Resolve(s, route, roles) ==
    /\ Matched(s, route) # NoRow
    /\ \/ Matched(s, route) \in Granted(s, roles) \cup {AnyCaller}
       \/ Admin \in roles

\* The thread h has its snapshot and answers by it.
Answers(h, s) ==
    thread' = [thread EXCEPT ![h].step = "idle", ![h].loaded = 0,
                             ![h].answer = IF Resolve(s, thread[h].route, thread[h].roles)
                                             THEN "admitted" ELSE "refused"]

-----------------------------------------------------------------------------
\* A migration, in one transaction.
Migrate ==
    /\ policy < Len(Policies)
    /\ policy' = policy + 1
    /\ UNCHANGED <<snapshot, lock, thread>>

\* POLICY_CACHE_TTL_SECONDS after the load.
Outlive ==
    /\ snapshot.fresh
    /\ snapshot' = [snapshot EXCEPT !.fresh = FALSE]
    /\ UNCHANGED <<policy, lock, thread>>

\* The gateway asks about a request whose token has been verified.
Ask(h, route, roles) ==
    /\ thread[h].step = "idle"
    /\ thread' = [thread EXCEPT ![h] = [Resting EXCEPT !.step = "current", !.route = route,
                                                       !.roles = roles]]
    /\ UNCHANGED <<policy, snapshot, lock>>

\* current(): the look without the lock.
LookFirst(h) ==
    /\ thread[h].step = "current"
    /\ IF snapshot.fresh THEN Answers(h, snapshot)
                         ELSE thread' = [thread EXCEPT ![h].step = "wait"]
    /\ UNCHANGED <<policy, snapshot, lock>>

\* Broken variant: threads do not wait for one another.
LookUnlocked(h) ==
    /\ thread[h].step = "wait"
    /\ IF snapshot.fresh THEN Answers(h, snapshot) /\ UNCHANGED lock
                         ELSE /\ thread' = [thread EXCEPT ![h].step = "load_routes"]
                              /\ lock' = h
    /\ UNCHANGED <<policy, snapshot>>

\* ... and the look with it.
LookAgain(h) ==
    /\ thread[h].step = "wait" /\ lock = Nobody
    /\ IF snapshot.fresh THEN Answers(h, snapshot) /\ UNCHANGED lock
                         ELSE /\ thread' = [thread EXCEPT ![h].step = "load_routes"]
                              /\ lock' = h
    /\ UNCHANGED <<policy, snapshot>>

LoadRoutes(h) ==
    /\ thread[h].step = "load_routes"
    /\ thread' = [thread EXCEPT ![h].step = "load_grants", ![h].loaded = policy]
    /\ UNCHANGED <<policy, snapshot, lock>>

\* load_role_permissions, after which the new snapshot is in place.
LoadGrants(h) ==
    /\ thread[h].step = "load_grants"
    /\ snapshot' = [routes |-> thread[h].loaded, grants |-> policy, fresh |-> TRUE]
    /\ lock' = Nobody
    /\ Answers(h, snapshot')
    /\ UNCHANGED policy

\* The tables cannot be read: the snapshot there is goes on being used.
LoadFails(h) ==
    /\ thread[h].step \in {"load_routes", "load_grants"}
    /\ lock' = Nobody
    /\ Answers(h, snapshot)
    /\ UNCHANGED <<policy, snapshot>>

Judging(h) == LookFirst(h) \/ LookAgain(h) \/ LoadRoutes(h) \/ LoadGrants(h) \/ LoadFails(h)

PolicyNext ==
    \/ Migrate \/ Outlive
    \/ \E h \in Threads : Judging(h) \/ \E route \in Routes, roles \in Callers : Ask(h, route, roles)

PolicySpec == PolicyInit /\ [][PolicyNext]_policyVars

-----------------------------------------------------------------------------
PolicyTypeOK ==
    /\ policy \in 1..Len(Policies)
    /\ snapshot \in [routes : 1..policy, grants : 1..policy, fresh : BOOLEAN]
    /\ lock \in Threads \cup {Nobody}
    /\ thread \in [Threads -> ThreadState] /\ \A h \in Threads : thread[h].loaded <= policy

\* A request is never judged by an older policy than requests before it were:
\* whatever threads reload at once, and whatever they fail at, neither half of
\* the snapshot goes back.
PolicyNeverGoesBack ==
    [][snapshot'.routes >= snapshot.routes /\ snapshot'.grants >= snapshot.grants]_policyVars
=============================================================================
