---------------------------- MODULE AccessProofs ----------------------------
(***************************************************************************)
(* Proofs about who a caller is and what its roles may do: the User        *)
(* Service's sessions, for any number of requests, tokens, logins and role *)
(* changes, and its policy snapshot, for any number of threads, routes and *)
(* migrations.                                                             *)
(***************************************************************************)
EXTENDS Sessions, PolicyCache, FiniteSetTheorems, TLAPS

-----------------------------------------------------------------------------
(* Sessions.                                                               *)

\* Tokens, roles and the requests' local variables stay well-formed.
THEOREM SessionsTypeCorrect == SessionsSpec => []SessionsTypeOK
<1> USE DEF SessionsTypeOK, SessionRequest, Idle, NoRole
<1>1. SessionsInit => SessionsTypeOK
  <2> SUFFICES ASSUME SessionsInit PROVE SessionsTypeOK
    OBVIOUS
  <2>1. Idle \in SessionRequest
    OBVIOUS
  <2>2. access \subseteq SUBSET Roles
    BY DEF SessionsInit
  <2>3. request \in [Requests -> SessionRequest]
    BY <2>1, Zenon DEF SessionsInit
  <2>4. QED
    BY <2>2, <2>3 DEF SessionsInit
<1>2. SessionsTypeOK /\ [SessionsNext]_accountVars => SessionsTypeOK'
  <2> SUFFICES ASSUME SessionsTypeOK, [SessionsNext]_accountVars PROVE SessionsTypeOK'
    OBVIOUS
  <2>1. CASE UNCHANGED accountVars
    BY <2>1 DEF accountVars
  <2>2. ASSUME NEW q \in Requests, Login(q) PROVE SessionsTypeOK'
    <3>1. PICK l \in Logins :
             request' = [request EXCEPT ![q] = [Idle EXCEPT !.step = "issue", !.login = l,
                                                            !.roles = held]]
      BY <2>2 DEF Login
    <3>2. request' \in [Requests -> SessionRequest]
      BY <3>1
    <3>3. QED
      BY <2>2, <3>2 DEF Login
  <2>3. ASSUME NEW q \in Requests, RereadRoles(q) PROVE SessionsTypeOK'
    <3>1. request[q] \in SessionRequest
      BY DEF SessionsTypeOK
    <3>2. [request[q] EXCEPT !.step = "issue", !.roles = held] \in SessionRequest
      BY <3>1
    <3>3. request' \in [Requests -> SessionRequest]
      <4>1. CASE held = {}
        BY <2>3, <4>1 DEF RereadRoles
      <4>2. CASE held # {}
        <5>1. request' = [request EXCEPT ![q] = [request[q] EXCEPT !.step = "issue", !.roles = held]]
          BY <2>3, <4>2 DEF RereadRoles
        <5>2. QED
          BY <3>2, <5>1, Zenon
      <4>3. QED
        BY <4>1, <4>2
    <3>4. QED
      BY <2>3, <3>3 DEF RereadRoles
  <2>4. ASSUME NEW q \in Requests, Issue(q) PROVE SessionsTypeOK'
    BY <2>4 DEF Issue, Spare, Live
  <2>5. ASSUME NEW q \in Requests, Drop(q) PROVE SessionsTypeOK'
    BY <2>5 DEF Drop
  <2>6. ASSUME NEW q \in Requests, RequestFails(q) PROVE SessionsTypeOK'
    BY <2>6 DEF RequestFails
  <2>7. ASSUME NEW q \in Requests, NEW t \in Tokens, Consume(q, t) PROVE SessionsTypeOK'
    BY <2>7 DEF Consume
  <2>8. ASSUME NEW q \in Requests, NEW t \in Tokens, CheckOwned(q, t) PROVE SessionsTypeOK'
    BY <2>8 DEF CheckOwned
  <2>9. ASSUME NEW t \in Tokens, ExpireSession(t) PROVE SessionsTypeOK'
    BY <2>9 DEF ExpireSession
  <2>10. ASSUME NEW a \in SUBSET Roles, ExpireAccess(a) PROVE SessionsTypeOK'
    BY <2>10 DEF ExpireAccess
  <2>11. ASSUME NEW r \in Roles, GrantRole(r) PROVE SessionsTypeOK'
    BY <2>11 DEF GrantRole
  <2>12. ASSUME NEW c \in Changers, NEW r \in Roles, CountRoles(c, r) PROVE SessionsTypeOK'
    BY <2>12 DEF CountRoles
  <2>13. ASSUME NEW c \in Changers, DeleteRole(c) PROVE SessionsTypeOK'
    BY <2>13 DEF DeleteRole
  <2>14. QED
    BY <2>1, <2>2, <2>3, <2>4, <2>5, <2>6, <2>7, <2>8, <2>9, <2>10, <2>11, <2>12, <2>13
       DEF SessionsNext, RequestStep
<1>3. QED
  BY <1>1, <1>2, PTL DEF SessionsSpec

\* A login that is under way is in one token only, or in one request only.
SingleInv ==
    /\ \A s, t \in Tokens : session[s] # 0 /\ session[s] = session[t] => s = t
    /\ \A p, q \in Requests : request[p].login # 0 /\ request[p].login = request[q].login => p = q
    /\ \A t \in Tokens, q \in Requests : session[t] # 0 => session[t] # request[q].login

LEMMA SingleStep ==
    ASSUME SessionsTypeOK, SingleInv, [SessionsNext]_accountVars
    PROVE  SingleInv'
<1> USE SessionsAssumption DEF SingleInv, SessionsTypeOK, SessionRequest, Idle
<1>1. CASE UNCHANGED <<session, request>>
  BY <1>1
<1>2. ASSUME NEW q \in Requests, Login(q) PROVE SingleInv'
  <2>1. PICK l \in Logins :
           /\ ~InUse(l)
           /\ request' = [request EXCEPT ![q] = [Idle EXCEPT !.step = "issue", !.login = l,
                                                             !.roles = held]]
    BY <1>2 DEF Login
  <2>2. session' = session /\ l # 0
    BY <1>2 DEF Login
  <2>3. /\ \A t \in Tokens : session[t] # l
        /\ \A p \in Requests : request[p].login # l
    BY <2>1 DEF InUse
  <2>4. \A p \in Requests : request'[p].login = IF p = q THEN l ELSE request[p].login
    BY <2>1
  <2>5. QED
    BY <2>2, <2>3, <2>4
<1>3. ASSUME NEW q \in Requests, RereadRoles(q) PROVE SingleInv'
  <2>1. \A p \in Requests : request'[p].login \in {0, request[p].login}
    BY <1>3 DEF RereadRoles
  <2>2. QED
    BY <1>3, <2>1 DEF RereadRoles
<1>4. ASSUME NEW q \in Requests, Issue(q) PROVE SingleInv'
  <2>1. PICK t \in Spare : session' = [session EXCEPT ![t] = request[q].login]
    BY <1>4 DEF Issue
  <2>2. \A p \in Requests : request'[p].login = IF p = q THEN 0 ELSE request[p].login
    BY <1>4 DEF Issue
  <2>3. QED
    BY <2>1, <2>2 DEF Spare, Live
<1>5. ASSUME NEW q \in Requests, Drop(q) PROVE SingleInv'
  <2>1. \A p \in Requests : request'[p].login = IF p = q THEN 0 ELSE request[p].login
    BY <1>5 DEF Drop
  <2>2. \A t \in Tokens : session'[t] \in {0, session[t]}
    BY <1>5 DEF Drop
  <2>3. QED
    BY <2>1, <2>2
<1>6. ASSUME NEW q \in Requests, RequestFails(q) PROVE SingleInv'
  BY <1>6 DEF RequestFails
<1>7. ASSUME NEW q \in Requests, NEW t \in Tokens, Consume(q, t) PROVE SingleInv'
  <2>1. \A p \in Requests : request'[p].login = IF p = q THEN session[t] ELSE request[p].login
    BY <1>7 DEF Consume
  <2>2. \A s \in Tokens : session'[s] = IF s = t THEN 0 ELSE session[s]
    BY <1>7 DEF Consume
  <2>3. QED
    BY <1>7, <2>1, <2>2 DEF Consume
<1>8. ASSUME NEW q \in Requests, NEW t \in Tokens, CheckOwned(q, t) PROVE SingleInv'
  <2>1. \A p \in Requests : request'[p].login = IF p = q THEN 0 ELSE request[p].login
    BY <1>8 DEF CheckOwned
  <2>2. QED
    BY <1>8, <2>1 DEF CheckOwned
<1>9. ASSUME NEW t \in Tokens, ExpireSession(t) PROVE SingleInv'
  BY <1>9 DEF ExpireSession
<1>10. ASSUME \/ \E a \in SUBSET Roles : ExpireAccess(a)
              \/ \E r \in Roles : GrantRole(r) \/ \E c \in Changers : CountRoles(c, r)
              \/ \E c \in Changers : DeleteRole(c)
       PROVE  UNCHANGED <<session, request>>
  BY <1>10 DEF ExpireAccess, GrantRole, CountRoles, DeleteRole
<1>11. CASE UNCHANGED accountVars
  BY <1>1, <1>11 DEF accountVars
<1>12. QED
  BY <1>1, <1>2, <1>3, <1>4, <1>5, <1>6, <1>7, <1>8, <1>9, <1>10, <1>11
     DEF SessionsNext, RequestStep

\* However many requests present one refresh token, and whatever logouts and
\* expiries fall between their steps, one session comes of one login.
THEOREM OneSessionComesOfALogin == SessionsSpec => []OneSessionPerLogin
<1>1. SessionsInit => SingleInv
  BY SessionsAssumption DEF SessionsInit, SingleInv, Idle
<1>2. SingleInv => OneSessionPerLogin
  BY SessionsAssumption DEF SingleInv, OneSessionPerLogin, Continuations
<1>3. QED
  BY <1>1, <1>2, SingleStep, SessionsTypeCorrect, PTL DEF SessionsSpec

\* As long as no two revocations have met, there is one at most between its
\* count and its delete, and another role than the one it takes.
RoleInv ==
    raced \/ /\ held # {}
             /\ \A c, d \in Changers : revoking[c] # NoRole /\ revoking[d] # NoRole => c = d
             /\ \A c \in Changers : revoking[c] # NoRole => \E r \in held : r # revoking[c]

LEMMA RoleStep ==
    ASSUME SessionsTypeOK, RoleInv, [SessionsNext]_accountVars
    PROVE  RoleInv'
<1> USE DEF RoleInv, SessionsTypeOK
<1>1. CASE UNCHANGED <<held, revoking, raced>>
  BY <1>1
<1>2. ASSUME NEW r \in Roles, GrantRole(r) PROVE RoleInv'
  BY <1>2 DEF GrantRole
<1>3. ASSUME NEW c \in Changers, NEW r \in Roles, CountRoles(c, r) PROVE RoleInv'
  <2>1. /\ revoking' = [revoking EXCEPT ![c] = r] /\ held' = held
        /\ raced' = (raced \/ \E d \in Changers \ {c} : revoking[d] # NoRole)
    BY <1>3 DEF CountRoles
  <2>2. held # {} /\ \E s \in held : s # r
    <3>1. Cardinality(held) > 1
      BY <1>3 DEF CountRoles
    <3>2. Cardinality({}) = 0 /\ Cardinality({r}) = 1
      BY FS_EmptySet, FS_Singleton
    <3>3. held = {} \/ held = {r} => Cardinality(held) \in {0, 1}
      BY <3>2, Zenon
    <3>4. held # {} /\ held # {r}
      BY <3>1, <3>3
    <3>5. QED
      BY <3>4
  <2>3. CASE raced'
    BY <2>3
  <2>4. CASE ~raced /\ \A d \in Changers \ {c} : revoking[d] = NoRole
    BY <2>1, <2>2, <2>4
  <2>5. QED
    BY <2>1, <2>3, <2>4
<1>4. ASSUME NEW c \in Changers, DeleteRole(c) PROVE RoleInv'
  BY <1>4 DEF DeleteRole
<1>5. CASE UNCHANGED accountVars
  BY <1>1, <1>5 DEF accountVars
<1>6. ASSUME \/ \E q \in Requests :
                   \/ Login(q) \/ RequestStep(q) \/ RequestFails(q)
                   \/ \E t \in Tokens : Consume(q, t) \/ CheckOwned(q, t)
             \/ \E t \in Tokens : ExpireSession(t)
             \/ \E a \in SUBSET Roles : ExpireAccess(a)
      PROVE  UNCHANGED <<held, revoking, raced>>
  <2>1. ASSUME NEW q \in Requests, Login(q) \/ RequestStep(q) \/ RequestFails(q)
        PROVE  UNCHANGED <<held, revoking, raced>>
    BY <2>1 DEF Login, RequestStep, RereadRoles, Issue, Drop, RequestFails
  <2>2. ASSUME NEW q \in Requests, NEW t \in Tokens, Consume(q, t) \/ CheckOwned(q, t)
        PROVE  UNCHANGED <<held, revoking, raced>>
    BY <2>2 DEF Consume, CheckOwned
  <2>3. ASSUME NEW t \in Tokens, ExpireSession(t) PROVE UNCHANGED <<held, revoking, raced>>
    BY <2>3 DEF ExpireSession
  <2>4. ASSUME NEW a \in SUBSET Roles, ExpireAccess(a) PROVE UNCHANGED <<held, revoking, raced>>
    BY <2>4 DEF ExpireAccess
  <2>5. QED
    BY <1>6, <2>1, <2>2, <2>3, <2>4
<1>7. QED
  BY <1>1, <1>2, <1>3, <1>4, <1>5, <1>6 DEF SessionsNext

\* However many changes are under way, an account loses its last role only when
\* two revocations counted before either deleted.
THEOREM TheLastRoleStays == SessionsSpec => []LastRoleStays
<1>1. SessionsInit => RoleInv
  BY SessionsAssumption DEF SessionsInit, RoleInv
<1>2. RoleInv => LastRoleStays
  BY DEF RoleInv, LastRoleStays
<1>3. QED
  BY <1>1, <1>2, RoleStep, SessionsTypeCorrect, PTL DEF SessionsSpec

-----------------------------------------------------------------------------
(* The policy snapshot.                                                    *)

\* Whoever loads the tables holds the lock, and what it has loaded is no older
\* than the snapshot it is about to replace.
LoadInv ==
    \A h \in Threads :
        /\ thread[h].step \in {"load_routes", "load_grants"} => lock = h
        /\ thread[h].step = "load_grants" => thread[h].loaded >= snapshot.routes

PolicyInv == PolicyTypeOK /\ LoadInv

LEMMA AnswerKeeps ==
    ASSUME thread \in [Threads -> ThreadState], NEW h \in Threads, NEW s, Answers(h, s)
    PROVE  /\ thread' \in [Threads -> ThreadState]
           /\ thread'[h].step = "idle" /\ thread'[h].loaded = 0
           /\ \A g \in Threads \ {h} : thread'[g] = thread[g]
<1>1. PICK a \in {"admitted", "refused"} :
         thread' = [thread EXCEPT ![h].step = "idle", ![h].loaded = 0, ![h].answer = a]
  BY Zenon DEF Answers
<1> DEFINE t == thread[h]
           u == [t EXCEPT !.step = "idle", !.loaded = 0, !.answer = a]
<1>2. t \in ThreadState
  OBVIOUS
<1>3. u \in ThreadState /\ u.step = "idle" /\ u.loaded = 0
  <2> HIDE DEF t
  <2>1. QED
    BY <1>2 DEF ThreadState
<1>4. thread' = [thread EXCEPT ![h] = u]
  BY <1>1
<1> HIDE DEF t, u
<1>5. QED
  BY <1>3, <1>4

LEMMA MoveKeeps ==
    ASSUME thread \in [Threads -> ThreadState], NEW h \in Threads,
           NEW at \in {"wait", "load_routes"}, thread' = [thread EXCEPT ![h].step = at]
    PROVE  /\ thread' \in [Threads -> ThreadState]
           /\ thread'[h].step = at /\ thread'[h].loaded = thread[h].loaded
           /\ \A g \in Threads \ {h} : thread'[g] = thread[g]
<1> DEFINE t == thread[h]
           u == [t EXCEPT !.step = at]
<1>1. t \in ThreadState
  OBVIOUS
<1>2. u \in ThreadState /\ u.step = at /\ u.loaded = t.loaded
  <2> HIDE DEF t
  <2>1. QED
    BY <1>1 DEF ThreadState
<1>3. thread' = [thread EXCEPT ![h] = u]
  OBVIOUS
<1> HIDE DEF t, u
<1>4. QED
  BY <1>2, <1>3 DEF t

LEMMA LoadKeeps ==
    ASSUME thread \in [Threads -> ThreadState], policy \in Nat, NEW h \in Threads, LoadRoutes(h)
    PROVE  /\ thread' \in [Threads -> ThreadState]
           /\ thread'[h].step = "load_grants" /\ thread'[h].loaded = policy
           /\ \A g \in Threads \ {h} : thread'[g] = thread[g]
<1> DEFINE t == thread[h]
           u == [t EXCEPT !.step = "load_grants", !.loaded = policy]
<1>1. t \in ThreadState
  OBVIOUS
<1>2. u \in ThreadState /\ u.step = "load_grants" /\ u.loaded = policy
  <2> HIDE DEF t
  <2>1. QED
    BY <1>1 DEF ThreadState
<1>3. thread' = [thread EXCEPT ![h] = u]
  BY DEF LoadRoutes
<1> HIDE DEF t, u
<1>4. QED
  BY <1>2, <1>3

LEMMA PolicyStep ==
    ASSUME PolicyInv, [PolicyNext]_policyVars
    PROVE  /\ PolicyInv'
           /\ snapshot'.routes >= snapshot.routes /\ snapshot'.grants >= snapshot.grants
<1> USE PolicyAssumption DEF PolicyInv, PolicyTypeOK, LoadInv
<1> DEFINE Forward == snapshot'.routes >= snapshot.routes /\ snapshot'.grants >= snapshot.grants
<1> /\ policy \in Nat /\ snapshot.routes \in 1..policy /\ snapshot.grants \in 1..policy
    /\ snapshot = [routes |-> snapshot.routes, grants |-> snapshot.grants, fresh |-> snapshot.fresh]
  OBVIOUS
<1>1. CASE UNCHANGED policyVars
  BY <1>1 DEF policyVars
<1>2. CASE Migrate
  <2>1. policy' \in 1..Len(Policies) /\ policy' = policy + 1
    BY <1>2 DEF Migrate
  <2>2. /\ UNCHANGED <<snapshot, lock, thread>>
        /\ \A h \in Threads : thread[h].loaded \in Nat /\ thread[h].loaded <= policy
    BY <1>2 DEF Migrate, ThreadState
  <2>3. snapshot' \in [routes : 1..policy', grants : 1..policy', fresh : BOOLEAN]
    BY <2>1, <2>2
  <2>4. \A h \in Threads : thread'[h].loaded <= policy'
    BY <2>1, <2>2
  <2>5. QED
    BY <2>1, <2>2, <2>3, <2>4
<1>3. CASE Outlive
  <2>1. /\ snapshot' = [routes |-> snapshot.routes, grants |-> snapshot.grants, fresh |-> FALSE]
        /\ UNCHANGED <<policy, lock, thread>>
    BY <1>3 DEF Outlive
  <2>2. QED
    BY <2>1
<1>4. ASSUME NEW h \in Threads, NEW route \in Routes, NEW roles \in Callers, Ask(h, route, roles)
      PROVE  PolicyInv' /\ Forward
  <2>1. [Resting EXCEPT !.step = "current", !.route = route, !.roles = roles] \in ThreadState
    BY DEF Resting, ThreadState
  <2>2. /\ thread' \in [Threads -> ThreadState]
        /\ thread'[h].step = "current" /\ thread'[h].loaded = 0
        /\ \A g \in Threads \ {h} : thread'[g] = thread[g]
    BY <1>4, <2>1 DEF Ask, Resting
  <2>3. UNCHANGED <<policy, snapshot, lock>>
    BY <1>4 DEF Ask
  <2>4. QED
    BY <2>2, <2>3
<1>5. ASSUME NEW h \in Threads, LookFirst(h) PROVE PolicyInv' /\ Forward
  <2>1. CASE snapshot.fresh
    BY <1>5, <2>1, AnswerKeeps DEF LookFirst
  <2>2. CASE ~snapshot.fresh
    <3>1. /\ thread' = [thread EXCEPT ![h].step = "wait"]
          /\ UNCHANGED <<policy, snapshot, lock>>
      BY <1>5, <2>2 DEF LookFirst
    <3>2. /\ thread' \in [Threads -> ThreadState]
          /\ thread'[h].step = "wait" /\ thread'[h].loaded = thread[h].loaded
          /\ \A g \in Threads \ {h} : thread'[g] = thread[g]
      BY <3>1, MoveKeeps DEF PolicyTypeOK
    <3>3. QED
      BY <3>1, <3>2
  <2>3. QED
    BY <2>1, <2>2
<1>6. ASSUME NEW h \in Threads, LookAgain(h) PROVE PolicyInv' /\ Forward
  <2>1. CASE snapshot.fresh
    BY <1>6, <2>1, AnswerKeeps DEF LookAgain
  <2>2. CASE ~snapshot.fresh
    BY <1>6, <2>2, MoveKeeps DEF LookAgain
  <2>3. QED
    BY <2>1, <2>2
<1>7. ASSUME NEW h \in Threads, LoadRoutes(h) PROVE PolicyInv' /\ Forward
  <2>1. /\ thread' \in [Threads -> ThreadState]
        /\ thread'[h].step = "load_grants" /\ thread'[h].loaded = policy
        /\ \A g \in Threads \ {h} : thread'[g] = thread[g]
    BY <1>7, LoadKeeps
  <2>2. UNCHANGED <<policy, snapshot, lock>> /\ thread[h].step = "load_routes"
    BY <1>7 DEF LoadRoutes
  <2>3. QED
    BY <2>1, <2>2
<1>8. ASSUME NEW h \in Threads, LoadGrants(h) PROVE PolicyInv' /\ Forward
  <2>1. /\ thread' \in [Threads -> ThreadState]
        /\ thread'[h].step = "idle" /\ thread'[h].loaded = 0
        /\ \A g \in Threads \ {h} : thread'[g] = thread[g]
    BY <1>8, AnswerKeeps DEF LoadGrants
  <2>2. thread[h].step = "load_grants"
    BY <1>8 DEF LoadGrants
  <2>3. \A g \in Threads \ {h} : thread[g].step \notin {"load_routes", "load_grants"}
    BY <2>2
  <2>4. /\ snapshot' = [routes |-> thread[h].loaded, grants |-> policy, fresh |-> TRUE]
        /\ policy' = policy /\ lock' = Nobody
        /\ thread[h].loaded \in snapshot.routes..policy
    BY <1>8 DEF LoadGrants, ThreadState
  <2>5. QED
    BY <2>1, <2>3, <2>4
<1>9. ASSUME NEW h \in Threads, LoadFails(h) PROVE PolicyInv' /\ Forward
  BY <1>9, AnswerKeeps DEF LoadFails
<1>10. QED
  BY <1>1, <1>2, <1>3, <1>4, <1>5, <1>6, <1>7, <1>8, <1>9 DEF PolicyNext, Judging

\* Whatever threads reload the tables at once, and whatever they fail at, no
\* request is judged by an older policy than requests before it.
THEOREM PolicyOnlyGoesForward == PolicySpec => PolicyNeverGoesBack
<1>1. PolicyInit => PolicyInv
  BY PolicyAssumption DEF PolicyInit, PolicyInv, PolicyTypeOK, LoadInv, Resting, ThreadState
<1>2. QED
  BY <1>1, PolicyStep, PTL DEF PolicySpec, PolicyNeverGoesBack
=============================================================================
