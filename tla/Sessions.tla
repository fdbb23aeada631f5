----------------------------- MODULE Sessions ------------------------------
(***************************************************************************)
(* The User Service's account of one user: the roles it holds in           *)
(* PostgreSQL, its refresh tokens in Redis, and the access tokens that     *)
(* were signed for it and have not expired.                                *)
(*                                                                         *)
(* A request is several statements or calls, and others run between them.  *)
(* Tokens and logins are numbered from small pools, and a number is used   *)
(* again once nothing refers to it, so that behaviours may go on for ever. *)
(***************************************************************************)
EXTENDS Integers, FiniteSets

CONSTANTS
    Roles,       \* rows of `roles` the account may be given
    Tokens,      \* pool of refresh tokens
    Logins,      \* pool of logins
    Requests,    \* POST /login, /refresh and /logout requests under way
    Changers     \* DELETE /{user_id}/roles/{role_name} requests under way

ASSUME SessionsAssumption == Roles # {} /\ 0 \notin Logins

VARIABLES
    held,        \* user_roles of the account
    session,     \* the login each refresh token continues, 0 if it is not live
    request,     \* where each session request is, and its local variables
    access,      \* the role claims of the access tokens that are still valid
    revoking,    \* the role each role change has counted the others for
    raced        \* two revocations counted before either deleted

accountVars == <<held, session, request, access, revoking, raced>>

NoRole == "none"
SessionRequest == [step : {"idle", "reread", "issue", "drop"}, login : Logins \cup {0},
                   token : Tokens \cup {0}, roles : SUBSET Roles]
Idle == [step |-> "idle", login |-> 0, token |-> 0, roles |-> {}]

SessionsInit ==
    /\ held = Roles
    /\ session = [t \in Tokens |-> 0]
    /\ request = [q \in Requests |-> Idle]
    /\ access = {}
    /\ revoking = [c \in Changers |-> NoRole]
    /\ raced = FALSE

Live == {t \in Tokens : session[t] # 0}
InUse(l) == (\E t \in Tokens : session[t] = l) \/ (\E q \in Requests : request[q].login = l)

\* A number no request has in its hands.
Spare == {t \in Tokens \ Live : \A q \in Requests : request[q].token # t}

-----------------------------------------------------------------------------
\* login: the credentials are found by way of the roles, so an account without
\* roles has none.
Login(q) ==
    /\ request[q].step = "idle" /\ held # {}
    /\ \E l \in Logins :
          /\ ~InUse(l)
          /\ request' = [request EXCEPT ![q] = [Idle EXCEPT !.step = "issue", !.login = l,
                                                            !.roles = held]]
    /\ UNCHANGED <<held, session, access, revoking, raced>>

\* Broken variant: the token is read, and would be deleted later.
ConsumeLeaves(q, t) ==
    /\ request[q].step = "idle" /\ session[t] # 0
    /\ request' = [request EXCEPT ![q] = [Idle EXCEPT !.step = "reread", !.login = session[t]]]
    /\ UNCHANGED <<held, session, access, revoking, raced>>

\* refresh_session, GETDEL: whoever presents the token first uses it up.
Consume(q, t) ==
    /\ request[q].step = "idle" /\ session[t] # 0
    /\ request' = [request EXCEPT ![q] = [Idle EXCEPT !.step = "reread", !.login = session[t]]]
    /\ session' = [session EXCEPT ![t] = 0]
    /\ UNCHANGED <<held, access, revoking, raced>>

\* Broken variant: the roles are those of the access token that is replaced.
CarryRoles(q) ==
    /\ request[q].step = "reread"
    /\ \E a \in access \cup {held} :
          request' = [request EXCEPT ![q].step = "issue", ![q].roles = a]
    /\ UNCHANGED <<held, session, access, revoking, raced>>

\* find_roles: what the account holds now; without a role it is not found, and
\* the session ends.
RereadRoles(q) ==
    /\ request[q].step = "reread"
    /\ request' = [request EXCEPT ![q] =
                      IF held = {} THEN Idle ELSE [@ EXCEPT !.step = "issue", !.roles = held]]
    /\ UNCHANGED <<held, session, access, revoking, raced>>

\* issue_session: the refresh token is stored, then the access token signed.
Issue(q) ==
    /\ request[q].step = "issue"
    /\ \E t \in Spare : session' = [session EXCEPT ![t] = request[q].login]
    /\ access' = access \cup {request[q].roles}
    /\ request' = [request EXCEPT ![q] = Idle]
    /\ UNCHANGED <<held, revoking, raced>>

\* PostgreSQL or Redis fails a request that has used its token up: the session
\* is over, and its user logs in again.
RequestFails(q) ==
    /\ request[q].step \in {"reread", "issue"}
    /\ request' = [request EXCEPT ![q] = Idle]
    /\ UNCHANGED <<held, session, access, revoking, raced>>

\* revoke_owned, the read: a token that is not live for its caller ends here.
CheckOwned(q, t) ==
    /\ request[q].step = "idle" /\ session[t] # 0
    /\ request' = [request EXCEPT ![q] = [Idle EXCEPT !.step = "drop", !.token = t]]
    /\ UNCHANGED <<held, session, access, revoking, raced>>

\* ... and the delete, of a token that may have been consumed meanwhile.
Drop(q) ==
    /\ request[q].step = "drop"
    /\ session' = [session EXCEPT ![request[q].token] = 0]
    /\ request' = [request EXCEPT ![q] = Idle]
    /\ UNCHANGED <<held, access, revoking, raced>>

\* REFRESH_TTL_SECONDS have passed, ...
ExpireSession(t) ==
    /\ session[t] # 0
    /\ session' = [session EXCEPT ![t] = 0]
    /\ UNCHANGED <<held, request, access, revoking, raced>>

\* ... and ACCESS_TOKEN_TTL_MINUTES.
ExpireAccess(a) ==
    /\ a \in access
    /\ access' = access \ {a}
    /\ UNCHANGED <<held, session, request, revoking, raced>>

-----------------------------------------------------------------------------
(* Role changes, of the account by itself or by an administrator.          *)

GrantRole(r) ==
    /\ r \notin held
    /\ held' = held \cup {r}
    /\ UNCHANGED <<session, request, access, revoking, raced>>

\* Broken variant: zero is one too few to be refused.
CountAnyRole(c, r) ==
    /\ revoking[c] = NoRole
    /\ Cardinality(held) >= 1
    /\ revoking' = [revoking EXCEPT ![c] = r]
    /\ raced' = (raced \/ \E d \in Changers \ {c} : revoking[d] # NoRole)
    /\ UNCHANGED <<held, session, request, access>>

\* revoke_role, the count: the last role is not to be revoked.
CountRoles(c, r) ==
    /\ revoking[c] = NoRole
    /\ Cardinality(held) > 1
    /\ revoking' = [revoking EXCEPT ![c] = r]
    /\ raced' = (raced \/ \E d \in Changers \ {c} : revoking[d] # NoRole)
    /\ UNCHANGED <<held, session, request, access>>

\* ... and the delete, of a statement of its own and without a lock between.
DeleteRole(c) ==
    /\ revoking[c] # NoRole
    /\ held' = held \ {revoking[c]}
    /\ revoking' = [revoking EXCEPT ![c] = NoRole]
    /\ UNCHANGED <<session, request, access, raced>>

RequestStep(q) == RereadRoles(q) \/ Issue(q) \/ Drop(q)

SessionsNext ==
    \/ \E q \in Requests :
          \/ Login(q) \/ RequestStep(q) \/ RequestFails(q)
          \/ \E t \in Tokens : Consume(q, t) \/ CheckOwned(q, t)
    \/ \E t \in Tokens : ExpireSession(t)
    \/ \E a \in SUBSET Roles : ExpireAccess(a)
    \/ \E r \in Roles : GrantRole(r) \/ \E c \in Changers : CountRoles(c, r)
    \/ \E c \in Changers : DeleteRole(c)

\* Requests that have begun end, and time passes.  Nobody need log in, refresh,
\* log out or change a role.
SessionsFairness ==
    /\ \A q \in Requests : WF_accountVars(RequestStep(q))
    /\ \A a \in SUBSET Roles : WF_accountVars(ExpireAccess(a))

SessionsSpec == SessionsInit /\ [][SessionsNext]_accountVars /\ SessionsFairness

-----------------------------------------------------------------------------
SessionsTypeOK ==
    /\ held \subseteq Roles
    /\ session \in [Tokens -> Logins \cup {0}]
    /\ request \in [Requests -> SessionRequest]
    /\ access \subseteq SUBSET Roles
    /\ revoking \in [Changers -> Roles \cup {NoRole}]
    /\ raced \in BOOLEAN

\* The refresh tokens that continue login l, and the requests about to make one.
Continuations(l) ==
    {t \in Tokens : session[t] = l} \cup {q \in Requests : request[q].login = l}

\* A login lives on in one refresh token at most, or in one request that has
\* used it up and will issue the next: no two requests that present the same
\* token, and no logout beside them, make two sessions of one.
OneSessionPerLogin ==
    \A l \in Logins : \A x, y \in Continuations(l) : x = y

\* An account always has a role: it is left without one only when two
\* revocations counted its roles before either deleted one.
LastRoleStays == held # {} \/ raced

\* A role taken away for good is in the end in no valid access token: sessions
\* refreshed meanwhile do not carry it on.
RevokedRoleFades ==
    \A r \in Roles : <>[](r \notin held) => <>[](\A a \in access : r \notin a)
=============================================================================
