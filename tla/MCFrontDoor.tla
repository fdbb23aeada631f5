---------------------------- MODULE MCFrontDoor ----------------------------
(***************************************************************************)
(* What stands before the saga, in one run: sessions say who a caller is,  *)
(* the policy what its roles may do, and the checkout begins an order.     *)
(* They share no state: a behaviour is one of the three, as `part` says.    *)
(*                                                                         *)
(* The policy changes once: the riders' route is given a row, and riders   *)
(* its permission.  Of the two carts the second asks for a dish with       *)
(* options that the evening's menu sells at another price and with fewer.  *)
(***************************************************************************)
EXTENDS Sessions, PolicyCache, Checkout, TLC

CONSTANTS t1, t2, t3, l1, l2, q1, q2, c1, c2, h1, h2,
          customer, rider, admin, open, orders, fleet, browse, deliver

VARIABLE part

frontVars == <<part, accountVars, policyVars, checkoutVars>>

TwoRoles == {customer, rider}
ThreeTokens == {t1, t2, t3}
TwoLogins == {l1, l2}
TwoRequests == {q1, q2}
TwoChangers == {c1, c2}
TwoThreads == {h1, h2}
TheRoutes == {open, orders, fleet}
TheCallers == {{customer}, {rider}, {admin}, {}}

ThePolicies == <<
    [routes |-> (open :> AnyCaller @@ orders :> browse @@ fleet :> NoRow),
     grants |-> (customer :> {browse} @@ rider :> {} @@ admin :> {})],
    [routes |-> (open :> AnyCaller @@ orders :> browse @@ fleet :> deliver),
     grants |-> (customer :> {browse} @@ rider :> {browse, deliver} @@ admin :> {})] >>

Line(item, quantity, chosen) == [item |-> item, quantity |-> quantity, chosen |-> chosen]
Plain == [g \in {} |-> <<>>]

Soup == << Line("soup", 2, Plain) >>
Feast == << Line("soup", 1, Plain), Line("bowl", 2, "sauce" :> <<"hot", "hot">>) >>
TwoCarts == {Soup, Feast}

Dish(price, available, groups) == [price |-> price, available |-> available, groups |-> groups]
Sauces(most) == "sauce" :> [least |-> 1, most |-> most, extra |-> ("hot" :> 30 @@ "sweet" :> 20)]

TwoMenus ==
    "noon" :> ("soup" :> Dish(450, TRUE, Plain) @@ "bowl" :> Dish(900, TRUE, Sauces(2)))
    @@ "evening" :> ("soup" :> Dish(500, TRUE, Plain) @@ "bowl" :> Dish(950, TRUE, Sauces(1)))

FrontInit ==
    /\ part \in {"sessions", "policy", "checkout"}
    /\ SessionsInit /\ PolicyInit /\ CheckoutInit

FrontNext ==
    /\ UNCHANGED part
    /\ \/ part = "sessions" /\ SessionsNext /\ UNCHANGED <<policyVars, checkoutVars>>
       \/ part = "policy" /\ PolicyNext /\ UNCHANGED <<accountVars, checkoutVars>>
       \/ part = "checkout" /\ CheckoutNext /\ UNCHANGED <<accountVars, policyVars>>

\* SessionsFairness, of the part that it is about.
Session(A) == part = "sessions" /\ A /\ UNCHANGED <<part, policyVars, checkoutVars>>

FrontFairness ==
    /\ \A q \in Requests : WF_frontVars(Session(RequestStep(q)))
    /\ \A a \in SUBSET Roles : WF_frontVars(Session(ExpireAccess(a)))

FrontSpec == FrontInit /\ [][FrontNext]_frontVars /\ FrontFairness
=============================================================================
