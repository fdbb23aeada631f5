CONSTANTS
    t1 = t1
    t2 = t2
    t3 = t3
    l1 = l1
    l2 = l2
    q1 = q1
    q2 = q2
    c1 = c1
    c2 = c2
    h1 = h1
    h2 = h2
    customer = customer
    rider = rider
    admin = admin
    open = open
    orders = orders
    fleet = fleet
    browse = browse
    deliver = deliver
    NoRow = NoRow
    AnyCaller = AnyCaller
    Nobody = Nobody
    Admin <- admin
    Roles <- TwoRoles
    Tokens <- ThreeTokens
    Logins <- TwoLogins
    Requests <- TwoRequests
    Changers <- TwoChangers
    Threads <- TwoThreads
    Routes <- TheRoutes
    Callers <- TheCallers
    Policies <- ThePolicies
    Menus = {"noon", "evening"}
    MenuOf <- TwoMenus
    Carts <- TwoCarts
    NoCart = NoCart
    MaxCheckouts = 2
    MaxAttempts = 2
    MaxChanges = 1
SPECIFICATION FrontSpec
INVARIANTS
    OneSessionPerLogin
    LastRoleStays
    PlacedOnce
    RefusedIsUndone
    ChargedIsTheTotal
PROPERTIES
    RevokedRoleFades
    PolicyNeverGoesBack
CHECK_DEADLOCK FALSE
