CONSTANTS
    o1 = o1
    o2 = o2
    r1 = r1
    r2 = r2
    k1 = k1
    None = None
    Orders <- TwoOrders
    Riders <- TwoRiders
    Restaurants <- OneRestaurant
    RestaurantOf <- SameRestaurant
    Capacity <- RoomForOne
    AuthAttempts = 2
    RefundAttempts = 2
SPECIFICATION StoresSpec
CHECK_DEADLOCK FALSE
INVARIANTS
    TrailTellsStatus
    TrailMovesForward
    AnsweredWasConfirmed
    ChargedAtMostOnce
    AuthorizedWasCharged
    OneRiderPerOrder
PROPERTIES
    NeverTakenBack
    CarriesUntilReleased
SYMMETRY Symmetry
