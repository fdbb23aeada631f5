CONSTANTS
    o1 = o1
    o2 = o2
    r1 = r1
    k1 = k1
    None = None
    Orders <- OneOrder
    Riders <- OneRider
    Restaurants <- OneRestaurant
    RestaurantOf <- SameRestaurant
    Capacity <- RoomForOne
    AuthAttempts = 2
    RefundAttempts = 2
    StateAttempts = 2
    TransientAttempts = 2
    ReleaseAttempts = 2
    CompensationRuns = 2
    SearchAttempts = 2
    ManualPayers <- OneOrder
    MaxFaults = 1
SPECIFICATION FairSaga
CHECK_DEADLOCK FALSE
INVARIANTS
    HistoryIsPublished
PROPERTIES
    ChargeIsSettled
    RiderComesBack
    CheckoutEnds
