CONSTANTS
    o1 = o1
    o2 = o2
    r1 = r1
    k1 = k1
    None = None
    Orders <- TwoOrders
    Riders <- OneRider
    Restaurants <- OneRestaurant
    RestaurantOf <- SameRestaurant
    Capacity <- RoomForOne
    AuthAttempts = 2
    RefundAttempts = 2
    StateAttempts = 2
    TransientAttempts = 2
    ReleaseAttempts = 2
    CompensationRuns = 2
    SearchAttempts = 1
    ManualPayers = {}
    MaxFaults = 0
SPECIFICATION SagaSpec
CHECK_DEADLOCK FALSE
INVARIANTS
    RailWithinCapacity
