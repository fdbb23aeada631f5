CONSTANTS
    o1 = o1
    None = None
    Orders <- MCOrders
    Riders = {}
    Deployments <- Either
    MaxMessages = 5
    MaxFailures = 1
SPECIFICATION Spec
CHECK_DEADLOCK FALSE
INVARIANTS
    CommittedIsAccounted
    CountersTellTheTable
    TableTellsTheTopic
PROPERTIES
    ProjectionMovesForward
    EverythingIsConsumed
