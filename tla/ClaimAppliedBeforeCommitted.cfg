CONSTANTS
    o1 = o1
    None = None
    Orders <- MCOrders
    Riders = {}
    Deployments <- Either
    MaxMessages = 4
    MaxFailures = 1
SPECIFICATION Spec
CHECK_DEADLOCK FALSE
INVARIANTS
    AppliedBeforeCommitted
