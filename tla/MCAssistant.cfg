SPECIFICATION MCSpec
CONSTANTS
    Orders = {o1}
    NoOrder = NoOrder
    Workers = {w1, w2}
    Turns = {1, 2, 3}
    MaxRestarts = 1
    MaxClaims = 1
    MaxMessages = 4
    r1 = r1
    r2 = r2
    r3 = r3
    Restaurants = {r1, r2, r3}
    Owner <- ByRestaurant
    DishLists <- AnyAnswer
    PlaceLists <- SomePlaces
    Limits <- TwoThenThree
    WaveSize = 1
    TopK = 2
    MaxLookups = 2
SYMMETRY Interchangeable
INVARIANTS ToldIsTrue MemoryHoldsAnswers CreditedOnce FoundIsBest SilenceIsExplained
PROPERTY WiderKeepsWhatWasFound
CHECK_DEADLOCK FALSE
