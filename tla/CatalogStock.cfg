SPECIFICATION Spec
CONSTANTS
    Place <- SomePlaces
    Priority <- LargerFirst
    Opening <- SomeOpenings
    Quantities = {1}
    Wanted = {1, 2}
    Reservation = {r1, r2}
    Client = {c1, c2}
    Nobody = Nobody
    MaxOnHand = 2
    MaxRequests = 2
CHECK_DEADLOCK FALSE
INVARIANTS
    TypeOK
    StockAddsUp
    AllocationAgreesWithQuote
    OrderedLocksNeverCircle
PROPERTIES
    ImplementsAtomicStock
    RequestsEnd
