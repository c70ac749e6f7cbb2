SPECIFICATION MCFairSpec
CONSTANTS
    h1 = h1
    h2 = h2
    NumOrders = 1
    Handlers = {h1, h2}
    Intakes = {"webhook", "daily"}
    Redelivery = TRUE
    MaxFaults = 1
INVARIANTS
    SoloRunRepairs
    UndisturbedIsIdempotent
PROPERTIES
    OrderIsImported
