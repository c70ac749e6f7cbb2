SPECIFICATION MCSpec
CONSTANTS
    h1 = h1
    h2 = h2
    NumOrders = 1
    Handlers = {h1}
    Intakes = {"webhook"}
    Redelivery = TRUE
    MaxFaults = 1
INVARIANTS
    ProcessingIsIdempotent
