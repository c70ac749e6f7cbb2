SPECIFICATION MCSpec
CONSTANTS
    h1 = h1
    h2 = h2
    o1 = o1
    o2 = o2
    Messages = {"pay", "book", "meet", "ok"}
    Text <- PaymentsVisitsOk
    Times = {"slot"}
    Orders = {o1}
    Price <- PriceOf
    Handlers = {h1, h2}
    MaxFaults = 1
SYMMETRY HandlerSymmetry
INVARIANTS
    RevenueAsStated
    MessageTakesEffect
    ForwardedOnce
    NoDuplicateAlone
