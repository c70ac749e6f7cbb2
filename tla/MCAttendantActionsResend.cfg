SPECIFICATION MCSpec
CONSTANTS
    h1 = h1
    h2 = h2
    o1 = o1
    o2 = o2
    Messages = {"first"}
    Text <- OneBooking
    Times = {"slot"}
    Orders = {o1}
    Price <- PriceOf
    Handlers = {h1, h2}
    MaxFaults = 0
SYMMETRY HandlerSymmetry
INVARIANT ResendKeepsOneCustomer
