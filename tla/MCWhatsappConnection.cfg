SPECIFICATION Spec
CONSTANTS
    h1 = h1
    h2 = h2
    Handlers = {h1, h2}
    Offered = {"connect", "repair", "disconnect"}
    MaxNews = 1
    MaxRestarts = 1
SYMMETRY HandlerSymmetry
INVARIANTS
    OneOperation
    DisconnectSticks
