SPECIFICATION MCSpec
CONSTANTS
    h1 = h1
    h2 = h2
    h3 = h3
    e1 = e1
    e2 = e2
    c1 = c1
    c2 = c2
    Handlers = {h1, h2, h3}
    MaxTokens = 4
    MaxFaults = 1
    EvoCalls = {e1, e2}
    MaxQrs = 2
    MaxNews = 2
    Callers = {c1, c2}
    OpsOf <- CallerOps
    Interval = 1
    Backoff <- Pauses
    Cooldown = 2
    Asks = {0, 1}
    MaxFailures = 2
    HookNames = {"generated", "requested"}
    MaxBases = 2
    MaxTroubles = 1
SYMMETRY ConnectionsSymmetry
INVARIANTS
    TokenUsable
    DisconnectSticks
    InstanceIsShown
    TextGoesOutOnce
    HookIsTold
PROPERTIES
    RequestsAreSpaced
CHECK_DEADLOCK FALSE
