SPECIFICATION MCSpec
CONSTANTS
    m1 = m1
    m2 = m2
    h1 = h1
    h2 = h2
    c1 = c1
    s1 = s1
    Dms = {m1, m2}
    Kind <- KindOf
    Workers = {h1, h2}
    MaxReprocess = 1
    MaxMishaps = 1
    HumanPause = 1
    MaxTicks = 2
    Connectors = {c1}
    Senders = {s1}
    MaxIgTokens = 2
    Msgs = {m1, m2}
    Route <- RouteOf
    Says <- SaysWhat
    Hands = {h1, h2}
    MaxDeliveries = 2
    MaxFaults = 1
    MaxPauses = 1
    Listeners = {h1, h2}
    MaxSaid = 2
    MaxSent = 2
    MaxBreaks = 1
SYMMETRY MessagesSymmetry
INVARIANTS
    EachDmTakenUp
    HumanPauseHolds
    StatusIsEarned
    OpenMessageHasCarrier
    AnsweredOnce
    PersonIsNotTalkedOver
    ConversationComplete
PROPERTIES
    OnlyConnectingConnects
CHECK_DEADLOCK FALSE
