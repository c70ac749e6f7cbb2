SPECIFICATION MCFairSpec
CONSTANTS
    common = common
    premium = premium
    h1 = h1
    h2 = h2
    Plans = {common, premium}
    FreePlan = common
    Handlers = {h1, h2}
    Ops = {"checkout", "status", "change"}
    StripeMoves = {"asyncPay", "portal"}
    EventTypes = {"checkout.completed", "updated"}
    NumCheckouts = 1
    MaxEvents = 2
    Horizon = 0
    MaxFaults = 1
    InOrder = FALSE
    PeriodEndKnown = FALSE
    LongMaxEvents = 7
    LongHorizon = 2
CHECK_DEADLOCK FALSE
INVARIANTS
    PlanWasBought
    BillingSettles
PROPERTIES
    WebhookIsInbox
    AckedInTheEnd
